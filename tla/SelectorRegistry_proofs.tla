------------------------ MODULE SelectorRegistry_proofs ------------------------
(***************************************************************************)
(* Proofs about SelectorRegistry, for any number of clients, selectors and *)
(* places and any bounds.                                                  *)
(***************************************************************************)
EXTENDS SelectorRegistry, TLAPS

-----------------------------------------------------------------------------
(* The shape of frames and records.                                        *)

Upserting == {"get", "cas", "set", "index", "unindex"}
Deleting  == {"del", "delindex"}
LookingUp == {"targets", "records", "all", "listed"}

\* A frame names what its operation is about, compares and sets exactly if it can
\* and should, and the record it has read is one the parser returns.
FrameOK(j) ==
    /\ j.pc \in Upserting => j.id \in Id /\ j.place \in Place
    /\ j.pc \in Deleting => j.id \in Id
    /\ j.pc \in LookingUp \cup {"idle"} => j.id = NoId
    /\ j.pc \in LookingUp => j.place \in Place
    /\ j.pc = "cas" => HasCas /\ j.id \notin Blind
    /\ j.pc \in {"get", "set"} => ~HasCas \/ j.id \in Blind
    /\ j.pc \in {"unindex", "delindex"} => j.seen.place \in Place
    /\ j.pc = "del" => j.seen.kind # "malformed"
    /\ WellFormed(j.seen)

Shape ==
    /\ \A id \in Id : WellFormed(records[id])
    /\ \A c \in Client : FrameOK(job[c])

LEMMA AbsentType == Absent \in Record /\ WellFormed(Absent) /\ ~Readable(Absent)
BY ConstantsAssumption DEF Absent, Record, Kind, WellFormed, Readable

LEMMA IdleJobType == IdleJob \in Job /\ FrameOK(IdleJob)
BY AbsentType DEF IdleJob, Job, FrameOK, Upserting, Deleting, LookingUp

\* A record a client writes.
LEMMA WrittenType ==
    ASSUME NEW v \in Nat, NEW p \in Place
    PROVE  LET r == [kind |-> "current", version |-> v + 1, place |-> p]
           IN  /\ r \in Record /\ WellFormed(r) /\ Readable(r)
               /\ r.version = v + 1 /\ r.place = p
BY DEF Record, Kind, WellFormed, Readable

\* A step that gives client c the frame k and writes well-formed records.
LEMMA BecomeStep ==
    ASSUME TypeOK, Shape, NEW c \in Client, NEW k \in Job, Become(c, k), FrameOK(k),
           records' \in [Id -> Record], \A id \in Id : WellFormed(records'[id])
    PROVE  job' \in [Client -> Job] /\ Shape'
<1>1. job' = [job EXCEPT ![c] = k] /\ job \in [Client -> Job]
  BY DEF Become, TypeOK
<1>2. \A d \in Client : job'[d] = IF d = c THEN k ELSE job[d]
  BY <1>1
<1>3. \A d \in Client : FrameOK(job'[d])
  BY <1>2 DEF Shape
<1>. QED BY <1>1, <1>3 DEF Shape, FrameOK, WellFormed, Readable

LEMMA FinishStep ==
    ASSUME TypeOK, Shape, NEW c \in Client, Finish(c),
           records' \in [Id -> Record], \A id \in Id : WellFormed(records'[id])
    PROVE  job' \in [Client -> Job] /\ Shape'
BY BecomeStep, IdleJobType DEF Finish

LEMMA ContinueStep ==
    ASSUME TypeOK, Shape, NEW c \in Client, NEW pc \in Busy, Continue(c, pc),
           FrameOK([job[c] EXCEPT !.pc = pc]),
           records' \in [Id -> Record], \A id \in Id : WellFormed(records'[id])
    PROVE  job' \in [Client -> Job] /\ Shape'
<1>1. [job[c] EXCEPT !.pc = pc] \in Job
  BY DEF TypeOK, Job
<1>. QED BY <1>1, BecomeStep DEF Continue

LEMMA WriteRecordStep ==
    ASSUME TypeOK, Shape, NEW c \in Client, NEW id \in Id, NEW r \in Record, WellFormed(r),
           WriteRecord(c, id, r)
    PROVE  /\ records' \in [Id -> Record] /\ \A i \in Id : WellFormed(records'[i])
           /\ index' \in Index
           /\ disturbed' \subseteq Id
           /\ steady' \in [Client -> SUBSET Id]
<1>1. records' = [records EXCEPT ![id] = r] /\ records \in [Id -> Record]
  BY DEF WriteRecord, TypeOK
<1>2. \A i \in Id : records'[i] = IF i = id THEN r ELSE records[i]
  BY <1>1
<1>3. \A i \in Id : WellFormed(records'[i])
  BY <1>2 DEF Shape
<1>4. steady' \in [Client -> SUBSET Id]
  BY DEF WriteRecord, KeepSteady, TypeOK
<1>. QED BY <1>1, <1>3, <1>4 DEF WriteRecord, TypeOK

LEMMA WriteIndexStep ==
    ASSUME TypeOK, Shape, NEW p \in Place, NEW id \in Id, NEW t \in {id, NoId},
           WriteIndex(<<p, id>>, t)
    PROVE  /\ records' \in [Id -> Record] /\ \A i \in Id : WellFormed(records'[i])
           /\ index' \in Index
           /\ disturbed' \subseteq Id
           /\ steady' \in [Client -> SUBSET Id]
<1>1. index' \in Index
  BY DEF WriteIndex, TypeOK, Index, IndexKey
<1>2. steady' \in [Client -> SUBSET Id]
  BY DEF WriteIndex, KeepSteady, TypeOK
<1>. QED BY <1>1, <1>2 DEF WriteIndex, TypeOK, Shape, WellFormed, Readable

LEMMA ReadsOnlyStep ==
    ASSUME TypeOK, Shape, ReadsOnly
    PROVE  /\ records' \in [Id -> Record] /\ \A i \in Id : WellFormed(records'[i])
           /\ index' \in Index
           /\ disturbed' \subseteq Id
           /\ steady' \in [Client -> SUBSET Id]
BY DEF ReadsOnly, store, TypeOK, Shape, WellFormed, Readable

-----------------------------------------------------------------------------
(* Type correctness.                                                       *)

LEMMA InitTypes == Init => TypeOK /\ Shape
<1>. SUFFICES ASSUME Init PROVE TypeOK /\ Shape
  OBVIOUS
<1>1. PICK s \in InitialStores : records = s.records /\ index = s.index
  BY DEF Init
<1>2. records \in [Id -> Record] /\ index \in Index /\ \A id \in Id : WellFormed(records[id])
  BY <1>1, ConstantsAssumption, StoresAssumption
<1>3. job \in [Client -> Job] /\ \A c \in Client : FrameOK(job[c])
  BY IdleJobType DEF Init
<1>. QED BY <1>2, <1>3, ConstantsAssumption DEF Init, TypeOK, Shape

LEMMA StartTypes == ASSUME TypeOK, Shape, NEW c \in Client, Start(c) PROVE TypeOK' /\ Shape'
<1>1. ASSUME NEW id \in Id, NEW p \in Place, StartUpsert(c, id, p) PROVE TypeOK' /\ Shape'
  <2>. DEFINE k == [IdleJob EXCEPT
            !.pc = IF id \notin Blind /\ HasCas THEN "cas" ELSE "get",
            !.id = id,
            !.place = p,
            !.expected = IF id \in Blind THEN 0 ELSE records[id].version]
  <2>1. records[id].version \in Nat
    BY DEF TypeOK, Record
  <2>2. k \in Job /\ FrameOK(k)
    BY <2>1, AbsentType, ConstantsAssumption DEF IdleJob, Job, Busy, FrameOK, Upserting, Deleting, LookingUp
  <2>3. Become(c, k) /\ ReadsOnly
    BY <1>1 DEF StartUpsert
  <2>. HIDE DEF k
  <2>4. job' \in [Client -> Job] /\ Shape'
    BY <2>2, <2>3, BecomeStep, ReadsOnlyStep
  <2>. QED BY <1>1, <2>3, <2>4, ReadsOnlyStep DEF StartUpsert, TypeOK
<1>2. ASSUME NEW id \in Id, StartDelete(c, id) PROVE TypeOK' /\ Shape'
  <2>. DEFINE k == [IdleJob EXCEPT !.pc = "del", !.id = id, !.seen = records[id]]
  <2>1. records[id] \in Record /\ records[id].kind # "malformed" /\ WellFormed(records[id])
    BY <1>2 DEF TypeOK, Shape, StartDelete
  <2>2. k \in Job /\ FrameOK(k)
    BY <2>1 DEF IdleJob, Job, Busy, FrameOK, Upserting, Deleting, LookingUp
  <2>3. Become(c, k) /\ ReadsOnly
    BY <1>2 DEF StartDelete
  <2>. HIDE DEF k
  <2>4. job' \in [Client -> Job] /\ Shape'
    BY <2>2, <2>3, BecomeStep, ReadsOnlyStep
  <2>5. deletes' \in 0 .. MaxDeletes
    BY <1>2, ConstantsAssumption DEF StartDelete, TypeOK
  <2>. QED BY <1>2, <2>3, <2>4, <2>5, ReadsOnlyStep DEF StartDelete, TypeOK
<1>3. ASSUME NEW p \in Place, StartLookup(c, p) PROVE TypeOK' /\ Shape'
  <2>. DEFINE K(keys) == [IdleJob EXCEPT
             !.pc = IF keys = {} THEN "all" ELSE "targets",
             !.place = p,
             !.keys = keys,
             !.full = Cardinality(keys) = Limit]
  <2>1. PICK keys \in SUBSET Id : Become(c, K(keys))
    BY <1>3 DEF StartLookup, Scans, KeysAt
  <2>2. K(keys) \in Job /\ FrameOK(K(keys))
    BY AbsentType, ConstantsAssumption DEF IdleJob, Job, Busy, FrameOK, Upserting, Deleting, LookingUp
  <2>. HIDE DEF K
  <2>3. UNCHANGED <<records, index, disturbed, deletes, faults>>
    BY <1>3 DEF StartLookup, store
  <2>4. job' \in [Client -> Job] /\ Shape'
    <3>1. records' \in [Id -> Record] /\ \A id \in Id : WellFormed(records'[id])
      BY <2>3 DEF TypeOK, Shape
    <3>. QED BY <2>1, <2>2, <3>1, BecomeStep
  <2>5. steady' \in [Client -> SUBSET Id] /\ missed' \in [Client -> SUBSET Id]
    BY <1>3 DEF StartLookup, TypeOK, RecordsAt
  <2>. QED BY <2>3, <2>4, <2>5 DEF TypeOK
<1>. QED BY <1>1, <1>2, <1>3 DEF Start

LEMMA StepTypes == ASSUME TypeOK, Shape, NEW c \in Client, Step(c) PROVE TypeOK' /\ Shape'
<1>0. job[c] \in Job /\ FrameOK(job[c]) /\ WellFormed(job[c].seen)
  BY DEF TypeOK, Shape, FrameOK
<1>1. CASE UpsertWithCompareAndSet(c)
  <2>. DEFINE j == job[c]
              r == [kind |-> "current", version |-> j.expected + 1, place |-> j.place]
              k == [j EXCEPT !.pc = "index", !.seen = records[j.id]]
  <2>1. j.id \in Id /\ j.place \in Place /\ j.expected \in Nat
    BY <1>0, <1>1 DEF UpsertWithCompareAndSet, FrameOK, Upserting, Job
  <2>2. CASE VersionMatches(j.id, j.expected)
    <3>1. WriteRecord(c, j.id, r) /\ Become(c, k)
      BY <1>1, <2>2 DEF UpsertWithCompareAndSet
    <3>2. r \in Record /\ WellFormed(r)
      BY <2>1, WrittenType
    <3>3. records[j.id] \in Record /\ WellFormed(records[j.id])
      BY <2>1 DEF TypeOK, Shape
    <3>4. k \in Job /\ FrameOK(k)
      BY <1>0, <2>1, <3>3 DEF Job, Busy, FrameOK, Upserting, Deleting, LookingUp
    <3>. HIDE DEF r, k
    <3>5. job' \in [Client -> Job] /\ Shape'
      BY <2>1, <3>1, <3>2, <3>4, WriteRecordStep, BecomeStep
    <3>. QED BY <1>1, <2>1, <3>1, <3>2, <3>5, WriteRecordStep DEF UpsertWithCompareAndSet, TypeOK
  <2>3. CASE ~VersionMatches(j.id, j.expected)
    <3>1. Finish(c) /\ ReadsOnly
      BY <1>1, <2>3 DEF UpsertWithCompareAndSet
    <3>. QED BY <1>1, <3>1, FinishStep, ReadsOnlyStep DEF UpsertWithCompareAndSet, TypeOK
  <2>. QED BY <2>2, <2>3
<1>2. CASE ReadExisting(c)
  <2>. DEFINE j == job[c]
              k == [j EXCEPT !.pc = "set", !.seen = records[j.id]]
  <2>1. j.id \in Id /\ j.place \in Place
    BY <1>0, <1>2 DEF ReadExisting, FrameOK, Upserting
  <2>2. records[j.id] \in Record /\ WellFormed(records[j.id])
    BY <2>1 DEF TypeOK, Shape
  <2>3. k \in Job /\ FrameOK(k)
    BY <1>0, <1>2, <2>1, <2>2 DEF ReadExisting, Job, Busy, FrameOK, Upserting, Deleting, LookingUp
  <2>4. ReadsOnly /\ (Finish(c) \/ Become(c, k))
    BY <1>2 DEF ReadExisting
  <2>. HIDE DEF k
  <2>. QED BY <1>2, <2>3, <2>4, FinishStep, BecomeStep, ReadsOnlyStep DEF ReadExisting, TypeOK
<1>3. CASE SetRecord(c)
  <2>. DEFINE j == job[c]
              r == [kind |-> "current", version |-> j.seen.version + 1, place |-> j.place]
  <2>1. j.id \in Id /\ j.place \in Place /\ j.seen.version \in Nat
    BY <1>0, <1>3 DEF SetRecord, FrameOK, Upserting, Job, Record
  <2>2. WriteRecord(c, j.id, r) /\ Continue(c, "index")
    BY <1>3 DEF SetRecord
  <2>3. r \in Record /\ WellFormed(r)
    BY <2>1, WrittenType
  <2>4. "index" \in Busy /\ FrameOK([job[c] EXCEPT !.pc = "index"])
    BY <1>0, <2>1 DEF Job, Busy, FrameOK, Upserting, Deleting, LookingUp
  <2>. HIDE DEF r
  <2>. QED BY <1>3, <2>1, <2>2, <2>3, <2>4, WriteRecordStep, ContinueStep DEF SetRecord, TypeOK
<1>4. CASE SetIndex(c)
  <2>. DEFINE j == job[c]
  <2>1. j.id \in Id /\ j.place \in Place
    BY <1>0, <1>4 DEF SetIndex, FrameOK, Upserting
  <2>2. WriteIndex(<<j.place, j.id>>, j.id)
    BY <1>4 DEF SetIndex
  <2>3. CASE Readable(j.seen) /\ j.seen.place # j.place
    <3>1. Continue(c, "unindex") /\ "unindex" \in Busy
      BY <1>4, <2>3 DEF SetIndex, Busy
    <3>2. FrameOK([job[c] EXCEPT !.pc = "unindex"])
      BY <1>0, <2>1, <2>3 DEF Job, Busy, FrameOK, Upserting, Deleting, LookingUp, WellFormed
    <3>. QED BY <1>4, <2>1, <2>2, <3>1, <3>2, WriteIndexStep, ContinueStep DEF SetIndex, TypeOK
  <2>4. CASE ~(Readable(j.seen) /\ j.seen.place # j.place)
    <3>1. Finish(c)
      BY <1>4, <2>4 DEF SetIndex
    <3>. QED BY <1>4, <2>1, <2>2, <3>1, WriteIndexStep, FinishStep DEF SetIndex, TypeOK
  <2>. QED BY <2>3, <2>4
<1>5. CASE DeleteOldIndex(c)
  <2>1. job[c].id \in Id /\ job[c].seen.place \in Place
    BY <1>0, <1>5 DEF DeleteOldIndex, FrameOK, Upserting
  <2>2. WriteIndex(<<job[c].seen.place, job[c].id>>, NoId) /\ Finish(c)
    BY <1>5 DEF DeleteOldIndex
  <2>. QED BY <1>5, <2>1, <2>2, WriteIndexStep, FinishStep DEF DeleteOldIndex, TypeOK
<1>6. CASE DeleteRecord(c)
  <2>. DEFINE j == job[c]
  <2>1. j.id \in Id /\ j.seen.kind # "malformed"
    BY <1>0, <1>6 DEF DeleteRecord, FrameOK, Deleting
  <2>2. WriteRecord(c, j.id, Absent)
    BY <1>6 DEF DeleteRecord
  <2>3. CASE records[j.id].kind # "absent" /\ j.seen.kind # "absent"
    <3>1. Continue(c, "delindex") /\ "delindex" \in Busy
      BY <1>6, <2>3 DEF DeleteRecord, Busy
    <3>2. j.seen.place \in Place
      BY <1>0, <2>1, <2>3 DEF WellFormed, Readable, Job, Record, Kind
    <3>3. FrameOK([job[c] EXCEPT !.pc = "delindex"])
      BY <1>0, <2>1, <3>2 DEF Job, Busy, FrameOK, Upserting, Deleting, LookingUp
    <3>. QED BY <1>6, <2>1, <2>2, <3>1, <3>3, AbsentType, WriteRecordStep, ContinueStep
             DEF DeleteRecord, TypeOK
  <2>4. CASE ~(records[j.id].kind # "absent" /\ j.seen.kind # "absent")
    <3>1. Finish(c)
      BY <1>6, <2>4 DEF DeleteRecord
    <3>. QED BY <1>6, <2>1, <2>2, <3>1, AbsentType, WriteRecordStep, FinishStep DEF DeleteRecord, TypeOK
  <2>. QED BY <2>3, <2>4
<1>7. CASE DeleteIndex(c)
  <2>1. job[c].id \in Id /\ job[c].seen.place \in Place
    BY <1>0, <1>7 DEF DeleteIndex, FrameOK, Deleting
  <2>2. WriteIndex(<<job[c].seen.place, job[c].id>>, NoId) /\ Finish(c)
    BY <1>7 DEF DeleteIndex
  <2>. QED BY <1>7, <2>1, <2>2, WriteIndexStep, FinishStep DEF DeleteIndex, TypeOK
<1>8. CASE ReadTargets(c)
  <2>. DEFINE j == job[c]
              targets == {index[<<j.place, id>>] : id \in j.keys} \ {NoId}
              k == [j EXCEPT !.pc = "records", !.keys = targets]
  <2>1. j.id = NoId /\ j.place \in Place /\ j.keys \subseteq Id
    BY <1>0, <1>8 DEF ReadTargets, FrameOK, LookingUp, Job
  <2>2. targets \subseteq Id
    <3>1. ASSUME NEW id \in j.keys PROVE index[<<j.place, id>>] \in Id \cup {NoId}
      <4>1. <<j.place, id>> \in Place \X Id
        BY <2>1
      <4>. QED BY <4>1 DEF TypeOK, Index, IndexKey
    <3>. QED BY <3>1
  <2>3. Become(c, k) /\ ReadsOnly
    BY <1>8 DEF ReadTargets
  <2>. HIDE DEF targets
  <2>4. k \in Job /\ FrameOK(k)
    BY <1>0, <2>1, <2>2 DEF Job, Busy, FrameOK, Upserting, Deleting, LookingUp
  <2>. HIDE DEF k
  <2>. QED BY <1>8, <2>3, <2>4, BecomeStep, ReadsOnlyStep DEF ReadTargets, TypeOK
<1>9. CASE ListAll(c)
  <2>. DEFINE j == job[c]
              k == [j EXCEPT !.pc = "listed", !.keys = Existing]
  <2>1. j.id = NoId /\ j.place \in Place /\ Existing \subseteq Id
    BY <1>0, <1>9 DEF ListAll, FrameOK, LookingUp, Existing
  <2>2. Become(c, k) /\ ReadsOnly
    BY <1>9 DEF ListAll
  <2>3. k \in Job /\ FrameOK(k)
    BY <1>0, <2>1 DEF Job, Busy, FrameOK, Upserting, Deleting, LookingUp
  <2>. HIDE DEF k
  <2>. QED BY <1>9, <2>2, <2>3, BecomeStep, ReadsOnlyStep DEF ListAll, TypeOK
<1>10. CASE ReadRecords(c)
  <2>1. Finish(c) /\ UNCHANGED <<records, index, disturbed, deletes, faults>>
    BY <1>10 DEF ReadRecords, store
  <2>2. job' \in [Client -> Job] /\ Shape'
    <3>1. records' \in [Id -> Record] /\ \A id \in Id : WellFormed(records'[id])
      BY <2>1 DEF TypeOK, Shape
    <3>. QED BY <2>1, <3>1, FinishStep
  <2>3. steady' \in [Client -> SUBSET Id] /\ missed' \in [Client -> SUBSET Id]
    BY <1>10 DEF ReadRecords, TypeOK
  <2>. QED BY <2>1, <2>2, <2>3 DEF TypeOK
<1>. QED
  BY <1>1, <1>2, <1>3, <1>4, <1>5, <1>6, <1>7, <1>8, <1>9, <1>10 DEF Step

LEMMA FailTypes == ASSUME TypeOK, Shape, NEW c \in Client, Fail(c) PROVE TypeOK' /\ Shape'
<1>1. Finish(c) /\ UNCHANGED <<records, index, missed, deletes>>
  BY DEF Fail, store
<1>2. job' \in [Client -> Job] /\ Shape'
  <2>1. records' \in [Id -> Record] /\ \A id \in Id : WellFormed(records'[id])
    BY <1>1 DEF TypeOK, Shape
  <2>. QED BY <1>1, <2>1, FinishStep
<1>3. disturbed' \subseteq Id /\ steady' \in [Client -> SUBSET Id]
  BY DEF Fail, TypeOK, Job
<1>4. faults' \in 0 .. MaxFaults
  BY ConstantsAssumption DEF Fail, TypeOK
<1>. QED BY <1>1, <1>2, <1>3, <1>4 DEF TypeOK

LEMMA TypeStep == TypeOK /\ Shape /\ [Next]_vars => TypeOK' /\ Shape'
<1>. SUFFICES ASSUME TypeOK, Shape, [Next]_vars PROVE TypeOK' /\ Shape'
  OBVIOUS
<1>1. CASE UNCHANGED vars
  BY <1>1 DEF vars, store, observed, TypeOK, Shape, FrameOK, WellFormed, Readable
<1>2. CASE Next
  BY <1>2, StartTypes, StepTypes, FailTypes DEF Next
<1>. QED BY <1>1, <1>2

\* What every step preserves about the form of records and frames.
THEOREM Invariance == Spec => [](TypeOK /\ Shape)
BY InitTypes, TypeStep, PTL DEF Spec

-----------------------------------------------------------------------------
(* Optimistic concurrency.                                                 *)

\* What a step may do to the record of a selector whose writers state a version,
\* on a store that compares and sets: nothing, the next version, or no record.
LEMMA RecordStep ==
    ASSUME HasCas, TypeOK, Shape, [Next]_vars, NEW id \in Id \ Blind
    PROVE  /\ \/ UNCHANGED records
              \/ \E i \in Blind, r \in Record : records' = [records EXCEPT ![i] = r]
              \/ \E i \in Id \ Blind, r \in Record :
                    /\ records' = [records EXCEPT ![i] = r]
                    /\ r.version = records[i].version + 1 \/ r.version = 0
           /\ \A c \in Client :
                 job[c].pc \in {"cas", "set"} /\ job[c].id = id /\ job'[c].pc = "index"
                 => records[id].version = job[c].expected
<1>. DEFINE R == \/ UNCHANGED records
                 \/ \E i \in Blind, r \in Record : records' = [records EXCEPT ![i] = r]
                 \/ \E i \in Id \ Blind, r \in Record :
                       /\ records' = [records EXCEPT ![i] = r]
                       /\ r.version = records[i].version + 1 \/ r.version = 0
            F(c) == job[c].pc \in {"cas", "set"} /\ job[c].id = id /\ job'[c].pc = "index"
                    => records[id].version = job[c].expected
            A == R /\ \A c \in Client : F(c)
<1>. HIDE DEF F
<1>0. job \in [Client -> Job] /\ \A c \in Client : FrameOK(job[c])
  BY DEF TypeOK, Shape
\* Only the step of a client about to write id is restricted.
<1>1. ASSUME NEW c \in Client, NEW k, Become(c, k), k.pc # "index" \/ job[c].pc \notin {"cas", "set"}
      PROVE  \A d \in Client : F(d)
  <2>1. \A d \in Client : job'[d] = IF d = c THEN k ELSE job[d]
    BY <1>0, <1>1 DEF Become
  <2>. QED BY <1>1, <2>1 DEF F
<1>2. ASSUME UNCHANGED vars PROVE A
  BY <1>2 DEF vars, store, F
<1>3. ASSUME NEW c \in Client, Start(c) PROVE A
  <2>1. UNCHANGED records
    BY <1>3 DEF Start, StartUpsert, StartDelete, StartLookup, ReadsOnly, store
  <2>2. job[c].pc = "idle" /\ \E k : Become(c, k)
    BY <1>3 DEF Start, StartUpsert, StartDelete, StartLookup
  <2>. QED BY <1>1, <2>1, <2>2
<1>4. ASSUME NEW c \in Client, UpsertWithCompareAndSet(c) PROVE A
  <2>. DEFINE j == job[c]
              r == [kind |-> "current", version |-> j.expected + 1, place |-> j.place]
  <2>1. /\ j.id \in Id \ Blind /\ j.place \in Place /\ j.expected \in Nat /\ r \in Record
        /\ r.version = j.expected + 1
    BY <1>0, <1>4, WrittenType DEF UpsertWithCompareAndSet, FrameOK, Upserting, Job
  <2>2. CASE VersionMatches(j.id, j.expected)
    <3>1. records' = [records EXCEPT ![j.id] = r]
      BY <1>4, <2>2 DEF UpsertWithCompareAndSet, WriteRecord
    <3>2. records[j.id].version = j.expected
      BY <2>1, <2>2 DEF VersionMatches, Shape, WellFormed
    <3>. HIDE DEF r
    <3>3. \A d \in Client \ {c} : job'[d] = job[d]
      BY <1>0, <1>4, <2>2 DEF UpsertWithCompareAndSet, Become
    <3>4. \A d \in Client : F(d)
      BY <3>2, <3>3 DEF F
    <3>. QED BY <2>1, <3>1, <3>2, <3>4
  <2>3. CASE ~VersionMatches(j.id, j.expected)
    <3>1. Become(c, IdleJob) /\ UNCHANGED records /\ IdleJob.pc = "idle"
      BY <1>4, <2>3 DEF UpsertWithCompareAndSet, Finish, ReadsOnly, store, IdleJob
    <3>. QED BY <1>1, <3>1
  <2>. QED BY <2>2, <2>3
<1>5. ASSUME NEW c \in Client, SetRecord(c) PROVE A
  <2>. DEFINE r == [kind |-> "current", version |-> job[c].seen.version + 1, place |-> job[c].place]
  <2>1. job[c].id \in Blind /\ job[c].place \in Place /\ job[c].seen.version \in Nat
    BY <1>0, <1>5 DEF SetRecord, FrameOK, Upserting, Job, Record
  <2>2. r \in Record
    BY <2>1, WrittenType
  <2>3. records' = [records EXCEPT ![job[c].id] = r]
    BY <1>5 DEF SetRecord, WriteRecord
  <2>. HIDE DEF r
  <2>4. \A d \in Client \ {c} : job'[d] = job[d]
    BY <1>0, <1>5 DEF SetRecord, Continue, Become
  <2>5. \A d \in Client : F(d)
    BY <2>1, <2>4 DEF F
  <2>. QED BY <2>1, <2>2, <2>3, <2>5
<1>6. ASSUME NEW c \in Client, DeleteRecord(c) PROVE A
  <2>1. records' = [records EXCEPT ![job[c].id] = Absent] /\ Absent.version = 0
    BY <1>6 DEF DeleteRecord, WriteRecord, Absent
  <2>2. job[c].id \in Id /\ job[c].pc = "del" /\ \E k : Become(c, k)
    BY <1>0, <1>6 DEF DeleteRecord, FrameOK, Deleting, Continue, Finish
  <2>3. \A d \in Client : F(d)
    BY <1>1, <2>2
  <2>. QED BY <2>1, <2>2, <2>3, AbsentType
<1>7. ASSUME NEW c \in Client, ReadExisting(c) PROVE A
  <2>1. UNCHANGED records
    BY <1>7 DEF ReadExisting, ReadsOnly, store
  <2>. DEFINE k == [job[c] EXCEPT !.pc = "set", !.seen = records[job[c].id]]
  <2>2. k.pc # "index" /\ IdleJob.pc # "index"
    BY <1>0 DEF Job, IdleJob
  <2>3. Become(c, k) \/ Become(c, IdleJob)
    BY <1>7 DEF ReadExisting, Finish
  <2>. HIDE DEF k
  <2>. QED BY <1>1, <2>1, <2>2, <2>3
\* No other step writes a record.
<1>8. ASSUME NEW c \in Client,
             \/ SetIndex(c) \/ DeleteOldIndex(c) \/ DeleteIndex(c) \/ ReadTargets(c)
             \/ ListAll(c) \/ ReadRecords(c) \/ Fail(c)
      PROVE  A
  <2>1. UNCHANGED records
    BY <1>8 DEF SetIndex, DeleteOldIndex, DeleteIndex, WriteIndex, ReadTargets, ListAll, ReadRecords,
                Fail, ReadsOnly, store
  <2>2. \E k : Become(c, k) /\ (k.pc # "index" \/ job[c].pc \notin {"cas", "set"})
    BY <1>8 DEF SetIndex, DeleteOldIndex, DeleteIndex, ReadTargets, ListAll, ReadRecords,
                Fail, Continue, Finish, IdleJob
  <2>. QED BY <1>1, <2>1, <2>2
<1>9. A
  BY <1>2, <1>3, <1>4, <1>5, <1>6, <1>7, <1>8 DEF Next, Step
<1>. QED BY <1>9 DEF F

\* However many clients upsert and delete a selector at once, with whatever
\* failures: an upsert that states an expectedVersion lands only on a record of
\* that version, provided the store compares and sets.
THEOREM StaleWritesAreRefused ==
    ASSUME HasCas
    PROVE  Spec => StaleWritesNeverLand
<1>1. TypeOK /\ Shape /\ [Next]_vars =>
         [\A c \in Client, id \in Id \ Blind :
             /\ job[c].pc \in {"cas", "set"}
             /\ job[c].id = id
             /\ job'[c].pc = "index"
             => records[id].version = job[c].expected]_vars
  BY RecordStep
<1>. QED BY <1>1, Invariance, PTL DEF Spec, StaleWritesNeverLand

\* On such a store the versions of a selector whose writers state the version they
\* read never skip, repeat or go back, from its creation to its deletion.
THEOREM ImplementsVersions ==
    ASSUME HasCas
    PROVE  Spec => VersionsAdvanceByOne
<1>. DEFINE version == [id \in Id \ Blind |-> records[id].version]
<1>1. TypeOK => Versions!Init
  BY DEF TypeOK, Versions!Init, Record
<1>2. TypeOK /\ Shape /\ [Next]_vars => [Versions!Next]_version
  <2>. SUFFICES ASSUME TypeOK, Shape, [Next]_vars PROVE Versions!Next \/ UNCHANGED version
    OBVIOUS
  <2>0. records \in [Id -> Record]
    BY DEF TypeOK
  <2>1. CASE Id \ Blind = {}
    BY <2>1
  <2>2. CASE UNCHANGED records
    BY <2>2
  <2>3. ASSUME NEW i \in Blind, NEW r \in Record, records' = [records EXCEPT ![i] = r]
        PROVE  UNCHANGED version
    <3>1. \A x \in Id \ Blind : records'[x] = records[x]
      BY <2>0, <2>3
    <3>. QED BY <3>1
  <2>4. ASSUME NEW i \in Id \ Blind, NEW r \in Record, records' = [records EXCEPT ![i] = r],
               r.version = records[i].version + 1 \/ r.version = 0
        PROVE  Versions!Next
    <3>1. \A x \in Id : records'[x] = IF x = i THEN r ELSE records[x]
      BY <2>0, <2>4
    <3>2. version' = [version EXCEPT ![i] = r.version]
      BY <3>1
    <3>. QED BY <2>4, <3>2 DEF Versions!Next, Versions!Write, Versions!Delete
  <2>. QED BY <2>1, <2>2, <2>3, <2>4, RecordStep
<1>. QED BY <1>1, <1>2, Invariance, InitTypes, PTL DEF Spec, VersionsAdvanceByOne, Versions!Spec

-----------------------------------------------------------------------------
(* Lookups.                                                                *)

\* A lookup still owes the steady selectors: each has its record where the lookup
\* looks and, below the limit, is among what the lookup has read so far.
LookupOK(c) ==
    /\ missed[c] = {}
    /\ job[c].pc \notin LookingUp => steady[c] = {}
    /\ \A id \in steady[c] :
          /\ Readable(records[id]) /\ records[id].place = job[c].place
          /\ ~job[c].full =>
                /\ job[c].pc = "targets" =>
                      id \in job[c].keys /\ index[<<job[c].place, id>>] = id
                /\ job[c].pc \in {"records", "listed"} => id \in job[c].keys

LookupInv == \A c \in Client : LookupOK(c)

\* What others do to the selectors a lookup owes.
LEMMA OthersKeep ==
    ASSUME TypeOK, NEW d \in Client, LookupOK(d), job'[d] = job[d], missed'[d] = missed[d],
           KeepSteady \/ (UNCHANGED <<records, index>> /\ steady'[d] \in {steady[d], {}}),
           steady'[d] = {} => job[d].pc \in LookingUp \/ job'[d].pc \notin LookingUp
    PROVE  LookupOK(d)'
<1>1. ASSUME NEW id \in steady'[d]
      PROVE  /\ id \in steady[d] /\ Readable(records[id])' /\ records'[id].place = job[d].place
             /\ LET key == <<job[d].place, id>> IN index[key] = id => index'[key] = id
  <2>1. CASE KeepSteady
    BY <2>1 DEF KeepSteady, Readable
  <2>2. CASE UNCHANGED <<records, index>> /\ steady'[d] \in {steady[d], {}}
    BY <2>2 DEF LookupOK, Readable
  <2>. QED BY <2>1, <2>2
<1>2. steady'[d] \subseteq steady[d]
  BY <1>1
<1>. QED BY <1>1, <1>2 DEF LookupOK, Readable

\* A step of a client that is not looking up anything, before or after.
LEMMA NoLookupStep ==
    ASSUME TypeOK, LookupInv, NEW c \in Client, NEW k, Become(c, k), job[c].pc \notin LookingUp,
           k.pc \notin LookingUp, missed' = missed, KeepSteady \/ ReadsOnly
    PROVE  LookupInv'
<1>1. \A d \in Client : job'[d] = IF d = c THEN k ELSE job[d]
  BY DEF TypeOK, Become
<1>2. ASSUME NEW d \in Client, d # c PROVE LookupOK(d)'
  <2>1. LookupOK(d) /\ job'[d] = job[d]
    BY <1>1, <1>2 DEF LookupInv
  <2>2. KeepSteady \/ (UNCHANGED <<records, index>> /\ steady'[d] \in {steady[d], {}})
    BY DEF ReadsOnly, store
  <2>. QED BY <2>1, <2>2, OthersKeep
<1>3. steady'[c] = {}
  <2>1. steady[c] = {}
    BY DEF LookupInv, LookupOK
  <2>. QED BY <2>1 DEF KeepSteady, ReadsOnly, store
<1>4. LookupOK(c)'
  BY <1>1, <1>3 DEF LookupInv, LookupOK
<1>. QED BY <1>2, <1>4 DEF LookupInv

\* A step of a lookup, which changes nothing in the store.
LEMMA LookupStep ==
    ASSUME TypeOK, LookupInv, NEW c \in Client, NEW k, Become(c, k),
           UNCHANGED <<records, index>>, NEW S, steady' = [steady EXCEPT ![c] = S],
           NEW M, missed' = [missed EXCEPT ![c] = M],
           job'[c] = k /\ steady'[c] = S /\ missed'[c] = M => LookupOK(c)'
    PROVE  LookupInv'
<1>1. \A d \in Client : /\ job'[d] = IF d = c THEN k ELSE job[d]
                        /\ steady'[d] = IF d = c THEN S ELSE steady[d]
                        /\ missed'[d] = IF d = c THEN M ELSE missed[d]
  BY DEF TypeOK, Become
<1>2. ASSUME NEW d \in Client, d # c PROVE LookupOK(d)'
  <2>1. LookupOK(d) /\ job'[d] = job[d]
    BY <1>1, <1>2 DEF LookupInv
  <2>. QED BY <1>1, <1>2, <2>1, OthersKeep
<1>. QED BY <1>1, <1>2 DEF LookupInv

LEMMA StartLookupStep ==
    ASSUME TypeOK, LookupInv, NEW c \in Client, NEW p \in Place, StartLookup(c, p)
    PROVE  LookupInv'
<1>. DEFINE S == {id \in RecordsAt(p) : KeysAt(p) # {} => index[<<p, id>>] = id}
            K(keys) == [IdleJob EXCEPT
               !.pc = IF keys = {} THEN "all" ELSE "targets",
               !.place = p,
               !.keys = keys,
               !.full = Cardinality(keys) = Limit]
<1>1. PICK keys \in Scans(KeysAt(p), Limit) : Become(c, K(keys))
  BY DEF StartLookup
<1>2. /\ UNCHANGED <<records, index>>
      /\ steady' = [steady EXCEPT ![c] = S]
      /\ missed' = [missed EXCEPT ![c] = {}]
  BY DEF StartLookup, store
<1>3. /\ K(keys).pc = IF keys = {} THEN "all" ELSE "targets"
      /\ K(keys).place = p /\ K(keys).keys = keys
      /\ K(keys).full = (Cardinality(keys) = Limit)
  BY DEF IdleJob
<1>4. ~K(keys).full => keys = KeysAt(p)
  BY <1>3 DEF Scans
\* A selector with its entry at p has a key there.
<1>5. \A id \in S : /\ Readable(records[id]) /\ records[id].place = p
                    /\ keys # {} => index[<<p, id>>] = id /\ id \in KeysAt(p)
  BY ConstantsAssumption DEF Scans, RecordsAt, KeysAt
<1>. HIDE DEF K
<1>7. ASSUME job'[c] = K(keys), steady'[c] = S, missed'[c] = {} PROVE LookupOK(c)'
  <2>1. /\ job'[c].pc = IF keys = {} THEN "all" ELSE "targets"
        /\ job'[c].place = p /\ job'[c].keys = keys
        /\ ~job'[c].full => keys = KeysAt(p)
    BY <1>3, <1>4, <1>7
  <2>2. \A id \in S : /\ Readable(records'[id]) /\ records'[id].place = p
                      /\ keys # {} => index'[<<p, id>>] = id /\ id \in KeysAt(p)
    BY <1>2, <1>5 DEF Readable
  <2>. QED BY <1>7, <2>1, <2>2 DEF LookupOK, LookingUp, Readable
<1>. QED BY <1>1, <1>2, <1>7, LookupStep

LEMMA LookupReadsStep ==
    ASSUME TypeOK, Shape, LookupInv, NEW c \in Client,
           ReadTargets(c) \/ ListAll(c) \/ ReadRecords(c) \/ Fail(c)
    PROVE  LookupInv'
<1>. DEFINE j == job[c]
<1>0. LookupOK(c) /\ j \in Job /\ steady[c] \subseteq Id
  BY DEF LookupInv, TypeOK
<1>0a. steady = [steady EXCEPT ![c] = steady[c]] /\ missed = [missed EXCEPT ![c] = missed[c]]
  BY DEF TypeOK
<1>1. CASE ReadTargets(c)
  <2>. DEFINE targets == {index[<<j.place, id>>] : id \in j.keys} \ {NoId}
              k == [j EXCEPT !.pc = "records", !.keys = targets]
  <2>1. /\ Become(c, k) /\ UNCHANGED <<records, index, steady, missed>> /\ j.pc = "targets"
    BY <1>1 DEF ReadTargets, ReadsOnly, store
  <2>2. k.pc = "records" /\ k.place = j.place /\ k.full = j.full /\ k.keys = targets
    BY <1>0 DEF Job
  <2>3. \A id \in steady[c] : ~j.full => id \in targets
    BY <1>0, <2>1, ConstantsAssumption DEF LookupOK
  <2>. HIDE DEF k, targets
  <2>4. job'[c] = k => LookupOK(c)'
    BY <1>0, <2>1, <2>2, <2>3 DEF LookupOK, LookingUp, Readable
  <2>. QED BY <1>0a, <2>1, <2>4, LookupStep
<1>2. CASE ListAll(c)
  <2>. DEFINE k == [j EXCEPT !.pc = "listed", !.keys = Existing]
  <2>1. /\ Become(c, k) /\ UNCHANGED <<records, index, steady, missed>> /\ j.pc = "all"
    BY <1>2 DEF ListAll, ReadsOnly, store
  <2>2. k.pc = "listed" /\ k.place = j.place /\ k.full = j.full /\ k.keys = Existing
    BY <1>0 DEF Job
  <2>3. \A id \in steady[c] : id \in Existing
    BY <1>0 DEF LookupOK, Existing, Readable
  <2>. HIDE DEF k
  <2>4. job'[c] = k => LookupOK(c)'
    BY <1>0, <2>1, <2>2, <2>3 DEF LookupOK, LookingUp, Readable
  <2>. QED BY <1>0a, <2>1, <2>4, LookupStep
<1>3. CASE ReadRecords(c)
  <2>. DEFINE at == {id \in j.keys : Readable(records[id]) /\ records[id].place = j.place}
  <2>1. /\ Become(c, IdleJob) /\ UNCHANGED <<records, index>>
        /\ steady' = [steady EXCEPT ![c] = {}] /\ j.pc \in {"records", "listed"}
    BY <1>3 DEF ReadRecords, Finish, store
  <2>2. ~j.full => steady[c] \subseteq at
    BY <1>0, <2>1 DEF LookupOK
  <2>3. missed' = [missed EXCEPT ![c] = {}]
    <3>1. CASE UNCHANGED missed
      BY <1>0, <1>0a, <3>1 DEF LookupOK
    <3>2. CASE \E found \in Scans(at, Limit) :
                missed' = [missed EXCEPT ![c] =
                    IF j.full \/ found # at THEN {} ELSE steady[c] \ found]
      BY <2>2, <3>2
    <3>. QED BY <1>3, <3>1, <3>2 DEF ReadRecords
  <2>4. job'[c] = IdleJob /\ steady'[c] = {} /\ missed'[c] = {} => LookupOK(c)'
    BY DEF LookupOK, IdleJob, LookingUp
  <2>. QED BY <2>1, <2>3, <2>4, LookupStep
<1>4. CASE Fail(c)
  <2>1. /\ Become(c, IdleJob) /\ UNCHANGED <<records, index, missed>>
        /\ steady' = [steady EXCEPT ![c] = {}]
    BY <1>4 DEF Fail, Finish, store
  <2>2. job'[c] = IdleJob /\ steady'[c] = {} /\ missed'[c] = missed[c] => LookupOK(c)'
    BY <1>0 DEF LookupOK, IdleJob, LookingUp
  <2>. QED BY <1>0a, <2>1, <2>2, LookupStep
<1>. QED BY <1>1, <1>2, <1>3, <1>4

LEMMA LookupInvStep == TypeOK /\ Shape /\ LookupInv /\ [Next]_vars => LookupInv'
<1>. SUFFICES ASSUME TypeOK, Shape, LookupInv, [Next]_vars PROVE LookupInv'
  OBVIOUS
<1>1. CASE UNCHANGED vars
  BY <1>1 DEF vars, store, observed, LookupInv, LookupOK, Readable
<1>2. ASSUME NEW c \in Client, NEW id \in Id,
             StartDelete(c, id) \/ \E p \in Place : StartUpsert(c, id, p)
      PROVE  LookupInv'
  <2>1. /\ job[c].pc = "idle" /\ missed' = missed /\ ReadsOnly
    BY <1>2 DEF StartDelete, StartUpsert
  <2>2. CASE StartDelete(c, id)
    <3>. DEFINE k == [IdleJob EXCEPT !.pc = "del", !.id = id, !.seen = records[id]]
    <3>1. Become(c, k) /\ k.pc = "del"
      BY <2>2 DEF StartDelete, IdleJob
    <3>. HIDE DEF k
    <3>. QED BY <2>1, <3>1, NoLookupStep DEF LookingUp
  <2>3. ASSUME NEW p \in Place, StartUpsert(c, id, p) PROVE LookupInv'
    <3>. DEFINE k == [IdleJob EXCEPT
              !.pc = IF id \notin Blind /\ HasCas THEN "cas" ELSE "get",
              !.id = id,
              !.place = p,
              !.expected = IF id \in Blind THEN 0 ELSE records[id].version]
    <3>1. Become(c, k)
      BY <2>3 DEF StartUpsert
    <3>2. k.pc \in {"cas", "get"}
      BY DEF IdleJob
    <3>. HIDE DEF k
    <3>. QED BY <2>1, <3>1, <3>2, NoLookupStep DEF LookingUp
  <2>. QED BY <1>2, <2>2, <2>3
<1>3. ASSUME NEW c \in Client,
             \/ UpsertWithCompareAndSet(c) \/ ReadExisting(c) \/ SetRecord(c) \/ SetIndex(c)
             \/ DeleteOldIndex(c) \/ DeleteRecord(c) \/ DeleteIndex(c)
      PROVE  LookupInv'
  <2>0. job[c] \in Job
    BY DEF TypeOK
  <2>1. job[c].pc \in Upserting \cup Deleting /\ missed' = missed /\ (KeepSteady \/ ReadsOnly)
    BY <1>3 DEF UpsertWithCompareAndSet, ReadExisting, SetRecord, SetIndex, DeleteOldIndex, DeleteRecord,
                DeleteIndex, WriteRecord, WriteIndex, Upserting, Deleting
  <2>. DEFINE K(seen, pc) == [job[c] EXCEPT !.pc = pc, !.seen = seen]
              L(pc) == [job[c] EXCEPT !.pc = pc]
  <2>a. \A seen, pc : K(seen, pc).pc = pc /\ L(pc).pc = pc /\ IdleJob.pc = "idle"
    BY <2>0 DEF IdleJob, Job
  <2>b. \/ Become(c, IdleJob)
        \/ \E pc \in {"index", "set"} : Become(c, K(records[job[c].id], pc))
        \/ \E pc \in {"index", "unindex", "delindex"} : Become(c, L(pc))
    BY <1>3 DEF UpsertWithCompareAndSet, ReadExisting, SetRecord, SetIndex, DeleteOldIndex,
                DeleteRecord, DeleteIndex, Continue, Finish
  <2>. HIDE DEF K, L
  <2>2. \E k : Become(c, k) /\ k.pc \in Upserting \cup Deleting \cup {"idle"}
    BY <2>a, <2>b DEF Upserting, Deleting
  <2>. QED BY <2>1, <2>2, NoLookupStep DEF LookingUp, Upserting, Deleting
<1>. QED BY <1>1, <1>2, <1>3, StartLookupStep, LookupReadsStep DEF Next, Start, Step

\* A lookup that stays under its limit misses no selector that had its record and
\* its entry there all the while, nor any whose record was there where nothing is
\* indexed, whatever the other clients and the failures did meanwhile.
THEOREM LookupsFindSteady == Spec => []LookupFindsSteady
<1>1. Init => LookupInv
  <2>. SUFFICES ASSUME Init PROVE LookupInv
    OBVIOUS
  <2>1. \A c \in Client : missed[c] = {} /\ steady[c] = {} /\ job[c].pc = "idle"
    BY DEF Init, IdleJob
  <2>. QED BY <2>1 DEF LookupInv, LookupOK, LookingUp
<1>2. LookupInv => LookupFindsSteady
  BY DEF LookupInv, LookupOK, LookupFindsSteady
<1>. QED BY <1>1, <1>2, Invariance, LookupInvStep, PTL DEF Spec

-----------------------------------------------------------------------------
(* Records and their index entries.                                        *)

\* Client c is going to remove the entry of id at place p.
Removes(c, id, p) ==
    /\ job[c].id = id
    /\ job[c].seen.place = p
    /\ \/ job[c].pc = "index" /\ Readable(job[c].seen) /\ p # job[c].place
       \/ job[c].pc \in {"unindex", "delindex"}

\* What frame j has seen or written of id is still so.
Fits(j, id) ==
    j.id = id =>
        /\ j.pc \in {"index", "unindex"} => records[id].place = j.place
        /\ j.pc = "unindex" => j.seen.place # j.place
        /\ j.pc \in {"set", "del"} => records[id].place = j.seen.place
        /\ j.pc = "delindex" => records[id].place = NoPlace

\* What is wrong about the entries of id, a client is about to put right.
Tidy(id) ==
    /\ records[id].place \in Place =>
          \/ index[<<records[id].place, id>>] = id
          \/ \E c \in Client : job[c].id = id /\ job[c].pc = "index"
    /\ \A p \in Place \ {records[id].place} :
          \/ index[<<p, id>>] = NoId
          \/ \E c \in Client : Removes(c, id, p)
    /\ \A c \in Client : Fits(job[c], id)

IndexInv == \A id \in Id \ disturbed : Tidy(id)

\* Client c has an entry of id to write or remove.
Owes(c, id) == job[c].id = id /\ job[c].pc \in {"index", "unindex", "delindex"}

\* A step that leaves id and its entries where they are, by a client that owes
\* them nothing.
LEMMA StaysTidy ==
    ASSUME TypeOK, NEW id \in Id, Tidy(id), NEW c \in Client, NEW k, Become(c, k),
           records'[id].place = records[id].place,
           \A p \in Place : index'[<<p, id>>] = index[<<p, id>>],
           ~Owes(c, id), Fits(k, id)
    PROVE  Tidy(id)'
<1>1. \A d \in Client : job'[d] = IF d = c THEN k ELSE job[d]
  BY DEF TypeOK, Become
<1>2. ASSUME NEW p \in Place, NEW d \in Client, Removes(d, id, p) PROVE Removes(d, id, p)'
  BY <1>1, <1>2 DEF Removes, Owes, Readable
<1>3. \A d \in Client : job[d].id = id /\ job[d].pc = "index" => job'[d] = job[d]
  BY <1>1 DEF Owes
<1>4. \A d \in Client : Fits(job[d], id)'
  BY <1>1 DEF Tidy, Fits
<1>. QED BY <1>2, <1>3, <1>4 DEF Tidy

\* Client c moves, creates or deletes id while no other operation is on it.
LEMMA MovedTidily ==
    ASSUME TypeOK, NEW id \in Id, Tidy(id), NEW c \in Client, NEW k, Become(c, k),
           index' = index,
           \A d \in Client \ {c} : ~OnRecord(d, id),
           ~Owes(c, id), k.id = id, k.seen.place = records[id].place,
           \/ /\ k.pc = "index" /\ records'[id].place = k.place
              /\ records[id].place # k.place
              /\ records[id].place \in Place => Readable(k.seen)
           \/ k.pc = "delindex" /\ records'[id].place = NoPlace
    PROVE  Tidy(id)'
<1>1. \A d \in Client : job'[d] = IF d = c THEN k ELSE job[d]
  BY DEF TypeOK, Become
<1>2. \A d \in Client, p \in Place : ~Removes(d, id, p)
  BY DEF Removes, Owes, OnRecord, Busy
<1>3. \A p \in Place \ {records[id].place} : index'[<<p, id>>] = NoId
  BY <1>2 DEF Tidy
<1>4. ASSUME NEW p \in Place, p = records[id].place PROVE Removes(c, id, p)'
  BY <1>1, <1>4 DEF Removes, Readable
<1>5. records'[id].place \in Place => k.pc = "index"
  BY ConstantsAssumption
<1>6. ASSUME NEW d \in Client PROVE Fits(job[d], id)'
  BY <1>1 DEF Tidy, Fits, OnRecord, Busy
<1>. QED BY <1>1, <1>3, <1>4, <1>5, <1>6 DEF Tidy

LEMMA RecordStepTidy ==
    ASSUME TypeOK, Shape, NEW c \in Client, NEW id \in Id, Tidy(id), id \notin disturbed',
           UpsertWithCompareAndSet(c) \/ SetRecord(c) \/ DeleteRecord(c)
    PROVE  Tidy(id)'
<1>. DEFINE j == job[c]
<1>0. j \in Job /\ FrameOK(j) /\ Fits(j, id) /\ records \in [Id -> Record]
  BY DEF TypeOK, Shape, Tidy
<1>1. j.pc \in {"cas", "set", "del"} /\ j.id \in Id /\ ~Owes(c, id)
  BY <1>0 DEF UpsertWithCompareAndSet, SetRecord, DeleteRecord, FrameOK, Upserting, Deleting, Owes
\* The client writes r and goes on with k, having seen where the record was.
<1>2. ASSUME NEW r, NEW k, WriteRecord(c, j.id, r), Become(c, k), k.id = j.id,
             j.id = id => /\ k.pc = "index" /\ r.place = k.place
                          /\ k.seen.place = records[id].place
                          /\ records[id].place \in Place => Readable(k.seen)
      PROVE  Tidy(id)'
  <2>1. records' = [records EXCEPT ![j.id] = r] /\ index' = index
    BY <1>2 DEF WriteRecord
  <2>2. CASE j.id # id
    <3>1. records'[id] = records[id] /\ Fits(k, id)
      BY <1>0, <1>2, <2>1, <2>2 DEF Fits
    <3>. QED BY <1>1, <1>2, <2>1, <3>1, StaysTidy
  <2>3. CASE j.id = id /\ r.place = records[id].place
    <3>1. records'[id].place = records[id].place /\ Fits(k, id)
      BY <1>0, <1>2, <2>1, <2>3 DEF Fits
    <3>. QED BY <1>1, <1>2, <2>1, <3>1, StaysTidy
  <2>4. CASE j.id = id /\ r.place # records[id].place
    <3>1. \A d \in Client \ {c} : ~OnRecord(d, id)
      BY <1>2, <2>4 DEF WriteRecord
    <3>2. records'[id].place = k.place
      BY <1>0, <1>2, <2>1, <2>4
    <3>. QED BY <1>1, <1>2, <2>1, <2>4, <3>1, <3>2, MovedTidily
  <2>. QED BY <2>2, <2>3, <2>4
<1>3. CASE UpsertWithCompareAndSet(c)
  <2>1. CASE VersionMatches(j.id, j.expected)
    <3>. DEFINE r == [kind |-> "current", version |-> j.expected + 1, place |-> j.place]
                k == [j EXCEPT !.pc = "index", !.seen = records[j.id]]
    <3>1. WriteRecord(c, j.id, r) /\ Become(c, k)
      BY <1>3, <2>1 DEF UpsertWithCompareAndSet
    <3>2. /\ k.id = j.id /\ k.pc = "index" /\ r.place = k.place /\ k.seen = records[j.id]
      BY <1>0 DEF Job
    <3>3. records[id].place \in Place => Readable(records[id])
      BY DEF Shape, WellFormed
    <3>. HIDE DEF r, k
    <3>. QED BY <1>2, <3>1, <3>2, <3>3
  <2>2. CASE ~VersionMatches(j.id, j.expected)
    <3>1. Become(c, IdleJob) /\ records' = records /\ index' = index
      BY <1>3, <2>2 DEF UpsertWithCompareAndSet, Finish, ReadsOnly, store
    <3>2. Fits(IdleJob, id)
      BY DEF IdleJob, Fits
    <3>. QED BY <1>1, <3>1, <3>2, StaysTidy
  <2>. QED BY <2>1, <2>2
<1>4. CASE SetRecord(c)
  <2>. DEFINE r == [kind |-> "current", version |-> j.seen.version + 1, place |-> j.place]
              k == [j EXCEPT !.pc = "index"]
  <2>1. WriteRecord(c, j.id, r) /\ Become(c, k) /\ j.pc = "set"
    BY <1>4 DEF SetRecord, Continue
  <2>2. k.id = j.id /\ k.pc = "index" /\ r.place = k.place /\ k.seen = j.seen
    BY <1>0 DEF Job
  <2>3. j.id = id => records[id].place = j.seen.place
    BY <1>0, <2>1 DEF Fits
  <2>4. j.seen.place \in Place => Readable(j.seen)
    BY <1>0 DEF FrameOK, WellFormed
  <2>. HIDE DEF r, k
  <2>. QED BY <1>2, <2>1, <2>2, <2>3, <2>4
<1>5. CASE DeleteRecord(c)
  <2>1. WriteRecord(c, j.id, Absent) /\ j.pc = "del" /\ Absent.place = NoPlace
    BY <1>5 DEF DeleteRecord, Absent
  <2>2. records' = [records EXCEPT ![j.id] = Absent] /\ index' = index
    BY <2>1 DEF WriteRecord
  <2>3. /\ j.id = id => records[id].place = j.seen.place
        /\ WellFormed(records[id]) /\ WellFormed(j.seen) /\ records[id] \in Record
    BY <1>0, <2>1 DEF Fits, Shape, FrameOK
  <2>. DEFINE k == IF records[j.id].kind # "absent" /\ j.seen.kind # "absent"
                   THEN [j EXCEPT !.pc = "delindex"] ELSE IdleJob
  <2>4. Become(c, k)
    BY <1>5 DEF DeleteRecord, Continue, Finish
  <2>5. CASE j.id # id
    <3>1. k.id # id
      BY <1>0, <2>5, ConstantsAssumption DEF Job, IdleJob
    <3>2. records'[id] = records[id] /\ Fits(k, id)
      BY <1>0, <2>2, <2>5, <3>1 DEF Fits
    <3>. QED BY <1>1, <2>2, <2>4, <3>2, StaysTidy
  <2>6. CASE j.id = id /\ records[id].place = NoPlace
    <3>1. records'[id].place = records[id].place
      BY <1>0, <2>1, <2>2, <2>6
    <3>2. Fits(k, id)
      BY <1>0, <2>6 DEF Fits, Job, IdleJob
    <3>. HIDE DEF k
    <3>. QED BY <1>1, <2>2, <2>4, <3>1, <3>2, StaysTidy
  <2>7. CASE j.id = id /\ records[id].place # NoPlace
    <3>1. records[id].place \in Place /\ j.seen.place \in Place
      BY <2>3, <2>7 DEF Record
    <3>2. records[id].kind # "absent" /\ j.seen.kind # "absent"
      BY <2>3, <3>1 DEF WellFormed, Readable
    <3>3. k.pc = "delindex" /\ k.id = id /\ k.seen = j.seen
      BY <1>0, <2>7, <3>2 DEF Job
    <3>4. records'[id].place = NoPlace
      BY <1>0, <2>1, <2>2, <2>7
    <3>5. \A d \in Client \ {c} : ~OnRecord(d, id)
      BY <2>1, <2>7 DEF WriteRecord
    <3>. HIDE DEF k
    <3>. QED BY <1>1, <2>2, <2>3, <2>4, <2>7, <3>3, <3>4, <3>5, MovedTidily
  <2>. QED BY <2>5, <2>6, <2>7
<1>. QED BY <1>3, <1>4, <1>5

LEMMA IndexStepTidy ==
    ASSUME TypeOK, Shape, NEW c \in Client, NEW id \in Id, Tidy(id),
           SetIndex(c) \/ DeleteOldIndex(c) \/ DeleteIndex(c)
    PROVE  Tidy(id)'
<1>. DEFINE j == job[c]
<1>0. /\ j \in Job /\ FrameOK(j) /\ Fits(j, id)
      /\ job \in [Client -> Job] /\ records \in [Id -> Record] /\ index \in Index
  BY DEF TypeOK, Shape, Tidy
<1>1. records' = records /\ j.id \in Id /\ j.pc \in {"index", "unindex", "delindex"}
  BY <1>0 DEF SetIndex, DeleteOldIndex, DeleteIndex, WriteIndex, FrameOK, Upserting, Deleting
\* The entry written, and the frame after that.
<1>. DEFINE key == <<IF j.pc = "index" THEN j.place ELSE j.seen.place, j.id>>
            target == IF j.pc = "index" THEN j.id ELSE NoId
            more == j.pc = "index" /\ Readable(j.seen) /\ j.seen.place # j.place
            k == IF more THEN [j EXCEPT !.pc = "unindex"] ELSE IdleJob
<1>2. index' = [index EXCEPT ![key] = target] /\ Become(c, k)
  BY DEF SetIndex, DeleteOldIndex, DeleteIndex, WriteIndex, Continue, Finish
<1>3. key \in Place \X Id
  BY <1>0, <1>1 DEF FrameOK, Upserting, Deleting
<1>4. \A i \in Id, p \in Place : index'[<<p, i>>] = IF <<p, i>> = key THEN target ELSE index[<<p, i>>]
  BY <1>0, <1>2, <1>3 DEF Index, IndexKey
<1>5. k.id \in {j.id, NoId} /\ (k.id = j.id => k.pc = "unindex" /\ k.place = j.place /\ k.seen = j.seen /\ more)
  BY <1>0, <1>1, ConstantsAssumption DEF IdleJob, Job
<1>5a. more => k.id = j.id
  BY <1>0 DEF Job
<1>6. \A d \in Client : job'[d] = IF d = c THEN k ELSE job[d]
  BY <1>0, <1>2 DEF Become
<1>. HIDE DEF k
<1>7. Fits(k, id)
  BY <1>0, <1>1, <1>5, ConstantsAssumption DEF Fits
<1>8. CASE j.id # id
  <2>1. \A p \in Place : index'[<<p, id>>] = index[<<p, id>>]
    BY <1>4, <1>8
  <2>. QED BY <1>1, <1>2, <1>7, <1>8, <2>1, StaysTidy DEF Owes
<1>9. CASE j.id = id
  <2>1. records'[id].place \in Place => \/ index'[<<records[id].place, id>>] = id
                                        \/ \E d \in Client : job'[d].id = id /\ job'[d].pc = "index"
    <3>1. CASE j.pc = "index"
      BY <1>0, <1>1, <1>4, <1>9, <3>1 DEF Fits
    <3>2. CASE j.pc # "index"
      <4>1. key[1] # records[id].place
        BY <1>0, <1>1, <1>9, <3>2, ConstantsAssumption DEF Fits, FrameOK, Upserting, Deleting
      <4>2. ASSUME NEW d \in Client, job[d].id = id, job[d].pc = "index" PROVE job'[d] = job[d]
        BY <1>6, <3>2, <4>2
      <4>. QED BY <1>1, <1>4, <4>1, <4>2 DEF Tidy
    <3>. QED BY <3>1, <3>2
  <2>2. ASSUME NEW p \in Place \ {records[id].place}
        PROVE  index'[<<p, id>>] = NoId \/ \E d \in Client : Removes(d, id, p)'
    <3>1. CASE index[<<p, id>>] = NoId
      <4>1. <<p, id>> = key => target = NoId
        BY <1>0, <1>9 DEF Fits
      <4>. QED BY <1>4, <3>1, <4>1
    <3>2. ASSUME NEW d \in Client, Removes(d, id, p), d # c
          PROVE  Removes(d, id, p)'
      BY <1>6, <3>2 DEF Removes, Readable
    <3>3. ASSUME Removes(c, id, p)
          PROVE  index'[<<p, id>>] = NoId \/ Removes(c, id, p)'
      <4>1. CASE j.pc = "index"
        BY <1>5, <1>5a, <1>6, <1>9, <3>3, <4>1 DEF Removes
      <4>2. CASE j.pc # "index"
        BY <1>4, <1>9, <3>3, <4>2 DEF Removes
      <4>. QED BY <4>1, <4>2
    <3>. QED BY <3>1, <3>2, <3>3 DEF Tidy
  <2>3. ASSUME NEW d \in Client PROVE Fits(job[d], id)'
    BY <1>1, <1>6, <1>7 DEF Tidy, Fits
  <2>. QED BY <1>1, <2>1, <2>2, <2>3 DEF Tidy
<1>. QED BY <1>8, <1>9

\* The steps that touch neither a record nor an entry.
LEMMA OtherStepTidy ==
    ASSUME TypeOK, Shape, NEW c \in Client, NEW id \in Id, Tidy(id), id \notin disturbed',
           \/ Start(c) \/ ReadExisting(c) \/ ReadTargets(c) \/ ListAll(c) \/ ReadRecords(c) \/ Fail(c)
    PROVE  Tidy(id)'
<1>. DEFINE j == job[c]
<1>0. j \in Job /\ FrameOK(j) /\ NoId \notin Id
  BY ConstantsAssumption DEF TypeOK, Shape
<1>1. records' = records /\ index' = index
  BY DEF Start, StartUpsert, StartDelete, StartLookup, ReadExisting, ReadTargets, ListAll, ReadRecords,
         Fail, ReadsOnly, store
\* It is enough that the client's old frame owes nothing and its new one fits.
<1>2. ASSUME NEW k, Become(c, k), ~Owes(c, id), Fits(k, id) PROVE Tidy(id)'
  BY <1>1, <1>2, StaysTidy
<1>3. Fits(IdleJob, id)
  BY <1>0 DEF Fits, IdleJob
<1>4. ASSUME NEW i \in Id, NEW p \in Place, StartUpsert(c, i, p) PROVE Tidy(id)'
  <2>. DEFINE k == [IdleJob EXCEPT
            !.pc = IF i \notin Blind /\ HasCas THEN "cas" ELSE "get",
            !.id = i,
            !.place = p,
            !.expected = IF i \in Blind THEN 0 ELSE records[i].version]
  <2>1. Become(c, k) /\ j.pc = "idle"
    BY <1>4 DEF StartUpsert
  <2>2. k.pc \in {"cas", "get"}
    BY DEF IdleJob
  <2>. HIDE DEF k
  <2>. QED BY <1>2, <2>1, <2>2 DEF Owes, Fits
<1>5. ASSUME NEW i \in Id, StartDelete(c, i) PROVE Tidy(id)'
  <2>. DEFINE k == [IdleJob EXCEPT !.pc = "del", !.id = i, !.seen = records[i]]
  <2>1. Become(c, k) /\ j.pc = "idle"
    BY <1>5 DEF StartDelete
  <2>2. k.pc = "del" /\ k.id = i /\ k.seen = records[i]
    BY DEF IdleJob
  <2>. HIDE DEF k
  <2>. QED BY <1>2, <2>1, <2>2 DEF Owes, Fits
<1>6. ASSUME NEW p \in Place, StartLookup(c, p) PROVE Tidy(id)'
  <2>. DEFINE K(keys) == [IdleJob EXCEPT
             !.pc = IF keys = {} THEN "all" ELSE "targets",
             !.place = p,
             !.keys = keys,
             !.full = Cardinality(keys) = Limit]
  <2>1. PICK keys \in SUBSET Id : Become(c, K(keys)) /\ j.pc = "idle"
    BY <1>6 DEF StartLookup, Scans, KeysAt
  <2>2. K(keys).id = NoId
    BY DEF IdleJob
  <2>. HIDE DEF K
  <2>. QED BY <1>0, <1>2, <2>1, <2>2 DEF Owes, Fits
<1>7. CASE ReadExisting(c)
  <2>. DEFINE k == [j EXCEPT !.pc = "set", !.seen = records[j.id]]
  <2>1. (Become(c, k) \/ Become(c, IdleJob)) /\ j.pc = "get"
    BY <1>7 DEF ReadExisting, Finish
  <2>2. k.pc = "set" /\ k.id = j.id /\ k.seen = records[j.id]
    BY <1>0 DEF Job
  <2>. HIDE DEF k
  <2>3. Fits(k, id)
    BY <2>2 DEF Fits
  <2>. QED BY <1>2, <1>3, <2>1, <2>3 DEF Owes
<1>8. CASE ReadTargets(c) \/ ListAll(c) \/ ReadRecords(c)
  <2>1. j.id = NoId
    BY <1>0, <1>8 DEF ReadTargets, ListAll, ReadRecords, FrameOK, LookingUp
  <2>. DEFINE K(pc, keys) == [j EXCEPT !.pc = pc, !.keys = keys]
  <2>2. \A pc, keys : K(pc, keys).id = NoId
    BY <1>0, <2>1 DEF Job
  <2>3. \/ Become(c, IdleJob)
        \/ Become(c, K("listed", Existing))
        \/ Become(c, K("records", {index[<<j.place, i>>] : i \in j.keys} \ {NoId}))
    BY <1>8 DEF ReadTargets, ListAll, ReadRecords, Finish
  <2>. HIDE DEF K
  <2>4. \A pc, keys : Fits(K(pc, keys), id)
    BY <1>0, <2>2 DEF Fits
  <2>. QED BY <1>0, <1>2, <1>3, <2>1, <2>3, <2>4 DEF Owes
\* Whatever a failed operation leaves behind, its selector counts as disturbed.
<1>9. CASE Fail(c)
  <2>1. Become(c, IdleJob) /\ (j.id = NoId \/ j.id \in disturbed')
    BY <1>9 DEF Fail, Finish
  <2>. QED BY <1>0, <1>2, <1>3, <2>1 DEF Owes
<1>. QED BY <1>4, <1>5, <1>6, <1>7, <1>8, <1>9 DEF Start

LEMMA IndexInvStep == TypeOK /\ Shape /\ IndexInv /\ [Next]_vars => IndexInv'
<1>. SUFFICES ASSUME TypeOK, Shape, IndexInv, [Next]_vars, NEW id \in Id, id \notin disturbed'
              PROVE  Tidy(id)'
  BY DEF IndexInv
<1>1. CASE UNCHANGED vars
  BY <1>1 DEF vars, store, observed, IndexInv, Tidy, Removes, Fits, Readable
<1>2. ASSUME NEW c \in Client, Start(c) \/ Step(c) \/ Fail(c) PROVE Tidy(id)'
  <2>1. disturbed \subseteq disturbed'
    BY <1>2 DEF Start, StartUpsert, StartDelete, StartLookup, Step, UpsertWithCompareAndSet, ReadExisting,
                SetRecord, SetIndex, DeleteOldIndex, DeleteRecord, DeleteIndex, WriteRecord, WriteIndex,
                ReadTargets, ListAll, ReadRecords, Fail, ReadsOnly
  <2>2. Tidy(id)
    BY <2>1 DEF IndexInv
  <2>. QED BY <1>2, <2>2, RecordStepTidy, IndexStepTidy, OtherStepTidy DEF Step
<1>. QED BY <1>1, <1>2 DEF Next

\* Once nothing is under way on a selector, its entries are exactly the one its
\* record calls for, unless a move or a delete of it overlapped another operation
\* on it, an operation failed half way, or they were wrong from the start.
THEOREM IndexFollowsItsRecords == Spec => []IndexFollowsRecords
<1>1. Init => IndexInv
  <2>. SUFFICES ASSUME Init, NEW id \in Id, IndexedExactly(id) PROVE Tidy(id)
    BY DEF Init, IndexInv
  <2>1. TypeOK /\ Shape
    BY InitTypes
  <2>2. records[id].place \in Place => Readable(records[id])
    BY <2>1 DEF Shape, WellFormed
  <2>3. \A c \in Client : job[c].id = NoId
    BY DEF Init, IdleJob
  <2>. QED BY <2>2, <2>3, ConstantsAssumption DEF Tidy, IndexedExactly, Fits
<1>2. TypeOK /\ Shape /\ IndexInv => IndexFollowsRecords
  <2>. SUFFICES ASSUME TypeOK, Shape, IndexInv, NEW id \in Id \ disturbed, Idle(id),
                       NEW p \in Place
                PROVE  index[<<p, id>>] =
                          IF Readable(records[id]) /\ records[id].place = p THEN id ELSE NoId
    BY DEF IndexFollowsRecords, IndexedExactly
  <2>1. \A c \in Client : ~Removes(c, id, p) /\ job[c].id # id
    BY DEF Idle, Removes
  <2>2. Tidy(id)
    BY DEF IndexInv
  <2>3. Readable(records[id]) <=> records[id].place \in Place
    BY DEF Shape, WellFormed
  <2>. QED BY <2>1, <2>2, <2>3 DEF Tidy
<1>. QED BY <1>1, <1>2, Invariance, InitTypes, IndexInvStep, PTL DEF Spec
=============================================================================
