---------------------------- MODULE RegistryCleanup ----------------------------
(***************************************************************************)
(* The registry cleanup script (scripts/self-healing-registry-cleanup.ts)  *)
(* run against a store that candidate history, promotion review and an     *)
(* operator keep writing.  The script visits the history, the promotions   *)
(* and the audit namespace in turn: it lists the keys, and gets, judges    *)
(* and deletes one record at a time, each in a call of its own.            *)
(***************************************************************************)
EXTENDS Integers, Sequences, FiniteSets

CONSTANTS
    RecordKeys,    \* keys of the three namespaces
    Space,         \* the namespace of a key
    Retention,     \* seconds an audit record without expiresAt is kept
    Ttl,           \* seconds a history record is kept after it was seen
    Limit,         \* how many keys of a namespace are visited
    MaxNow,        \* bound on the clock
    MaxScans,      \* bound on how often SCAN may return a key
    MaxWrites,     \* bound on writes of the others
    MaxFaults      \* bound on failed store calls

ASSUME CleanupAssumption ==
    /\ IsFiniteSet(RecordKeys)
    /\ Space \in [RecordKeys -> {"history", "promotions", "audit"}]
    /\ {Retention, Ttl, Limit, MaxScans} \subseteq Nat

Spaces == <<"history", "promotions", "audit">>

\* Dates of a record: undefined, no date at all, or a second.
Undefined == -1
NotADate  == -2

NoRecord  == [there |-> FALSE]
Record(expiresAt, reviewedAt, hold) ==
    [there |-> TRUE, object |-> TRUE, expiresAt |-> expiresAt, reviewedAt |-> reviewedAt,
     hold |-> hold]
\* A payload that is no JSON object.
Garbage == [there |-> TRUE, object |-> FALSE]

VARIABLES
    store,         \* what is under each key
    now,           \* the clock
    script,        \* the run of the script
    failures,      \* calls that failed so far
    writes,        \* writes of the others so far
    \* observation only
    changed,       \* keys written since the script read them
    removed,       \* deletions of a record by the script
    wrong          \* the script deleted an unchanged record it should have kept

cleanupVars == <<store, now, script, failures, writes, changed, removed, wrong>>

Zero == [scanned |-> 0, expired |-> 0, deleted |-> 0, malformed |-> 0, held |-> 0]

\* startedAt: `now` of the options; space: the namespace being visited; keys: those
\* still to visit; reading: the record just read, of Head(keys).
NotStarted == [at |-> "idle", dryRun |-> TRUE, startedAt |-> 0, space |-> 1, keys |-> <<>>, count |-> Zero]

CleanupInit ==
    /\ store = [k \in RecordKeys |-> NoRecord]
    /\ now = 0
    /\ script = NotStarted
    /\ failures = 0
    /\ writes = 0
    /\ changed = {}
    /\ removed = 0
    /\ wrong = FALSE

-----------------------------------------------------------------------------

\* readExpiresAt and readAuditMetadata: when a record expires and whether it is
\* held.  One they throw on counts as malformed, as one whose date is none.
Metadata(expiresAt, hold) == [expiresAt |-> expiresAt, hold |-> hold]
Unreadable == Metadata(NotADate, FALSE)

\* Mutant of ReadMetadata: a legal hold counts only once retention has passed.
ReadMetadata_Bug(space, record) ==
    IF ~record.object THEN Unreadable
    ELSE IF record.expiresAt # Undefined THEN Metadata(record.expiresAt, FALSE)
    ELSE IF space # "audit" THEN Metadata(Undefined, FALSE)
    ELSE IF record.hold = "malformed" THEN Unreadable
    ELSE IF record.hold = "yes" THEN Metadata(Undefined, TRUE)
    ELSE IF record.reviewedAt \in {Undefined, NotADate} THEN Metadata(record.reviewedAt, FALSE)
    ELSE Metadata(record.reviewedAt + Retention, FALSE)

ReadMetadata(space, record) ==
    IF ~record.object THEN Unreadable
    ELSE IF space = "audit" /\ record.hold = "malformed" THEN Unreadable
    ELSE IF space = "audit" /\ record.hold = "yes" THEN Metadata(Undefined, TRUE)
    ELSE IF record.expiresAt # Undefined \/ space # "audit" THEN Metadata(record.expiresAt, FALSE)
    ELSE IF record.reviewedAt \in {Undefined, NotADate} THEN Metadata(record.reviewedAt, FALSE)
    ELSE Metadata(record.reviewedAt + Retention, FALSE)

Expired(metadata) ==
    metadata.expiresAt # Undefined /\ metadata.expiresAt <= script.startedAt

\* What listNamespaceKeys may return: every key with a record, in any order, a key
\* more than once if SCAN does so, and no more than Limit of them.
Listings(space) ==
    LET present == {k \in RecordKeys : Space[k] = space /\ store[k].there}
        times(s, k) == Cardinality({i \in DOMAIN s : s[i] = k})
        all == {s \in UNION {[1 .. n -> present] : n \in 0 .. Cardinality(present) * MaxScans} :
                    \A k \in present : times(s, k) \in 1 .. MaxScans}
    IN  {SubSeq(s, 1, IF Len(s) < Limit THEN Len(s) ELSE Limit) : s \in all}

Start(dryRun) ==
    /\ script.at = "idle"
    /\ script' = [script EXCEPT !.at = "list", !.dryRun = dryRun, !.startedAt = now]
    /\ UNCHANGED <<store, now, failures, writes, changed, removed, wrong>>

\* cleanupNamespace lists its keys; after the last namespace the script is done.
List ==
    /\ script.at = "list"
    /\ \E keys \in Listings(Spaces[script.space]) :
          script' = [script EXCEPT !.at = "visit", !.keys = keys, !.count.scanned = @ + Len(keys)]
    /\ UNCHANGED <<store, now, failures, writes, changed, removed, wrong>>

\* Nothing left to visit in this namespace.
NextSpace ==
    /\ script.at = "visit" /\ script.keys = <<>>
    /\ script' = [script EXCEPT !.at = IF script.space = 3 THEN "done" ELSE "list",
                                !.space = IF @ = 3 THEN 3 ELSE @ + 1]
    /\ UNCHANGED <<store, now, failures, writes, changed, removed, wrong>>

\* store.get of the next key, and the judgement of the record.
Visit ==
    /\ script.at = "visit" /\ script.keys # <<>>
    /\ LET key      == Head(script.keys)
           record   == store[key]
           metadata == ReadMetadata(Space[key], record)
           skip(field) == script' = [script EXCEPT !.keys = Tail(@), !.count[field] = @ + 1]
       IN
       \/ /\ ~record.there
          /\ script' = [script EXCEPT !.keys = Tail(@)]
       \/ /\ record.there
          /\ \/ /\ metadata.hold
                /\ skip("held")
             \/ /\ ~metadata.hold /\ metadata.expiresAt = NotADate
                /\ skip("malformed")
             \/ /\ ~metadata.hold /\ metadata.expiresAt # NotADate /\ ~Expired(metadata)
                /\ script' = [script EXCEPT !.keys = Tail(@)]
             \/ /\ ~metadata.hold /\ metadata.expiresAt # NotADate /\ Expired(metadata)
                /\ IF script.dryRun THEN skip("expired")
                   ELSE script' = [script EXCEPT !.at = "delete", !.count.expired = @ + 1]
       /\ changed' = changed \ {key}
    /\ UNCHANGED <<store, now, failures, writes, removed, wrong>>

\* The record the script is about to delete is one it should keep: held, due
\* later, or without a date.
ShouldKeep(space, record) ==
    \/ space = "audit" /\ record.hold = "yes"
    \/ record.expiresAt > script.startedAt
    \/ /\ record.expiresAt = Undefined
       /\ \/ space # "audit"
          \/ record.reviewedAt \in {Undefined, NotADate}
          \/ record.reviewedAt + Retention > script.startedAt

\* store.del of the record just read, of which nothing is checked again.
Delete ==
    /\ script.at = "delete"
    /\ LET key == Head(script.keys) IN
       /\ store' = [store EXCEPT ![key] = NoRecord]
       /\ removed' = removed + (IF store[key].there THEN 1 ELSE 0)
       /\ wrong' = (wrong \/ (store[key].there /\ key \notin changed
                                 /\ ShouldKeep(Space[key], store[key])))
       /\ script' = [script EXCEPT !.at = "visit", !.keys = Tail(@),
                        !.count.deleted = @ + (IF store[key].there THEN 1 ELSE 0)]
    /\ UNCHANGED <<now, failures, writes, changed>>

\* A deletion whose reply is lost, or that never reached the store: the record
\* counts as malformed.
DeleteFails(reached) ==
    /\ script.at = "delete" /\ failures < MaxFaults
    /\ failures' = failures + 1
    /\ LET key == Head(script.keys) IN
       /\ store' = IF reached THEN [store EXCEPT ![key] = NoRecord] ELSE store
       /\ removed' = removed + (IF reached /\ store[key].there THEN 1 ELSE 0)
       /\ wrong' = (wrong \/ (reached /\ store[key].there /\ key \notin changed
                                 /\ ShouldKeep(Space[key], store[key])))
    /\ script' = [script EXCEPT !.at = "visit", !.keys = Tail(@),
                                !.count.malformed = @ + 1]
    /\ UNCHANGED <<now, writes, changed>>

\* A listing or a get that fails ends the run.
Abort ==
    /\ script.at \in {"list", "visit"} /\ failures < MaxFaults
    /\ script.at = "visit" => script.keys # <<>>
    /\ failures' = failures + 1
    /\ script' = [script EXCEPT !.at = "failed"]
    /\ UNCHANGED <<store, now, writes, changed, removed, wrong>>

-----------------------------------------------------------------------------

Write(key, record) ==
    /\ writes < MaxWrites
    /\ writes' = writes + 1
    /\ store' = [store EXCEPT ![key] = record]
    /\ changed' = changed \cup {key}
    /\ UNCHANGED <<now, script, failures, removed, wrong>>

\* recordObservation and recordOutcome merge the date of what they saw, which
\* may be earlier than the one before.
Observe(key, seenAt) ==
    /\ Space[key] = "history" /\ seenAt <= now
    /\ store[key].there => store[key].object
    /\ Write(key, Record(seenAt + Ttl, Undefined, "no"))

\* A promotion record or an audit record is written, by this version of the code
\* or by an earlier one.
Put(key, record) ==
    /\ Space[key] # "history"
    /\ Write(key, record)

\* An operator places or lifts a legal hold on an audit record.
Hold(key, hold) ==
    /\ Space[key] = "audit" /\ store[key].there /\ store[key].object
    /\ Write(key, [store[key] EXCEPT !.hold = hold])

\* The store drops a record whose own time to live has passed.
Evict(key) ==
    /\ store[key].there
    /\ store' = [store EXCEPT ![key] = NoRecord]
    /\ UNCHANGED <<now, script, failures, writes, changed, removed, wrong>>

Pass ==
    /\ now < MaxNow
    /\ now' = now + 1
    /\ UNCHANGED <<store, script, failures, writes, changed, removed, wrong>>

CleanupNext(records) ==
    \/ \E dryRun \in BOOLEAN : Start(dryRun)
    \/ List \/ NextSpace \/ Visit \/ Delete \/ Abort \/ Pass
    \/ \E reached \in BOOLEAN : DeleteFails(reached)
    \/ \E key \in RecordKeys :
          \/ Evict(key)
          \/ \E seenAt \in 0 .. MaxNow : Observe(key, seenAt)
          \/ \E record \in records : Put(key, record)
          \/ \E hold \in {"yes", "no"} : Hold(key, hold)

-----------------------------------------------------------------------------

(***************************************************************************)
(* "legalHold: true records are skipped", and a record due later or never  *)
(* is kept: whatever was written, held or evicted while the script ran, it *)
(* never deletes a record it should keep, except one that changed between  *)
(* its get and its del (cleanupNamespace, line 178 and 196); a dry run     *)
(* deletes nothing; and no record it removed goes uncounted unless a call  *)
(* failed.                                                                 *)
(***************************************************************************)
CleanupKeepsWhatItShould ==
    /\ ~wrong
    /\ script.dryRun => removed = 0
    /\ script.count.deleted \in removed - failures .. removed
    /\ removed + (IF script.at = "delete" THEN 1 ELSE 0)
           <= script.count.expired
=============================================================================
