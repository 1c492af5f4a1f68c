-------------------------- MODULE PromotionWorkflow --------------------------
(***************************************************************************)
(* Reviewers approving, rejecting and rolling back self-healing promotions *)
(* against one shared selector store (promotionWorkflow.ts over            *)
(* promotionRepository.ts, selectorRegistry.ts and historyRepository.ts).  *)
(*                                                                         *)
(* Every awaited store call is one action, so other reviewers, direct      *)
(* registry writers, TTL expiry and failures interleave between any two    *)
(* of them.  A reviewer's stack frame is job[r]; it holds the snapshots    *)
(* the code holds across awaits.                                           *)
(*                                                                         *)
(* Absent records: a selector that does not exist has version 0 (stored    *)
(* versions start at 1), so expectedVersion null is expected version 0 and *)
(* the store's test is one equality.  confidence "unset" and locator       *)
(* NoLocator stand for undefined fields, applied = 0 for an undefined      *)
(* appliedSelectorVersion.                                                 *)
(***************************************************************************)
EXTENDS Integers, FiniteSets

CONSTANTS
    Reviewer,          \* workflow instances (CLI invocations)
    Promotion,         \* event IDs of pending promotions
    Selector,          \* selector IDs
    Locator,           \* locators a selector can hold
    NoLocator,         \* an undefined locator field
    NoPromotion,       \* "no promotion"; also the author of direct writes
    SelectorOf,        \* [Promotion -> Selector]: promotion.selectorId
    Proposed,          \* [Promotion -> Locator]: promotion.proposedLocator
    InitialRecord,     \* [Selector -> ActiveRecord]: the registry's contents
    DirectConfidence,  \* confidences direct writers give
    Mode,              \* "local" or "shared" authorization
    Evidenced,         \* reviewers with CODEOWNERS and protected-workflow evidence
    BlindRetry,        \* the calls the Redis client re-runs when their reply was lost
    MaxVersion,        \* bound on versions created by direct writers
    MaxDeletes,        \* bound on direct deletions
    MaxFaults          \* bound on crashes, store errors and lost replies

Operation  == {"approve", "reject", "rollback"}
Confidence == {"unset", "seeded", "healed"}
Status     == {"unrecorded", "pending", "approved", "applied", "rejected",
               "conflict", "rolled_back", "expired"}
Goal       == {"approved", "applied", "rejected", "conflict", "rolled_back"}

ActiveRecord == [version : Nat, locator : Locator \cup {NoLocator}, confidence : Confidence]
NoRecord     == [version |-> 0, locator |-> NoLocator, confidence |-> "unset"]

\* locator and confidence are previousLocator and previousConfidence.
PromotionRecord == [status : Status, base : Nat, applied : Nat,
                    locator : Locator \cup {NoLocator}, confidence : Confidence]
Missing(why)    == [status |-> why, base |-> 0, applied |-> 0,
                    locator |-> NoLocator, confidence |-> "unset"]

Job == [pc     : {"idle", "read", "get", "cas", "write", "outcome", "audit"},
        op     : Operation,
        on     : Promotion \cup {NoPromotion},
        loaded : PromotionRecord,   \* promotion, as loadPromotion returned it
        seen   : ActiveRecord,      \* activeRecord
        expect : Status,            \* expectedStatus of the transition under way
        goal   : Goal,              \* the status that transition writes
        next   : PromotionRecord]   \* nextPromotion; after the claim, claimedPromotion
IdleJob == [pc |-> "idle", op |-> "approve", on |-> NoPromotion,
            loaded |-> Missing("unrecorded"), seen |-> NoRecord, expect |-> "pending",
            goal |-> "approved", next |-> Missing("unrecorded")]

AWrite   == [selector : Selector, version : Nat, locator : Locator \cup {NoLocator},
             confidence : Confidence, by : Promotion \cup {NoPromotion},
             op : Operation \cup {"direct"}]
Counters == [promoted : Nat, rejected : Nat, rolledBack : Nat]

ASSUME ConstantsAssumption ==
    /\ SelectorOf \in [Promotion -> Selector]
    /\ Proposed \in [Promotion -> Locator]
    /\ InitialRecord \in [Selector -> ActiveRecord]
    /\ \A s \in Selector : InitialRecord[s].version = 1 /\ InitialRecord[s].locator \in Locator
    /\ NoLocator \notin Locator
    /\ NoPromotion \notin Promotion
    /\ DirectConfidence \subseteq Confidence
    /\ Mode \in {"local", "shared"}
    /\ Evidenced \subseteq Reviewer
    /\ BlindRetry \subseteq {"record", "upsert", "merge"}
    /\ MaxVersion \in Nat
    /\ MaxDeletes \in Nat
    /\ MaxFaults \in Nat

VARIABLES
    \* the shared store
    active,      \* active[s]: selector record s
    promo,       \* promo[p]: promotion record p
    outcomes,    \* outcomes[p]: what p added to its candidate's history counters
    audit,       \* audit records: promotion, action and status
    \* the reviewers
    job,
    \* observation only: the steps depend on these through the bounds, and on writes
    \* for the versions a promotion may have been based on
    writes,      \* every write of a selector record that took effect
    orphaned,    \* promotions whose claim's owner failed
    deletes,
    faults

store == <<active, promo, outcomes, audit>>
vars  == <<active, promo, outcomes, audit, job, writes, orphaned, deletes, faults>>

-----------------------------------------------------------------------------
(* An operator whose name ends in _Bug is a wrong variant of the definition after  *)
(* it.  No action uses one: they stand in for mistakes the properties must notice. *)

EntryStatus_Bug(o) == IF o = "approve" THEN "pending" ELSE "applied"
EntryStatus(o)   == IF o = "rollback" THEN "applied" ELSE "pending"
SettledStatus_Bug(o) == IF o = "rollback" THEN "rolledBack" ELSE "applied"
SettledStatus(o) == CASE o = "approve"  -> "applied"
                      [] o = "rollback" -> "rolled_back"
                      [] o = "reject"   -> "rejected"

\* The version the promotion was reviewed against.
ReviewedVersion(o, p) == IF o = "approve" THEN p.base ELSE p.applied

Authorized(r) == Mode = "local" \/ r \in Evidenced

\* compareAndSet and compareAndSetJsonField write only if this holds.
VersionMatches_Bug(record, expectedVersion) == TRUE
VersionMatches(record, expectedVersion) == record.version = expectedVersion
StatusMatches_Bug(record, expectedStatus) == record.status # "unrecorded"
StatusMatches(record, expectedStatus)   == record.status = expectedStatus

\* Off by one: the version that was read, not the one that was written.
NextPromotion_Bug(j, current) ==
    IF j.goal = "applied"
    THEN [current EXCEPT !.status = "applied", !.applied = j.seen.version,
                         !.locator = j.seen.locator, !.confidence = j.seen.confidence]
    ELSE [current EXCEPT !.status = j.goal]

\* A conflict rebuilds the record without its applied fields.
NextPromotion_Bug2(j, current) ==
    IF j.goal = "applied"
    THEN [current EXCEPT !.status = "applied", !.applied = j.seen.version + 1,
                         !.locator = j.seen.locator, !.confidence = j.seen.confidence]
    ELSE [current EXCEPT !.status = j.goal, !.applied = IF j.goal = "conflict" THEN 0 ELSE @]

\* The record a transition writes, built from the record its get returned.
NextPromotion(j, current) ==
    IF j.goal = "applied"
    THEN [current EXCEPT !.status = "applied", !.applied = j.seen.version + 1,
                         !.locator = j.seen.locator, !.confidence = j.seen.confidence]
    ELSE [current EXCEPT !.status = j.goal]

\* The selector record a claimed approve or rollback upserts.  An undefined
\* previousConfidence falls back to the active record's.
NextSelector(j) ==
    [version    |-> j.seen.version + 1,
     locator    |-> IF j.op = "approve" THEN Proposed[j.on] ELSE j.loaded.locator,
     confidence |-> IF j.op = "approve" THEN "healed"
                    ELSE IF j.next.confidence # "unset" THEN j.next.confidence
                    ELSE j.seen.confidence]

\* Accounts for the promotion before it is applied.
AfterTransition_Bug(goal) == IF goal = "conflict" THEN "audit" ELSE "outcome"
\* Forgets the history counters.
AfterTransition_Bug2(goal) == IF goal = "approved" THEN "write" ELSE "audit"
AfterTransition(goal) == CASE goal = "approved" -> "write"
                           [] goal = "conflict" -> "audit"
                           [] OTHER             -> "outcome"

OutcomeField(o) == CASE o = "approve"  -> "promoted"
                     [] o = "reject"   -> "rejected"
                     [] o = "rollback" -> "rolledBack"

WriteOf(s, record, p, o) ==
    [selector |-> s, version |-> record.version, locator |-> record.locator,
     confidence |-> record.confidence, by |-> p, op |-> o]

\* r holds the claim of p: it moved p to "approved" and has not yet settled it.
Owns(r, p) == /\ job[r].on = p
              /\ \/ job[r].pc = "write"
                 \/ job[r].pc \in {"get", "cas"} /\ job[r].expect = "approved"

-----------------------------------------------------------------------------
Init ==
    /\ active = InitialRecord
    /\ promo = [p \in Promotion |-> Missing("unrecorded")]
    /\ outcomes = [p \in Promotion |-> [promoted |-> 0, rejected |-> 0, rolledBack |-> 0]]
    /\ audit = {}
    /\ job = [r \in Reviewer |-> IdleJob]
    /\ writes = {WriteOf(s, InitialRecord[s], NoPromotion, "direct") : s \in Selector}
    /\ orphaned = {}
    /\ deletes = 0
    /\ faults = 0

(***************************************************************************)
(* The environment of the reviewers.                                       *)
(***************************************************************************)
\* A test run that healed a selector records its promotion.  The base version
\* was read when the failure was analysed, so it is the version of any earlier
\* write.  Event IDs are never reused.
RecordPromotion(p) ==
    /\ promo[p].status = "unrecorded"
    /\ \E w \in writes :
          /\ w.selector = SelectorOf[p]
          /\ promo' = [promo EXCEPT ![p] = [Missing("pending") EXCEPT !.base = w.version]]
    /\ UNCHANGED <<active, outcomes, audit, job, writes, orphaned, deletes, faults>>

\* The reply of that write is lost and the client sets the record again: what
\* reviewers did to it in between is overwritten.
RecordPromotionAgain(p) ==
    /\ "record" \in BlindRetry /\ faults < MaxFaults
    /\ promo[p].status \notin {"unrecorded", "expired"}
    /\ promo' = [promo EXCEPT ![p] = [Missing("pending") EXCEPT !.base = promo[p].base]]
    /\ faults' = faults + 1
    /\ UNCHANGED <<active, outcomes, audit, job, writes, orphaned, deletes>>

\* The record's TTL runs out, or the cleanup script deletes it.
ExpirePromotion(p) ==
    /\ promo[p].status \notin {"unrecorded", "expired"}
    /\ promo' = [promo EXCEPT ![p] = Missing("expired")]
    /\ UNCHANGED <<active, outcomes, audit, job, writes, orphaned, deletes, faults>>

\* Another registry client upserts with the version it read; expectedVersion null
\* creates a record that does not exist, at version 1.
DirectUpsert(s, l, c) ==
    /\ active[s].version < MaxVersion
    /\ LET record == [version |-> active[s].version + 1, locator |-> l, confidence |-> c] IN
          /\ active' = [active EXCEPT ![s] = record]
          /\ writes' = writes \cup {WriteOf(s, record, NoPromotion, "direct")}
    /\ UNCHANGED <<promo, outcomes, audit, job, orphaned, deletes, faults>>

\* Another registry client deletes the record; the next one starts at version 1.
DirectDelete(s) ==
    /\ active[s].version # 0
    /\ deletes < MaxDeletes
    /\ active' = [active EXCEPT ![s] = NoRecord]
    /\ deletes' = deletes + 1
    /\ UNCHANGED <<promo, outcomes, audit, job, writes, orphaned, faults>>

(***************************************************************************)
(* One reviewer's operation, a store call at a time.                       *)
(***************************************************************************)
\* loadPromotion, authorizeMutation and the checks on the loaded promotion.
\* When a check fails the operation throws having changed nothing.
Load(r, o, p) ==
    /\ job[r].pc = "idle"
    /\ Authorized(r)
    /\ promo[p].status = EntryStatus(o)
    /\ o = "rollback" => promo[p].applied # 0 /\ promo[p].locator # NoLocator
    /\ job' = [job EXCEPT ![r] =
                  [IdleJob EXCEPT !.op = o, !.on = p, !.loaded = promo[p],
                                  !.pc = IF o = "reject" THEN "get" ELSE "read",
                                  !.expect = EntryStatus(o),
                                  !.goal = IF o = "reject" THEN "rejected" ELSE "approved"]]
    /\ UNCHANGED <<store, writes, orphaned, deletes, faults>>

\* Rolls back whatever version is active.
ReadActive_Bug(r) ==
    LET j == job[r]
        record == active[SelectorOf[j.on]] IN
    /\ j.pc = "read"
    /\ job' = [job EXCEPT ![r] =
                  [j EXCEPT !.pc = "get", !.seen = record,
                            !.goal = IF j.op = "rollback" \/ record.version = j.loaded.base
                                     THEN "approved" ELSE "conflict"]]
    /\ UNCHANGED <<store, writes, orphaned, deletes, faults>>

\* requireActiveSelectorRecord, which throws if there is no record, and the choice
\* between claiming the promotion and marking it a conflict.
ReadActive(r) ==
    LET j == job[r]
        record == active[SelectorOf[j.on]] IN
    /\ j.pc = "read"
    /\ job' = [job EXCEPT ![r] =
                  IF record.version = 0
                  THEN IdleJob
                  ELSE [j EXCEPT !.pc = "get", !.seen = record,
                                 !.goal = IF record.version = ReviewedVersion(j.op, j.loaded)
                                          THEN "approved" ELSE "conflict"]]
    /\ UNCHANGED <<store, writes, orphaned, deletes, faults>>

\* transitionStatus, first half: get the record, check its status and build the
\* next one.  A missing record or another status throws PromotionStatusConflictError,
\* which no caller catches.
TransitionGet(r) ==
    LET j == job[r] IN
    /\ j.pc = "get"
    /\ job' = [job EXCEPT ![r] =
                  IF StatusMatches(promo[j.on], j.expect)
                  THEN [j EXCEPT !.pc = "cas", !.next = NextPromotion(j, promo[j.on])]
                  ELSE IdleJob]
    /\ UNCHANGED <<store, writes, orphaned, deletes, faults>>

\* transitionStatus, second half: compareAndSetJsonField on the status.
TransitionCas(r) ==
    LET j == job[r] IN
    /\ j.pc = "cas"
    /\ StatusMatches(promo[j.on], j.expect)
    /\ promo' = [promo EXCEPT ![j.on] = j.next]
    /\ job' = [job EXCEPT ![r].pc = AfterTransition(j.goal)]
    /\ UNCHANGED <<active, outcomes, audit, writes, orphaned, deletes, faults>>

\* Ignores that the compare-and-set did not write.
TransitionCasRefused_Bug(r) ==
    LET j == job[r] IN
    /\ j.pc = "cas"
    /\ ~StatusMatches(promo[j.on], j.expect)
    /\ job' = [job EXCEPT ![r].pc = AfterTransition(j.goal)]
    /\ UNCHANGED <<store, writes, orphaned, deletes, faults>>

TransitionCasRefused(r) ==
    LET j == job[r] IN
    /\ j.pc = "cas"
    /\ ~StatusMatches(promo[j.on], j.expect)
    /\ job' = [job EXCEPT ![r] = IdleJob]
    /\ UNCHANGED <<store, writes, orphaned, deletes, faults>>

\* selectorRepository.upsert with expectedVersion: the write lands.
LandWrite(r) ==
    LET j == job[r]
        s == SelectorOf[j.on] IN
    /\ j.pc = "write"
    /\ VersionMatches(active[s], j.seen.version)
    /\ active' = [active EXCEPT ![s] = NextSelector(j)]
    /\ writes' = writes \cup {WriteOf(s, NextSelector(j), j.on, j.op)}
    /\ UNCHANGED <<promo, outcomes, audit, orphaned, deletes>>

\* Settles from the status the promotion had before the claim.
Settle_Bug(r, goal) == job' = [job EXCEPT ![r].pc = "get", ![r].goal = goal]

Settle(r, goal) ==
    job' = [job EXCEPT ![r].pc = "get", ![r].expect = "approved", ![r].goal = goal]

UpsertSelector(r) ==
    /\ LandWrite(r)
    /\ Settle(r, SettledStatus(job[r].op))
    /\ UNCHANGED faults

\* The reply of the write is lost and the client runs the script again: its own
\* write makes the version differ, and the upsert throws SelectorRegistryConflictError.
UpsertReplyLost(r) ==
    /\ "upsert" \in BlindRetry /\ faults < MaxFaults
    /\ LandWrite(r)
    /\ Settle(r, "conflict")
    /\ faults' = faults + 1

\* The version moved on: SelectorRegistryConflictError, caught by the workflow.
UpsertConflict(r) ==
    /\ job[r].pc = "write"
    /\ ~VersionMatches(active[SelectorOf[job[r].on]], job[r].seen.version)
    /\ Settle(r, "conflict")
    /\ UNCHANGED <<store, writes, orphaned, deletes, faults>>

\* recordOutcome: one atomicJsonMerge.  A lost reply makes the client merge twice.
RecordOutcome(r, times) ==
    LET j == job[r] IN
    /\ j.pc = "outcome"
    /\ times = 2 => "merge" \in BlindRetry /\ faults < MaxFaults
    /\ outcomes' = [outcomes EXCEPT ![j.on][OutcomeField(j.op)] = @ + times]
    /\ job' = [job EXCEPT ![r].pc = "audit"]
    /\ faults' = faults + (times - 1)
    /\ UNCHANGED <<active, promo, audit, writes, orphaned, deletes>>

\* writeAudit, and the operation returns.
WriteAudit(r) ==
    LET j == job[r] IN
    /\ j.pc = "audit"
    /\ audit' = audit \cup {[promotion |-> j.on, action |-> j.op, status |-> j.goal]}
    /\ job' = [job EXCEPT ![r] = IdleJob]
    /\ UNCHANGED <<active, promo, outcomes, writes, orphaned, deletes, faults>>

\* The process dies, or a store call throws: no step of the operation is
\* undone or retried.  Whatever call was under way did or did not land, which is
\* the choice between this step and the call's own step before it.
Fail(r) ==
    LET j == job[r] IN
    /\ j.pc # "idle"
    /\ faults < MaxFaults
    /\ faults' = faults + 1
    /\ orphaned' = orphaned \cup {p \in Promotion : Owns(r, p)}
    /\ job' = [job EXCEPT ![r] = IdleJob]
    /\ UNCHANGED <<store, writes, deletes>>

-----------------------------------------------------------------------------
Step(r) ==
    \/ ReadActive(r)
    \/ TransitionGet(r) \/ TransitionCas(r) \/ TransitionCasRefused(r)
    \/ UpsertSelector(r) \/ UpsertReplyLost(r) \/ UpsertConflict(r)
    \/ \E times \in 1..2 : RecordOutcome(r, times)
    \/ WriteAudit(r)

Next ==
    \/ \E p \in Promotion : RecordPromotion(p) \/ RecordPromotionAgain(p) \/ ExpirePromotion(p)
    \/ \E s \in Selector, l \in Locator, c \in DirectConfidence : DirectUpsert(s, l, c)
    \/ \E s \in Selector : DirectDelete(s)
    \/ \E r \in Reviewer :
          \/ \E o \in Operation, p \in Promotion : Load(r, o, p)
          \/ Step(r)
          \/ Fail(r)

Spec == Init /\ [][Next]_vars

\* A started operation is a chain of awaits the event loop keeps running.
FairSpec == Spec /\ \A r \in Reviewer : WF_vars(Step(r))
-----------------------------------------------------------------------------
(***************************************************************************)
(* Properties.                                                             *)
(***************************************************************************)
\* Every variable has the shape its readers expect.
TypeOK ==
    /\ active \in [Selector -> ActiveRecord]
    /\ promo \in [Promotion -> PromotionRecord]
    /\ outcomes \in [Promotion -> Counters]
    /\ audit \subseteq [promotion : Promotion, action : Operation, status : Goal]
    /\ job \in [Reviewer -> Job]
    /\ writes \subseteq AWrite
    /\ orphaned \subseteq Promotion
    /\ deletes \in Nat
    /\ faults \in Nat

\* At most one reviewer holds the claim of a promotion, however many approve or
\* roll it back at once: the status compare-and-set works as a lock.
ClaimExclusive ==
    \A p \in Promotion : \A r, q \in Reviewer : Owns(r, p) /\ Owns(q, p) => r = q

\* No lost update: two writes never produce the same version of a selector.
WritesAreSerial ==
    \A w, v \in writes : w.selector = v.selector /\ w.version = v.version => w = v

\* A rollback only replaces the very write its promotion made, and puts back the
\* locator that write replaced: no edit made in between is overwritten.
RollbackRestoresPrevious ==
    \A w \in writes : w.op = "rollback" =>
        \E mine, before \in writes :
            /\ mine.selector = w.selector /\ mine.version = w.version - 1
            /\ mine.by = w.by /\ mine.op = "approve"
            /\ before.selector = w.selector /\ before.version = mine.version - 1
            /\ before.locator = w.locator

\* The same, of the step itself: the record a rollback overwrites is the one its
\* promotion wrote.
RollbackReplacesOwnWrite ==
    [][\A w \in writes' \ writes :
          w.op = "rollback" => active[w.selector].locator = Proposed[w.by]]_vars

\* An applied promotion names the selector version it wrote and the locator that
\* version replaced, which is all a later rollback relies on.
AppliedNamesItsWrite ==
    \A p \in Promotion : promo[p].status = "applied" =>
        \E mine, before \in writes :
            /\ mine.by = p /\ mine.op = "approve" /\ mine.locator = Proposed[p]
            /\ mine.version = promo[p].applied
            /\ before.selector = mine.selector /\ before.version = mine.version - 1
            /\ before.locator = promo[p].locator

\* A promotion reported as a conflict did not change the selector in the
\* operation that conflicted: "stale expected-version writes ... do not overwrite".
ConflictLeavesSelector ==
    \A p \in Promotion : promo[p].status = "conflict" =>
        ~\E w \in writes : /\ w.by = p
                           /\ w.op = IF promo[p].applied = 0 THEN "approve" ELSE "rollback"

\* The audit trail and the history counters never claim an effect on the
\* selector that did not happen.
EffectsAreReal ==
    \A p \in Promotion :
        LET Did(o) == \E w \in writes : w.by = p /\ w.op = o IN
        /\ [promotion |-> p, action |-> "approve", status |-> "applied"] \in audit
              => Did("approve") /\ outcomes[p].promoted > 0
        /\ [promotion |-> p, action |-> "rollback", status |-> "rolled_back"] \in audit
              => Did("rollback") /\ outcomes[p].rolledBack > 0
        /\ outcomes[p].promoted > 0 => Did("approve")
        /\ outcomes[p].rolledBack > 0 => Did("rollback")

\* Each promotion counts at most once as promoted, rejected and rolled back, and
\* never as both rejected and promoted (the rollback may be counted first: the
\* approver may still be on its way to the history when the rollback overtakes it);
\* and while nothing has failed, a finished operation has left its whole trail: the
\* status, the counter and the audit record of a promotion agree.
TrailIsComplete ==
    \A p \in Promotion :
        LET Audited(o, g) == [promotion |-> p, action |-> o, status |-> g] \in audit IN
        /\ outcomes[p].promoted + outcomes[p].rejected <= 1
        /\ outcomes[p].rolledBack <= 1
        /\ faults = 0 /\ (\A r \in Reviewer : job[r].on # p) =>
            /\ promo[p].status = "applied" => outcomes[p].promoted = 1 /\ Audited("approve", "applied")
            /\ promo[p].status = "rejected" => outcomes[p].rejected = 1 /\ Audited("reject", "rejected")
            /\ promo[p].status = "rolled_back" => outcomes[p].rolledBack = 1
                                                  /\ Audited("rollback", "rolled_back")
            /\ promo[p].status = "conflict" =>
                  \E o \in {"approve", "rollback"} : Audited(o, "conflict")

\* Rolling back restores the whole previous snapshot, confidence included.
RollbackRestoresConfidence ==
    \A w \in writes : w.op = "rollback" =>
        \E before \in writes :
            /\ before.selector = w.selector /\ before.version = w.version - 2
            /\ before.confidence = w.confidence

\* The stages of PromotionLifecycle: "approved" is read as the claim of whichever
\* operation can hold it, told apart by whether the promotion was applied before.
Stage(record) == IF record.status # "approved" THEN record.status
                 ELSE IF record.applied = 0 THEN "approving" ELSE "rolling_back"

Lifecycle == INSTANCE PromotionLifecycle WITH
                 Promotion <- Promotion, stage <- [p \in Promotion |-> Stage(promo[p])]

\* Every step the workflow takes is a step of the promised life cycle.
FollowsLifecycle == Lifecycle!Spec

\* A claim is always settled or given up, whoever else reviews, edits or deletes and
\* whatever replies are lost, unless its owner itself was interrupted: then nothing
\* moves the promotion out of "approved".
ClaimsAreReleased ==
    \A p \in Promotion :
        promo[p].status = "approved" ~> promo[p].status # "approved" \/ p \in orphaned
=============================================================================
