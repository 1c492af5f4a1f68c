----------------------- MODULE PromotionWorkflow_proofs -----------------------
(***************************************************************************)
(* Proofs about PromotionWorkflow, for any number of reviewers, promotions *)
(* and selectors and any bounds: first the claims on a promotion and the   *)
(* lifecycle of its status, then what the operations leave behind.         *)
(***************************************************************************)
EXTENDS PromotionWorkflow, TLAPS

-----------------------------------------------------------------------------
(* The inductive invariant.                                                *)

\* A frame's status and goal fit its operation, and a pending compare-and-set
\* writes what the goal says.
FrameOK(j) ==
    /\ j.pc = "idle" <=> j.on = NoPromotion
    /\ j.pc \in {"read", "write"} => j.op \in {"approve", "rollback"}
    /\ j.pc = "read" => j.expect = EntryStatus(j.op)
    /\ j.pc \in {"get", "cas"} =>
          /\ j.expect \in {"pending", "applied", "approved"}
          /\ j.goal = "approved" => j.expect = EntryStatus(j.op) /\ j.op # "reject"
          /\ j.goal = "rejected" => j.expect = "pending"
          /\ j.goal = "applied" => j.expect = "approved" /\ j.op = "approve"
          /\ j.goal = "rolled_back" => j.expect = "approved" /\ j.op = "rollback"
    /\ j.pc = "cas" =>
          /\ j.next.status = j.goal
          /\ j.goal = "approved" => (j.op = "rollback" <=> j.next.applied # 0)
          /\ j.goal = "applied" => j.next.applied # 0

JobShape ==
    \A r \in Reviewer :
        /\ FrameOK(job[r])
        /\ job[r].pc # "idle" => promo[job[r].on].status # "unrecorded"

\* A promotion knows the version it wrote from the moment it is applied.
AppliedShape ==
    \A p \in Promotion :
        /\ promo[p].status = "pending" => promo[p].applied = 0
        /\ promo[p].status = "applied" => promo[p].applied # 0

\* While a claim is held only expiry can touch its promotion, and the promotion
\* has been applied before exactly if the claim is a rollback's.
ClaimShape ==
    \A r \in Reviewer, p \in Promotion : Owns(r, p) =>
        /\ promo[p].status \in {"approved", "expired"}
        /\ promo[p].status = "approved" => (job[r].op = "rollback" <=> promo[p].applied # 0)

\* The status compare-and-set only works as a lock if nothing overwrites the
\* record it tests.
RecordedOnce == "record" \notin BlindRetry

ClaimInv == /\ JobShape
            /\ AppliedShape
            /\ RecordedOnce => ClaimShape /\ ClaimExclusive

-----------------------------------------------------------------------------
Pc == {"idle", "read", "get", "cas", "write", "outcome", "audit"}

LEMMA IdleJobType == IdleJob \in Job
BY DEF IdleJob, Job, Missing, NoRecord, PromotionRecord, ActiveRecord, Operation, Status,
       Goal, Confidence

\* The ways a step changes a frame leave a frame.
LEMMA SettleFrameType ==
    ASSUME NEW r \in Reviewer, job \in [Reviewer -> Job], NEW g \in Goal
    PROVE  /\ [job EXCEPT ![r].pc = "get", ![r].expect = "approved", ![r].goal = g]
                  = [job EXCEPT ![r] = [job[r] EXCEPT !.pc = "get", !.expect = "approved", !.goal = g]]
           /\ [job[r] EXCEPT !.pc = "get", !.expect = "approved", !.goal = g] \in Job
BY DEF Job, Status

LEMMA ReadFrameType ==
    ASSUME NEW j \in Job, NEW g \in Goal, NEW a \in ActiveRecord
    PROVE  [j EXCEPT !.pc = "get", !.seen = a, !.goal = g] \in Job
BY DEF Job

LEMMA CasFrameType ==
    ASSUME NEW j \in Job, NEW n \in PromotionRecord
    PROVE  [j EXCEPT !.pc = "cas", !.next = n] \in Job
BY DEF Job

LEMMA StartFrameType ==
    ASSUME NEW o \in Operation, NEW p \in Promotion, NEW pc \in Pc, NEW e \in Status,
           NEW g \in Goal, NEW n \in PromotionRecord
    PROVE  [IdleJob EXCEPT !.op = o, !.on = p, !.loaded = n, !.pc = pc,
                           !.expect = e, !.goal = g] \in Job
BY IdleJobType DEF Job, Pc

LEMMA MissingType ==
    ASSUME NEW why \in Status
    PROVE  Missing(why) \in PromotionRecord
BY DEF Missing, PromotionRecord, Confidence

LEMMA CountersType ==
    ASSUME NEW p \in Promotion, outcomes \in [Promotion -> Counters], NEW n \in Nat,
           NEW field \in {"promoted", "rejected", "rolledBack"}
    PROVE  [outcomes EXCEPT ![p][field] = @ + n] \in [Promotion -> Counters]
BY DEF Counters

LEMMA InitTypeOK == Init => TypeOK
<1>. SUFFICES ASSUME Init PROVE TypeOK
  OBVIOUS
<1>1. promo \in [Promotion -> PromotionRecord]
  BY MissingType DEF Init, Status
<1>2. writes \subseteq AWrite
  BY ConstantsAssumption DEF Init, WriteOf, AWrite, ActiveRecord
<1>3. outcomes \in [Promotion -> Counters]
  BY DEF Init, Counters
<1>. QED BY <1>1, <1>2, <1>3, IdleJobType, ConstantsAssumption DEF Init, TypeOK

Applied(current, v, l, c) ==
    [current EXCEPT !.status = "applied", !.applied = v, !.locator = l, !.confidence = c]

LEMMA AppliedRecordType ==
    ASSUME NEW current \in PromotionRecord, NEW v \in Nat,
           NEW l \in Locator \cup {NoLocator}, NEW c \in Confidence
    PROVE  /\ Applied(current, v, l, c) \in PromotionRecord
           /\ Applied(current, v, l, c).status = "applied"
           /\ Applied(current, v, l, c).applied = v
BY DEF PromotionRecord, Status, Applied

LEMMA AppliedSnapshotType ==
    ASSUME NEW current \in PromotionRecord, NEW v \in Nat, NEW a \in ActiveRecord
    PROVE  /\ Applied(current, v, a.locator, a.confidence) \in PromotionRecord
           /\ Applied(current, v, a.locator, a.confidence).status = "applied"
           /\ Applied(current, v, a.locator, a.confidence).applied = v
BY AppliedRecordType DEF ActiveRecord

LEMMA StatusRecordType ==
    ASSUME NEW current \in PromotionRecord, NEW g \in Status
    PROVE  LET n == [current EXCEPT !.status = g]
           IN  n \in PromotionRecord /\ n.status = g /\ n.applied = current.applied
BY DEF PromotionRecord

\* What the helpers of a step return, used by the type proof of every action.
LEMMA HelperTypes ==
    ASSUME NEW j \in Job, NEW current \in PromotionRecord
    PROVE  /\ NextPromotion(j, current) \in PromotionRecord
           /\ NextPromotion(j, current).status = j.goal
           /\ NextPromotion(j, current).applied =
                 IF j.goal = "applied" THEN j.seen.version + 1 ELSE current.applied
           /\ j.seen.version \in Nat
           /\ j.on \in Promotion => NextSelector(j) \in ActiveRecord
           /\ SettledStatus(j.op) \in Goal
           /\ AfterTransition(j.goal) \in {"write", "audit", "outcome"}
           /\ EntryStatus(j.op) \in {"pending", "applied"}
<1>1. /\ j.seen.version \in Nat /\ j.seen.version + 1 \in Nat
      /\ j.seen.locator \in Locator \cup {NoLocator}
      /\ j.seen.confidence \in Confidence
  BY DEF Job, ActiveRecord
<1>2. /\ NextPromotion(j, current) \in PromotionRecord
      /\ NextPromotion(j, current).status = j.goal
      /\ NextPromotion(j, current).applied =
            IF j.goal = "applied" THEN j.seen.version + 1 ELSE current.applied
  <2>1. CASE j.goal = "applied"
    <3>1. PICK v \in Nat : v = j.seen.version + 1
      BY <1>1
    <3>2. NextPromotion(j, current) = Applied(current, v, j.seen.locator, j.seen.confidence)
      BY <2>1, <3>1 DEF NextPromotion, Applied
    <3>3. /\ Applied(current, v, j.seen.locator, j.seen.confidence) \in PromotionRecord
          /\ Applied(current, v, j.seen.locator, j.seen.confidence).status = "applied"
          /\ Applied(current, v, j.seen.locator, j.seen.confidence).applied = v
      <4>1. j.seen \in ActiveRecord
        BY DEF Job
      <4>. QED BY <3>1, <4>1, AppliedSnapshotType
    <3>. QED BY <2>1, <3>1, <3>2, <3>3
  <2>2. CASE j.goal # "applied"
    <3>1. j.goal \in Status
      BY DEF Job, Goal, Status
    <3>. QED BY <2>2, <3>1, StatusRecordType DEF NextPromotion
  <2>. QED BY <2>1, <2>2
<1>3. j.on \in Promotion => NextSelector(j) \in ActiveRecord
  <2>1. ASSUME j.on \in Promotion
        PROVE  /\ (IF j.op = "approve" THEN Proposed[j.on] ELSE j.loaded.locator)
                      \in Locator \cup {NoLocator}
               /\ (IF j.op = "approve" THEN "healed"
                   ELSE IF j.next.confidence # "unset" THEN j.next.confidence
                   ELSE j.seen.confidence) \in Confidence
    BY <2>1, ConstantsAssumption DEF Job, PromotionRecord, ActiveRecord, Confidence
  <2>. QED BY <1>1, <2>1 DEF NextSelector, ActiveRecord
<1>4. SettledStatus(j.op) \in Goal
  BY DEF SettledStatus, Job, Operation, Goal
<1>5. AfterTransition(j.goal) \in {"write", "audit", "outcome"}
  BY DEF AfterTransition
<1>6. EntryStatus(j.op) \in {"pending", "applied"}
  BY DEF EntryStatus
<1>. QED BY <1>1, <1>2, <1>3, <1>4, <1>5, <1>6

-----------------------------------------------------------------------------
(* Type correctness.                                                       *)

\* The frame every step leaves behind is a frame.
LEMMA JobTypes ==
    ASSUME NEW r \in Reviewer, TypeOK, JobShape
    PROVE  /\ job[r] \in Job
           /\ job[r].pc # "idle" => job[r].on \in Promotion
           /\ IdleJob \in Job
<1>1. job[r] \in Job
  BY DEF TypeOK
<1>2. job[r].pc # "idle" => job[r].on \in Promotion
  BY <1>1 DEF JobShape, FrameOK, Job
<1>3. IdleJob \in Job
  BY IdleJobType
<1>. QED BY <1>1, <1>2, <1>3

LEMMA TypeStep == TypeOK /\ JobShape /\ [Next]_vars => TypeOK'
<1>. SUFFICES ASSUME TypeOK, JobShape, [Next]_vars PROVE TypeOK'
  OBVIOUS
<1>1. CASE UNCHANGED vars
  BY <1>1 DEF vars, TypeOK
<1>2. ASSUME NEW p \in Promotion, RecordPromotion(p) PROVE TypeOK'
  <2>1. PICK w \in writes :
           promo' = [promo EXCEPT ![p] = [Missing("pending") EXCEPT !.base = w.version]]
    BY <1>2 DEF RecordPromotion
  <2>3. w.version \in Nat
    BY DEF TypeOK, AWrite
  <2>4. [Missing("pending") EXCEPT !.base = w.version] \in PromotionRecord
    BY <2>3 DEF Missing, PromotionRecord, Status, Confidence
  <2>. QED BY <1>2, <2>1, <2>4 DEF RecordPromotion, TypeOK
<1>3. ASSUME NEW p \in Promotion, ExpirePromotion(p) PROVE TypeOK'
  <2>1. Missing("expired") \in PromotionRecord
    BY MissingType DEF Status
  <2>. QED BY <1>3, <2>1 DEF ExpirePromotion, TypeOK
<1>3a. ASSUME NEW p \in Promotion, RecordPromotionAgain(p) PROVE TypeOK'
  <2>1. promo[p].base \in Nat
    BY DEF TypeOK, PromotionRecord
  <2>2. [Missing("pending") EXCEPT !.base = promo[p].base] \in PromotionRecord
    BY <2>1 DEF Missing, PromotionRecord, Status, Confidence
  <2>3. faults' \in Nat
    BY <1>3a DEF RecordPromotionAgain, TypeOK
  <2>. QED BY <1>3a, <2>2, <2>3 DEF RecordPromotionAgain, TypeOK
<1>4. ASSUME NEW s \in Selector, NEW l \in Locator, NEW c \in DirectConfidence, DirectUpsert(s, l, c)
      PROVE  TypeOK'
  <2>. DEFINE record == [version |-> active[s].version + 1, locator |-> l, confidence |-> c]
  <2>1. record \in ActiveRecord
    BY ConstantsAssumption DEF TypeOK, ActiveRecord
  <2>2. WriteOf(s, record, NoPromotion, "direct") \in AWrite
    BY <2>1 DEF WriteOf, AWrite, ActiveRecord
  <2>. HIDE DEF record
  <2>3. active' = [active EXCEPT ![s] = record]
        /\ writes' = writes \cup {WriteOf(s, record, NoPromotion, "direct")}
    BY <1>4 DEF DirectUpsert, record
  <2>. QED BY <1>4, <2>1, <2>2, <2>3 DEF DirectUpsert, TypeOK
<1>5. ASSUME NEW s \in Selector, DirectDelete(s) PROVE TypeOK'
  <2>1. NoRecord \in ActiveRecord
    BY DEF NoRecord, ActiveRecord, Confidence
  <2>. QED BY <1>5, <2>1 DEF DirectDelete, TypeOK
<1>6. ASSUME NEW r \in Reviewer, NEW o \in Operation, NEW p \in Promotion, Load(r, o, p)
      PROVE  TypeOK'
  <2>. DEFINE pc == IF o = "reject" THEN "get" ELSE "read"
              e  == EntryStatus(o)
              g  == IF o = "reject" THEN "rejected" ELSE "approved"
              k  == [IdleJob EXCEPT !.op = o, !.on = p, !.loaded = promo[p], !.pc = pc,
                                    !.expect = e, !.goal = g]
  <2>1. pc \in Pc /\ e \in Status /\ g \in Goal /\ promo[p] \in PromotionRecord
    BY DEF Pc, EntryStatus, Status, Goal, TypeOK
  <2>2. job' = [job EXCEPT ![r] = k]
    BY <1>6 DEF Load
  <2>. HIDE DEF pc, e, g
  <2>3. k \in Job
    BY <2>1, StartFrameType
  <2>. HIDE DEF k
  <2>. QED BY <1>6, <2>2, <2>3 DEF Load, store, TypeOK
<1>7. ASSUME NEW r \in Reviewer, ReadActive(r) PROVE TypeOK'
  <2>1. job[r] \in Job /\ job[r].on \in Promotion /\ IdleJob \in Job
    BY <1>7, JobTypes DEF ReadActive
  <2>2. active[SelectorOf[job[r].on]] \in ActiveRecord
    BY <2>1, ConstantsAssumption DEF TypeOK
  <2>. DEFINE a == active[SelectorOf[job[r].on]]
              g == IF a.version = ReviewedVersion(job[r].op, job[r].loaded)
                   THEN "approved" ELSE "conflict"
              k == [job[r] EXCEPT !.pc = "get", !.seen = a, !.goal = g]
  <2>3. job' = [job EXCEPT ![r] = IF a.version = 0 THEN IdleJob ELSE k]
    BY <1>7 DEF ReadActive
  <2>4. g \in Goal
    BY DEF Goal
  <2>. HIDE DEF g
  <2>5. k \in Job
    BY <2>1, <2>2, <2>4, ReadFrameType
  <2>. HIDE DEF k, a
  <2>. QED BY <1>7, <2>1, <2>3, <2>5 DEF ReadActive, store, TypeOK
<1>8. ASSUME NEW r \in Reviewer, TransitionGet(r) PROVE TypeOK'
  <2>. DEFINE n == NextPromotion(job[r], promo[job[r].on])
  <2>1. job[r] \in Job /\ job[r].on \in Promotion /\ IdleJob \in Job
    BY <1>8, JobTypes DEF TransitionGet
  <2>2. n \in PromotionRecord
    BY <2>1, HelperTypes DEF TypeOK
  <2>. HIDE DEF n
  <2>3. [job[r] EXCEPT !.pc = "cas", !.next = n] \in Job
    BY <2>1, <2>2, CasFrameType
  <2>4. job' = [job EXCEPT ![r] = IF StatusMatches(promo[job[r].on], job[r].expect)
                                  THEN [job[r] EXCEPT !.pc = "cas", !.next = n] ELSE IdleJob]
    BY <1>8 DEF TransitionGet, n
  <2>. QED BY <1>8, <2>1, <2>3, <2>4 DEF TransitionGet, store, TypeOK
<1>9. ASSUME NEW r \in Reviewer, TransitionCas(r) PROVE TypeOK'
  <2>1. job[r] \in Job /\ job[r].on \in Promotion
    BY <1>9, JobTypes DEF TransitionCas
  <2>2. AfterTransition(job[r].goal) \in {"write", "audit", "outcome"}
    BY <2>1 DEF AfterTransition
  <2>3. job[r].next \in PromotionRecord
    BY <2>1 DEF Job
  <2>4. job' \in [Reviewer -> Job]
    BY <1>9, <2>2 DEF TransitionCas, TypeOK, Job
  <2>. QED BY <1>9, <2>1, <2>3, <2>4 DEF TransitionCas, TypeOK
<1>10. ASSUME NEW r \in Reviewer, TransitionCasRefused(r) PROVE TypeOK'
  BY <1>10, IdleJobType DEF TransitionCasRefused, store, TypeOK
<1>11. ASSUME NEW r \in Reviewer, LandWrite(r)
       PROVE  /\ active' \in [Selector -> ActiveRecord]
              /\ writes' \subseteq AWrite
  <2>. DEFINE s == SelectorOf[job[r].on]
              n == NextSelector(job[r])
  <2>1. job[r] \in Job /\ job[r].on \in Promotion
    BY <1>11, JobTypes DEF LandWrite
  <2>2. n \in ActiveRecord
    BY <2>1, HelperTypes, ConstantsAssumption DEF TypeOK
  <2>3. s \in Selector
    BY <2>1, ConstantsAssumption
  <2>4. active' = [active EXCEPT ![s] = n] /\ writes' = writes \cup {WriteOf(s, n, job[r].on, job[r].op)}
    BY <1>11 DEF LandWrite
  <2>. HIDE DEF s, n
  <2>5. WriteOf(s, n, job[r].on, job[r].op) \in AWrite
    BY <2>1, <2>2, <2>3 DEF WriteOf, AWrite, ActiveRecord, Job
  <2>. QED BY <2>2, <2>3, <2>4, <2>5 DEF TypeOK
<1>12. ASSUME NEW r \in Reviewer, NEW goal \in Goal, Settle(r, goal) PROVE job' \in [Reviewer -> Job]
  BY <1>12, SettleFrameType DEF Settle, TypeOK
<1>13. ASSUME NEW r \in Reviewer, UpsertSelector(r) PROVE TypeOK'
  <2>1. SettledStatus(job[r].op) \in Goal
    BY JobTypes, HelperTypes DEF TypeOK
  <2>2. LandWrite(r) /\ job' \in [Reviewer -> Job] /\ UNCHANGED faults
    BY <1>12, <1>13, <2>1 DEF UpsertSelector
  <2>. QED BY <1>11, <2>2 DEF LandWrite, TypeOK
<1>14. ASSUME NEW r \in Reviewer, UpsertReplyLost(r) PROVE TypeOK'
  <2>1. LandWrite(r) /\ job' \in [Reviewer -> Job] /\ faults' = faults + 1
    BY <1>12, <1>14 DEF UpsertReplyLost, Goal
  <2>2. faults' \in Nat
    BY <2>1 DEF TypeOK
  <2>. QED BY <1>11, <2>1, <2>2 DEF LandWrite, TypeOK
<1>15. ASSUME NEW r \in Reviewer, UpsertConflict(r) PROVE TypeOK'
  BY <1>12, <1>15 DEF UpsertConflict, store, TypeOK, Goal
<1>16. ASSUME NEW r \in Reviewer, NEW times \in 1..2, RecordOutcome(r, times) PROVE TypeOK'
  <2>1. job[r] \in Job /\ job[r].on \in Promotion
    BY <1>16, JobTypes DEF RecordOutcome
  <2>2. OutcomeField(job[r].op) \in {"promoted", "rejected", "rolledBack"}
    BY <2>1 DEF OutcomeField, Job, Operation
  <2>3. outcomes' \in [Promotion -> Counters]
    <3>. DEFINE p == job[r].on
                field == OutcomeField(job[r].op)
    <3>1. outcomes' = [outcomes EXCEPT ![p][field] = @ + times]
      BY <1>16 DEF RecordOutcome
    <3>2. outcomes \in [Promotion -> Counters] /\ times \in Nat
      BY DEF TypeOK
    <3>3. p \in Promotion /\ field \in {"promoted", "rejected", "rolledBack"}
      BY <2>1, <2>2
    <3>. HIDE DEF p, field
    <3>. QED BY <3>1, <3>2, <3>3, CountersType
  <2>4. job' \in [Reviewer -> Job]
    BY <1>16 DEF RecordOutcome, TypeOK, Job
  <2>5. faults' \in Nat
    BY <1>16 DEF RecordOutcome, TypeOK
  <2>. QED BY <1>16, <2>3, <2>4, <2>5 DEF RecordOutcome, TypeOK
<1>17. ASSUME NEW r \in Reviewer, WriteAudit(r) PROVE TypeOK'
  <2>1. job[r] \in Job /\ job[r].on \in Promotion /\ IdleJob \in Job
    BY <1>17, JobTypes DEF WriteAudit
  <2>. QED BY <1>17, <2>1 DEF WriteAudit, TypeOK, Job
<1>18. ASSUME NEW r \in Reviewer, Fail(r) PROVE TypeOK'
  BY <1>18, IdleJobType DEF Fail, store, TypeOK
<1>. QED
  BY <1>1, <1>2, <1>3, <1>4, <1>5, <1>6, <1>7, <1>8, <1>9, <1>10, <1>13, <1>14, <1>15,
     <1>16, <1>17, <1>18, <1>3a
     DEF Next, Step

-----------------------------------------------------------------------------
(* The claim.                                                              *)

HoldsClaim(j) == \/ j.pc = "write"
                 \/ j.pc \in {"get", "cas"} /\ j.expect = "approved"

LEMMA OwnsIsHoldsClaim ==
    ASSUME NEW r \in Reviewer, NEW p \in Promotion
    PROVE  Owns(r, p) <=> job[r].on = p /\ HoldsClaim(job[r])
BY DEF Owns, HoldsClaim

\* A step of r that leaves the promotions alone and does not gain a claim.
LEMMA QuietStep ==
    ASSUME ClaimInv, job \in [Reviewer -> Job], promo' = promo,
           NEW r \in Reviewer, NEW k, job' = [job EXCEPT ![r] = k],
           FrameOK(k),
           k.pc # "idle" => promo[k.on].status # "unrecorded",
           HoldsClaim(k) => HoldsClaim(job[r]) /\ k.on = job[r].on /\ k.op = job[r].op
    PROVE  ClaimInv'
<1>1. \A q \in Reviewer : job'[q] = IF q = r THEN k ELSE job[q]
  OBVIOUS
<1>2. JobShape'
  <2>. SUFFICES ASSUME NEW q \in Reviewer
                PROVE  /\ FrameOK(job'[q])
                       /\ job'[q].pc # "idle" => promo[job'[q].on].status # "unrecorded"
    BY DEF JobShape, FrameOK
  <2>1. CASE q = r
    BY <1>1, <2>1
  <2>2. CASE q # r
    BY <1>1, <2>2 DEF ClaimInv, JobShape
  <2>. QED BY <2>1, <2>2
<1>3. AppliedShape'
  BY DEF ClaimInv, AppliedShape
<1>4. ASSUME NEW q \in Reviewer, NEW p \in Promotion, Owns(q, p)'
      PROVE  Owns(q, p) /\ job'[q].op = job[q].op
  <2>1. job'[q].on = p /\ HoldsClaim(job'[q])
    BY <1>4 DEF Owns, HoldsClaim
  <2>2. job[q].on = p /\ HoldsClaim(job[q]) /\ job'[q].op = job[q].op
    BY <1>1, <2>1
  <2>. QED BY <2>2, OwnsIsHoldsClaim
<1>5. RecordedOnce => ClaimShape'
  BY <1>4 DEF ClaimInv, ClaimShape
<1>6. RecordedOnce => ClaimExclusive'
  BY <1>4 DEF ClaimInv, ClaimExclusive
<1>. QED BY <1>2, <1>3, <1>5, <1>6 DEF ClaimInv, RecordedOnce

\* A step outside the reviewers that changes one promotion nobody has claimed,
\* or lets it expire.
LEMMA PromotionStep ==
    ASSUME ClaimInv, promo \in [Promotion -> PromotionRecord], job' = job,
           NEW p \in Promotion, NEW n \in PromotionRecord, promo' = [promo EXCEPT ![p] = n],
           n.status # "unrecorded",
           n.status = "pending" => n.applied = 0,
           n.status # "applied",
           RecordedOnce => n.status = "expired" \/ promo[p].status = "unrecorded"
    PROVE  ClaimInv'
<1>1. \A x \in Promotion : promo'[x] = IF x = p THEN n ELSE promo[x]
  OBVIOUS
<1>2. ASSUME NEW q \in Reviewer, job[q].pc # "idle" PROVE promo'[job[q].on].status # "unrecorded"
  BY <1>1, <1>2 DEF ClaimInv, JobShape
<1>3. JobShape'
  BY <1>2 DEF ClaimInv, JobShape, FrameOK
<1>4. AppliedShape'
  BY <1>1 DEF ClaimInv, AppliedShape
<1>5. ASSUME RecordedOnce, NEW q \in Reviewer, NEW x \in Promotion, Owns(q, x)
      PROVE  /\ promo'[x].status \in {"approved", "expired"}
             /\ promo'[x].status = "approved" => (job[q].op = "rollback" <=> promo'[x].applied # 0)
  <2>1. job[q].pc # "idle" /\ job[q].on = x
    BY <1>5 DEF Owns
  <2>2. promo[x].status # "unrecorded"
    BY <2>1 DEF ClaimInv, JobShape
  <2>3. CASE x = p
    BY <1>1, <1>5, <2>2, <2>3
  <2>4. CASE x # p
    BY <1>1, <1>5, <2>4 DEF ClaimInv, ClaimShape
  <2>. QED BY <2>3, <2>4
<1>6. RecordedOnce => ClaimShape'
  BY <1>5 DEF ClaimShape, Owns
<1>7. RecordedOnce => ClaimExclusive'
  BY DEF ClaimInv, ClaimExclusive, Owns
<1>. QED BY <1>3, <1>4, <1>6, <1>7 DEF ClaimInv, RecordedOnce

\* The compare-and-set that takes or gives up a claim.  Whoever else held the
\* claim of that promotion would have made the test of its status fail.
LEMMA CasStep ==
    ASSUME TypeOK, ClaimInv, NEW r \in Reviewer, TransitionCas(r)
    PROVE  ClaimInv'
<1>. DEFINE j == job[r]
            p == job[r].on
            k == [job[r] EXCEPT !.pc = AfterTransition(job[r].goal)]
<1>1. j \in Job /\ p \in Promotion /\ j.next \in PromotionRecord
  BY JobTypes DEF ClaimInv, TransitionCas, Job
<1>2. /\ j.pc = "cas"
      /\ promo[p].status = j.expect
      /\ promo' = [promo EXCEPT ![p] = j.next]
      /\ job' = [job EXCEPT ![r] = k]
  BY DEF TransitionCas, StatusMatches
<1>3. /\ k.on = p /\ k.op = j.op /\ k.pc = AfterTransition(j.goal)
      /\ k.next = j.next /\ k.goal = j.goal
  BY <1>1 DEF Job
<1>4. \A q \in Reviewer : job'[q] = IF q = r THEN k ELSE job[q]
  BY <1>2 DEF TypeOK
<1>5. \A x \in Promotion : promo'[x] = IF x = p THEN j.next ELSE promo[x]
  BY <1>1, <1>2 DEF TypeOK
<1>6. FrameOK(j) /\ j.next.status = j.goal
  BY <1>2 DEF ClaimInv, JobShape, FrameOK
<1>7. j.goal \in Goal /\ j.op \in {"approve", "reject", "rollback"}
  BY <1>1 DEF Job, Operation
<1>. HIDE DEF k
<1>8. FrameOK(k)
  BY <1>1, <1>2, <1>3, <1>6, <1>7, ConstantsAssumption DEF FrameOK, AfterTransition, Goal
<1>9. JobShape'
  <2>. SUFFICES ASSUME NEW q \in Reviewer
                PROVE  /\ FrameOK(job'[q])
                       /\ job'[q].pc # "idle" => promo'[job'[q].on].status # "unrecorded"
    BY DEF JobShape, FrameOK
  <2>1. j.next.status # "unrecorded"
    BY <1>6, <1>7 DEF Goal
  <2>2. CASE q = r
    BY <1>1, <1>3, <1>4, <1>5, <1>8, <2>1, <2>2
  <2>3. CASE q # r
    <3>1. /\ FrameOK(job[q]) /\ job'[q] = job[q]
          /\ job[q].pc # "idle" => promo[job[q].on].status # "unrecorded"
      BY <1>4, <2>3 DEF ClaimInv, JobShape
    <3>2. job[q].pc # "idle" => job[q].on \in Promotion
      BY JobTypes DEF ClaimInv
    <3>. QED BY <1>5, <2>1, <3>1, <3>2
  <2>. QED BY <2>2, <2>3
<1>10. AppliedShape'
  BY <1>2, <1>5, <1>6, <1>7 DEF AppliedShape, ClaimInv, FrameOK, Goal
\* Nobody else holds the claim of p.
<1>11. ASSUME RecordedOnce, NEW q \in Reviewer, Owns(q, p) PROVE q = r
  <2>1. promo[p].status \in {"approved", "expired"}
    BY <1>1, <1>11 DEF ClaimInv, ClaimShape
  <2>2. j.expect = "approved"
    BY <1>2, <1>6, <2>1 DEF FrameOK
  <2>3. Owns(r, p)
    BY <1>2, <2>2 DEF Owns
  <2>. QED BY <1>1, <1>11, <2>3 DEF ClaimInv, ClaimExclusive
<1>12. ASSUME RecordedOnce, NEW q \in Reviewer, NEW x \in Promotion, Owns(q, x)'
       PROVE  \/ q = r /\ x = p /\ j.goal = "approved"
              \/ q # r /\ x # p /\ Owns(q, x)
  <2>1. job'[q].on = x /\ HoldsClaim(job'[q])
    BY <1>12 DEF Owns, HoldsClaim
  <2>2. CASE q = r
    <3>1. k.on = x /\ HoldsClaim(k)
      BY <1>4, <2>1, <2>2
    <3>2. AfterTransition(j.goal) = "write"
      BY <1>3, <3>1 DEF HoldsClaim, AfterTransition
    <3>. QED BY <1>3, <2>2, <3>1, <3>2 DEF AfterTransition
  <2>3. CASE q # r
    <3>1. Owns(q, x)
      BY <1>4, <2>1, <2>3, OwnsIsHoldsClaim
    <3>. QED BY <1>11, <1>12, <2>3, <3>1
  <2>. QED BY <2>2, <2>3
<1>13. ASSUME RecordedOnce PROVE ClaimShape'
  <2>. SUFFICES ASSUME NEW q \in Reviewer, NEW x \in Promotion, Owns(q, x)'
                PROVE  /\ promo'[x].status \in {"approved", "expired"}
                       /\ promo'[x].status = "approved" =>
                              (job'[q].op = "rollback" <=> promo'[x].applied # 0)
    BY DEF ClaimShape
  <2>1. CASE q = r /\ x = p /\ j.goal = "approved"
    BY <1>1, <1>2, <1>3, <1>4, <1>5, <1>6, <2>1 DEF FrameOK
  <2>2. CASE q # r /\ x # p /\ Owns(q, x)
    BY <1>4, <1>5, <1>13, <2>2 DEF ClaimInv, ClaimShape
  <2>. QED BY <1>12, <1>13, <2>1, <2>2
<1>14. ASSUME RecordedOnce PROVE ClaimExclusive'
  <2>. SUFFICES ASSUME NEW x \in Promotion, NEW q \in Reviewer, NEW s \in Reviewer,
                       Owns(q, x)', Owns(s, x)'
                PROVE  q = s
    BY DEF ClaimExclusive
  <2>1. (q = r /\ x = p) \/ (q # r /\ x # p /\ Owns(q, x))
    BY <1>12, <1>14
  <2>2. (s = r /\ x = p) \/ (s # r /\ x # p /\ Owns(s, x))
    BY <1>12, <1>14
  <2>. QED BY <1>14, <2>1, <2>2 DEF ClaimInv, ClaimExclusive
<1>. QED BY <1>9, <1>10, <1>13, <1>14 DEF ClaimInv, RecordedOnce

\* FrameOK of the frames the quiet steps leave.
LEMMA IdleFrame == FrameOK(IdleJob) /\ ~HoldsClaim(IdleJob) /\ IdleJob.pc = "idle"
BY DEF FrameOK, HoldsClaim, IdleJob

LEMMA ClaimStep == TypeOK /\ ClaimInv /\ [Next]_vars => ClaimInv'
<1>. SUFFICES ASSUME TypeOK, ClaimInv, [Next]_vars PROVE ClaimInv'
  OBVIOUS
<1>0. job \in [Reviewer -> Job] /\ promo \in [Promotion -> PromotionRecord]
  BY DEF TypeOK
<1>1. ASSUME promo' = promo, job' = job PROVE ClaimInv'
  BY <1>1 DEF ClaimInv, JobShape, FrameOK, AppliedShape, RecordedOnce, ClaimShape, ClaimExclusive, Owns
<1>2. CASE UNCHANGED vars
  BY <1>1, <1>2 DEF vars
<1>3. ASSUME NEW p \in Promotion, RecordPromotion(p) PROVE ClaimInv'
  <2>1. PICK w \in writes :
           promo' = [promo EXCEPT ![p] = [Missing("pending") EXCEPT !.base = w.version]]
    BY <1>3 DEF RecordPromotion
  <2>3. w.version \in Nat
    BY DEF TypeOK, AWrite
  <2>. DEFINE n == [Missing("pending") EXCEPT !.base = w.version]
  <2>4. n \in PromotionRecord /\ n.status = "pending" /\ n.applied = 0
    BY <2>3 DEF Missing, PromotionRecord, Status, Confidence
  <2>. HIDE DEF n
  <2>. QED BY <1>0, <1>3, <2>1, <2>4, PromotionStep DEF RecordPromotion, n
<1>4. ASSUME NEW p \in Promotion, ExpirePromotion(p) PROVE ClaimInv'
  <2>. DEFINE n == Missing("expired")
  <2>1. n \in PromotionRecord /\ n.status = "expired"
    BY MissingType DEF Missing, Status
  <2>2. promo' = [promo EXCEPT ![p] = n] /\ job' = job
    BY <1>4 DEF ExpirePromotion
  <2>. HIDE DEF n
  <2>. QED BY <1>0, <2>1, <2>2, PromotionStep
<1>5. ASSUME NEW s \in Selector, NEW l \in Locator, NEW c \in DirectConfidence,
             DirectUpsert(s, l, c)
      PROVE  ClaimInv'
  BY <1>1, <1>5 DEF DirectUpsert
<1>5a. ASSUME NEW p \in Promotion, RecordPromotionAgain(p) PROVE ClaimInv'
  <2>. DEFINE n == [Missing("pending") EXCEPT !.base = promo[p].base]
  <2>1. promo[p].base \in Nat
    BY <1>0 DEF PromotionRecord
  <2>2. n \in PromotionRecord /\ n.status = "pending" /\ n.applied = 0
    BY <2>1 DEF Missing, PromotionRecord, Status, Confidence
  <2>3. promo' = [promo EXCEPT ![p] = n] /\ job' = job /\ ~RecordedOnce
    BY <1>5a DEF RecordPromotionAgain, RecordedOnce
  <2>. HIDE DEF n
  <2>. QED BY <1>0, <2>2, <2>3, PromotionStep
<1>6. ASSUME NEW s \in Selector, DirectDelete(s) PROVE ClaimInv'
  BY <1>1, <1>6 DEF DirectDelete
\* A step after which the reviewer is idle again.
<1>7. ASSUME NEW r \in Reviewer, promo' = promo, job' = [job EXCEPT ![r] = IdleJob] PROVE ClaimInv'
  BY <1>0, <1>7, IdleFrame, QuietStep
<1>8. ASSUME NEW r \in Reviewer, NEW o \in Operation, NEW p \in Promotion, Load(r, o, p)
      PROVE  ClaimInv'
  <2>. DEFINE k == [IdleJob EXCEPT !.op = o, !.on = p, !.loaded = promo[p],
                                   !.pc = IF o = "reject" THEN "get" ELSE "read",
                                   !.expect = EntryStatus(o),
                                   !.goal = IF o = "reject" THEN "rejected" ELSE "approved"]
  <2>1. k.on = p /\ FrameOK(k) /\ ~HoldsClaim(k)
    BY ConstantsAssumption DEF FrameOK, HoldsClaim, IdleJob, EntryStatus, Operation
  <2>2. promo[p].status # "unrecorded"
    BY <1>8 DEF Load, EntryStatus
  <2>3. promo' = promo /\ job' = [job EXCEPT ![r] = k]
    BY <1>8 DEF Load, store
  <2>. HIDE DEF k
  <2>. QED BY <1>0, <2>1, <2>2, <2>3, QuietStep
<1>9. ASSUME NEW r \in Reviewer, ReadActive(r) PROVE ClaimInv'
  <2>. DEFINE a == active[SelectorOf[job[r].on]]
              g == IF a.version = ReviewedVersion(job[r].op, job[r].loaded)
                   THEN "approved" ELSE "conflict"
              k == [job[r] EXCEPT !.pc = "get", !.seen = a, !.goal = g]
  <2>1. job[r] \in Job /\ job[r].on \in Promotion /\ job[r].pc = "read" /\ promo' = promo
    BY <1>9, JobTypes DEF ReadActive, ClaimInv, store
  <2>2. FrameOK(job[r]) /\ promo[job[r].on].status # "unrecorded"
    BY <2>1 DEF ClaimInv, JobShape
  <2>3. job' = [job EXCEPT ![r] = IF a.version = 0 THEN IdleJob ELSE k]
    BY <1>9 DEF ReadActive
  <2>4. g \in {"approved", "conflict"}
    OBVIOUS
  <2>. HIDE DEF a, g
  <2>5. /\ k.on = job[r].on /\ k.op = job[r].op /\ k.expect = job[r].expect
        /\ k.pc = "get" /\ k.goal = g
    BY <2>1 DEF Job
  <2>. HIDE DEF k
  <2>6. FrameOK(k) /\ ~HoldsClaim(k)
    BY <2>1, <2>2, <2>4, <2>5, ConstantsAssumption DEF FrameOK, HoldsClaim, EntryStatus
  <2>7. CASE a.version = 0
    BY <1>7, <2>1, <2>3, <2>7
  <2>8. CASE a.version # 0
    <3>1. job' = [job EXCEPT ![r] = k]
      BY <2>3, <2>8
    <3>. QED BY <1>0, <2>1, <2>2, <2>5, <2>6, <3>1, QuietStep
  <2>. QED BY <2>7, <2>8
<1>10. ASSUME NEW r \in Reviewer, TransitionGet(r) PROVE ClaimInv'
  <2>. DEFINE n == NextPromotion(job[r], promo[job[r].on])
              k == [job[r] EXCEPT !.pc = "cas", !.next = n]
  <2>1. job[r] \in Job /\ job[r].on \in Promotion /\ job[r].pc = "get" /\ promo' = promo
    BY <1>10, JobTypes DEF TransitionGet, ClaimInv, store
  <2>2. FrameOK(job[r]) /\ promo[job[r].on].status # "unrecorded"
    BY <2>1 DEF ClaimInv, JobShape
  <2>3. job' = [job EXCEPT ![r] = IF promo[job[r].on].status = job[r].expect THEN k ELSE IdleJob]
    BY <1>10 DEF TransitionGet, StatusMatches
  <2>4. /\ n.status = job[r].goal
        /\ n.applied = IF job[r].goal = "applied" THEN job[r].seen.version + 1
                       ELSE promo[job[r].on].applied
        /\ job[r].seen.version \in Nat
    BY <2>1, <1>0, HelperTypes
  <2>5. job[r].goal = "applied" => n.applied # 0
    BY <2>4
  <2>6. job[r].goal # "applied" => n.applied = promo[job[r].on].applied
    BY <2>4
  <2>. HIDE DEF n
  <2>7. /\ k.on = job[r].on /\ k.op = job[r].op /\ k.expect = job[r].expect
        /\ k.pc = "cas" /\ k.goal = job[r].goal /\ k.next = n
    BY <2>1 DEF Job
  <2>. HIDE DEF k
  <2>8. CASE promo[job[r].on].status = job[r].expect
    <3>1. job[r].goal = "approved" => (job[r].op = "rollback" <=> n.applied # 0)
      BY <2>1, <2>2, <2>6, <2>8 DEF ClaimInv, AppliedShape, FrameOK, EntryStatus
    <3>2. FrameOK(k) /\ (HoldsClaim(k) => HoldsClaim(job[r]))
      BY <2>1, <2>2, <2>4, <2>5, <2>7, <3>1 DEF FrameOK, HoldsClaim
    <3>3. job' = [job EXCEPT ![r] = k]
      BY <2>3, <2>8
    <3>. QED BY <1>0, <2>1, <2>2, <2>7, <3>2, <3>3, QuietStep
  <2>9. CASE promo[job[r].on].status # job[r].expect
    BY <1>7, <2>1, <2>3, <2>9
  <2>. QED BY <2>8, <2>9
<1>11. ASSUME NEW r \in Reviewer, TransitionCasRefused(r) PROVE ClaimInv'
  BY <1>7, <1>11 DEF TransitionCasRefused, store
\* The selector write, whatever its result: the claim is kept until it is settled.
<1>12. ASSUME NEW r \in Reviewer, NEW g, job[r].pc = "write", promo' = promo, Settle(r, g),
              g \in {"conflict", SettledStatus(job[r].op)}
       PROVE  ClaimInv'
  <2>. DEFINE k == [job[r] EXCEPT !.pc = "get", !.expect = "approved", !.goal = g]
  <2>1. job[r] \in Job /\ job[r].on \in Promotion
    BY <1>12, JobTypes DEF ClaimInv
  <2>2. FrameOK(job[r]) /\ promo[job[r].on].status # "unrecorded"
    BY <1>12 DEF ClaimInv, JobShape
  <2>3. job' = [job EXCEPT ![r] = k]
    BY <1>12, <1>0, <2>1 DEF Settle, Job
  <2>4. /\ k.on = job[r].on /\ k.op = job[r].op
        /\ k.pc = "get" /\ k.goal = g /\ k.expect = "approved"
    BY <2>1 DEF Job
  <2>. HIDE DEF k
  <2>5. job[r].op \in {"approve", "rollback"}
    BY <1>12, <2>2 DEF FrameOK
  <2>6. \/ g = "conflict"
        \/ g = "applied" /\ job[r].op = "approve"
        \/ g = "rolled_back" /\ job[r].op = "rollback"
    BY <1>12, <2>5 DEF SettledStatus
  <2>7. FrameOK(k)
    BY <2>1, <2>2, <2>4, <2>6, ConstantsAssumption DEF FrameOK
  <2>8. HoldsClaim(job[r])
    BY <1>12 DEF HoldsClaim
  <2>. QED BY <1>0, <1>12, <2>2, <2>3, <2>4, <2>7, <2>8, QuietStep
<1>13. ASSUME NEW r \in Reviewer, UpsertSelector(r) \/ UpsertReplyLost(r) \/ UpsertConflict(r)
       PROVE  ClaimInv'
  BY <1>12, <1>13 DEF UpsertSelector, UpsertReplyLost, UpsertConflict, LandWrite, store
<1>14. ASSUME NEW r \in Reviewer, NEW times \in 1..2, RecordOutcome(r, times) PROVE ClaimInv'
  <2>. DEFINE k == [job[r] EXCEPT !.pc = "audit"]
  <2>1. /\ job[r] \in Job /\ job[r].pc = "outcome" /\ promo' = promo
        /\ job' = [job EXCEPT ![r] = k]
    BY <1>14, JobTypes DEF RecordOutcome, ClaimInv
  <2>2. FrameOK(job[r]) /\ promo[job[r].on].status # "unrecorded"
    BY <2>1 DEF ClaimInv, JobShape
  <2>3. k.on = job[r].on /\ k.pc = "audit"
    BY <2>1 DEF Job
  <2>. HIDE DEF k
  <2>4. FrameOK(k) /\ ~HoldsClaim(k)
    BY <2>1, <2>2, <2>3 DEF FrameOK, HoldsClaim
  <2>. QED BY <1>0, <2>1, <2>2, <2>3, <2>4, QuietStep
<1>15. ASSUME NEW r \in Reviewer, WriteAudit(r) \/ Fail(r) PROVE ClaimInv'
  BY <1>7, <1>15 DEF WriteAudit, Fail, store
<1>16. ASSUME NEW r \in Reviewer, TransitionCas(r) PROVE ClaimInv'
  BY <1>16, CasStep
<1>. QED
  BY <1>2, <1>3, <1>4, <1>5, <1>6, <1>8, <1>9, <1>10, <1>11, <1>13, <1>14, <1>15, <1>16,
     <1>5a
     DEF Next, Step

LEMMA InitClaimInv == Init => ClaimInv
<1>. SUFFICES ASSUME Init PROVE ClaimInv
  OBVIOUS
<1>1. \A r \in Reviewer : job[r] = IdleJob
  BY DEF Init
<1>2. JobShape
  BY <1>1, IdleFrame DEF JobShape
<1>3. \A r \in Reviewer, p \in Promotion : ~Owns(r, p)
  BY <1>1, IdleFrame, OwnsIsHoldsClaim
<1>4. AppliedShape
  BY DEF Init, AppliedShape, Missing
<1>. QED BY <1>2, <1>3, <1>4 DEF ClaimInv, ClaimShape, ClaimExclusive

-----------------------------------------------------------------------------
(* The theorems.                                                           *)

\* The strengthening of the two properties below that every step preserves.
THEOREM Invariance == Spec => [](TypeOK /\ ClaimInv)
<1>1. Init => TypeOK /\ ClaimInv
  BY InitTypeOK, InitClaimInv
<1>2. TypeOK /\ ClaimInv /\ [Next]_vars => (TypeOK /\ ClaimInv)'
  BY TypeStep, ClaimStep DEF ClaimInv
<1>. QED BY <1>1, <1>2, PTL DEF Spec

\* Whatever the reviewers, the other registry clients and the failures do, every
\* record keeps its shape: no transition writes an unknown status and no record
\* loses a field.
THEOREM TypeCorrect == Spec => []TypeOK
BY Invariance, PTL

\* Any number of reviewers approving and rolling back at once: the status
\* compare-and-set of a promotion lets at most one of them in, even when claims are
\* lost to crashes or their promotions expire, unless the write that recorded the
\* promotion is repeated.
THEOREM ClaimsAreExclusive ==
    ASSUME "record" \notin BlindRetry
    PROVE  Spec => []ClaimExclusive
<1>1. ClaimInv => ClaimExclusive
  BY DEF ClaimInv, RecordedOnce
<1>. QED BY <1>1, Invariance, PTL

-----------------------------------------------------------------------------
(* The workflow implements PromotionLifecycle.                             *)

StageOf == [p \in Promotion |-> Stage(promo[p])]

LEMMA StageStep ==
    ASSUME promo \in [Promotion -> PromotionRecord], NEW p \in Promotion,
           NEW n \in PromotionRecord, promo' = [promo EXCEPT ![p] = n]
    PROVE  StageOf' = [StageOf EXCEPT ![p] = Stage(n)]
<1>1. \A x \in Promotion : promo'[x] = IF x = p THEN n ELSE promo[x]
  OBVIOUS
<1>2. \A x \in Promotion : Stage(promo[x])' = IF x = p THEN Stage(n) ELSE Stage(promo[x])
  BY <1>1 DEF Stage
<1>. QED BY <1>2 DEF StageOf

LEMMA StageMove ==
    ASSUME promo \in [Promotion -> PromotionRecord], NEW p \in Promotion,
           NEW n \in PromotionRecord, promo' = [promo EXCEPT ![p] = n],
           NEW from, Stage(promo[p]) \in from
    PROVE  Lifecycle!Move(p, from, Stage(n))
<1>1. StageOf[p] \in from /\ StageOf' = [StageOf EXCEPT ![p] = Stage(n)]
  BY StageStep DEF StageOf
<1>. QED BY <1>1 DEF Lifecycle!Move, StageOf

LEMMA CasFollowsLifecycle ==
    ASSUME RecordedOnce, TypeOK, ClaimInv, NEW r \in Reviewer, TransitionCas(r)
    PROVE  Lifecycle!Next
<1>. DEFINE j == job[r]
            p == job[r].on
<1>1. /\ j \in Job /\ p \in Promotion /\ j.next \in PromotionRecord
      /\ promo \in [Promotion -> PromotionRecord]
  BY JobTypes DEF ClaimInv, TransitionCas, Job, TypeOK
<1>2. j.pc = "cas" /\ promo[p].status = j.expect /\ promo' = [promo EXCEPT ![p] = j.next]
  BY DEF TransitionCas, StatusMatches
<1>3. FrameOK(j) /\ j.next.status = j.goal /\ j.expect \in {"pending", "applied", "approved"}
  BY <1>2 DEF ClaimInv, JobShape, FrameOK
<1>4. j.expect = "approved" => (j.op = "rollback" <=> promo[p].applied # 0)
  BY <1>1, <1>2 DEF ClaimInv, ClaimShape, Owns
<1>5. \A from : Stage(promo[p]) \in from => Lifecycle!Move(p, from, Stage(j.next))
  BY <1>1, <1>2, StageMove
<1>6. CASE j.goal = "approved"
  <2>1. /\ j.expect = EntryStatus(j.op) /\ j.op \in {"approve", "rollback"}
        /\ j.op = "rollback" <=> j.next.applied # 0
    BY <1>1, <1>2, <1>3, <1>6 DEF FrameOK, Job, Operation
  <2>2. CASE j.op = "approve"
    <3>1. Stage(promo[p]) = "pending" /\ Stage(j.next) = "approving"
      BY <1>2, <1>3, <1>6, <2>1, <2>2 DEF Stage, EntryStatus
    <3>. QED BY <1>1, <1>5, <3>1 DEF Lifecycle!Next, Lifecycle!ClaimApproval
  <2>3. CASE j.op = "rollback"
    <3>1. Stage(promo[p]) = "applied" /\ Stage(j.next) = "rolling_back"
      BY <1>2, <1>3, <1>6, <2>1, <2>3 DEF Stage, EntryStatus
    <3>. QED BY <1>1, <1>5, <3>1 DEF Lifecycle!Next, Lifecycle!ClaimRollback
  <2>. QED BY <2>1, <2>2, <2>3
<1>7. CASE j.goal = "rejected"
  <2>1. Stage(promo[p]) = "pending" /\ Stage(j.next) = "rejected"
    BY <1>2, <1>3, <1>7 DEF Stage, FrameOK
  <2>. QED BY <1>1, <1>5, <2>1 DEF Lifecycle!Next, Lifecycle!Reject
<1>8. CASE j.goal = "applied"
  <2>1. Stage(promo[p]) = "approving" /\ Stage(j.next) = "applied"
    BY <1>2, <1>3, <1>4, <1>8 DEF Stage, FrameOK
  <2>. QED BY <1>1, <1>5, <2>1 DEF Lifecycle!Next, Lifecycle!Apply
<1>9. CASE j.goal = "rolled_back"
  <2>1. Stage(promo[p]) = "rolling_back" /\ Stage(j.next) = "rolled_back"
    BY <1>2, <1>3, <1>4, <1>9 DEF Stage, FrameOK
  <2>. QED BY <1>1, <1>5, <2>1 DEF Lifecycle!Next, Lifecycle!RollBack
<1>10. CASE j.goal = "conflict"
  <2>1. /\ Stage(promo[p]) \in {"pending", "applied"} \cup Lifecycle!InReview
        /\ Stage(j.next) = "conflict"
    BY <1>2, <1>3, <1>10 DEF Stage, Lifecycle!InReview
  <2>. QED BY <1>1, <1>5, <2>1 DEF Lifecycle!Next, Lifecycle!Conflict
<1>. QED BY <1>1, <1>6, <1>7, <1>8, <1>9, <1>10 DEF Job, Goal

LEMMA StepFollowsLifecycle ==
    RecordedOnce /\ TypeOK /\ ClaimInv /\ [Next]_vars => [Lifecycle!Next]_StageOf
<1>. SUFFICES ASSUME RecordedOnce, TypeOK, ClaimInv, [Next]_vars PROVE Lifecycle!Next \/ UNCHANGED StageOf
  OBVIOUS
<1>1. promo \in [Promotion -> PromotionRecord]
  BY DEF TypeOK
<1>2. ASSUME promo' = promo PROVE UNCHANGED StageOf
  BY <1>2 DEF StageOf, Stage
<1>3. ASSUME NEW p \in Promotion, RecordPromotion(p) PROVE Lifecycle!Next
  <2>1. PICK w \in writes :
           promo' = [promo EXCEPT ![p] = [Missing("pending") EXCEPT !.base = w.version]]
    BY <1>3 DEF RecordPromotion
  <2>3. w.version \in Nat
    BY DEF TypeOK, AWrite
  <2>. DEFINE n == [Missing("pending") EXCEPT !.base = w.version]
  <2>4. n \in PromotionRecord /\ Stage(n) = "pending"
    BY <2>3 DEF Missing, PromotionRecord, Status, Confidence, Stage
  <2>5. Stage(promo[p]) \in {"unrecorded"}
    BY <1>3 DEF RecordPromotion, Stage
  <2>. HIDE DEF n
  <2>6. promo' = [promo EXCEPT ![p] = n]
    BY <2>1 DEF n
  <2>7. Lifecycle!Move(p, {"unrecorded"}, "pending")
    BY <1>1, <2>4, <2>5, <2>6, StageMove
  <2>. QED BY <2>7 DEF Lifecycle!Next, Lifecycle!Record
<1>4. ASSUME NEW p \in Promotion, ExpirePromotion(p) PROVE Lifecycle!Next
  <2>. DEFINE n == Missing("expired")
              from == Lifecycle!Stages \ {"unrecorded", "expired"}
  <2>1. n \in PromotionRecord /\ Stage(n) = "expired"
    BY MissingType DEF Missing, Status, Stage
  <2>2. promo[p].status \in Status \ {"unrecorded", "expired"}
    BY <1>1, <1>4 DEF ExpirePromotion, PromotionRecord
  <2>3. Stage(promo[p]) \in from
    BY <2>2 DEF Stage, Status, Lifecycle!Stages, Lifecycle!InReview, Lifecycle!Terminal
  <2>4. promo' = [promo EXCEPT ![p] = n]
    BY <1>4 DEF ExpirePromotion
  <2>. HIDE DEF n, from
  <2>5. Lifecycle!Move(p, from, "expired")
    BY <1>1, <2>1, <2>3, <2>4, StageMove
  <2>. QED BY <2>5 DEF Lifecycle!Next, Lifecycle!Expire, from
<1>5. ASSUME NEW r \in Reviewer, TransitionCas(r) PROVE Lifecycle!Next
  BY <1>5, CasFollowsLifecycle
\* Every other step leaves the promotions alone.
<1>. QED
  BY <1>2, <1>3, <1>4, <1>5
     DEF vars, store, Next, Step, RecordedOnce, RecordPromotionAgain, DirectUpsert, DirectDelete, Load, ReadActive, TransitionGet,
         TransitionCasRefused, LandWrite, UpsertSelector, UpsertReplyLost, UpsertConflict,
         RecordOutcome, WriteAudit, Fail

\* No step of any reviewer, client or failure takes a promotion anywhere the
\* promised life cycle does not: nothing is approved twice, nothing is rolled back
\* that was not applied, and a claim is only settled by the kind of operation
\* that took it.
THEOREM ImplementsLifecycle ==
    ASSUME "record" \notin BlindRetry
    PROVE  Spec => FollowsLifecycle
<1>1. Init => Lifecycle!Init
  BY DEF Init, Lifecycle!Init, Stage, Missing
<1>2. TypeOK /\ ClaimInv /\ [Next]_vars => [Lifecycle!Next]_StageOf
  BY StepFollowsLifecycle DEF RecordedOnce
<1>. QED BY <1>1, <1>2, Invariance, PTL DEF Spec, FollowsLifecycle, Lifecycle!Spec, StageOf

-----------------------------------------------------------------------------
(* What each step of a reviewer does to its frame, field by field.         *)

\* Reviewer r goes on with frame k; no other frame changes.
Becomes(r, k) == \A q \in Reviewer : job'[q] = IF q = r THEN k ELSE job[q]

\* Frame k works on what frame j works on.
SameTask(k, j) == k.op = j.op /\ k.on = j.on /\ k.loaded = j.loaded

LEMMA LoadEffect ==
    ASSUME TypeOK, ClaimInv, NEW r \in Reviewer, NEW o \in Operation, NEW p \in Promotion, Load(r, o, p)
    PROVE  /\ UNCHANGED <<active, promo, outcomes, audit, writes, deletes, faults>>
           /\ promo[p].status = EntryStatus(o)
           /\ o = "rollback" => promo[p].applied # 0
           /\ \E k : /\ Becomes(r, k)
                     /\ k.pc = IF o = "reject" THEN "get" ELSE "read"
                     /\ k.op = o /\ k.on = p /\ k.loaded = promo[p]
                     /\ k.expect = EntryStatus(o)
                     /\ k.goal = IF o = "reject" THEN "rejected" ELSE "approved"
<1>. DEFINE k == [IdleJob EXCEPT !.op = o, !.on = p, !.loaded = promo[p],
                                 !.pc = IF o = "reject" THEN "get" ELSE "read",
                                 !.expect = EntryStatus(o),
                                 !.goal = IF o = "reject" THEN "rejected" ELSE "approved"]
<1>1. /\ k.pc = IF o = "reject" THEN "get" ELSE "read"
      /\ k.op = o /\ k.on = p /\ k.loaded = promo[p]
      /\ k.expect = EntryStatus(o)
      /\ k.goal = IF o = "reject" THEN "rejected" ELSE "approved"
  BY DEF IdleJob
<1>2. job' = [job EXCEPT ![r] = k]
  BY DEF Load
<1>. HIDE DEF k
<1>3. Becomes(r, k)
  BY <1>2 DEF Becomes, TypeOK
<1>. QED BY <1>1, <1>3 DEF Load, store

LEMMA ReadEffect ==
    ASSUME TypeOK, ClaimInv, NEW r \in Reviewer, ReadActive(r)
    PROVE  /\ UNCHANGED <<active, promo, outcomes, audit, writes, deletes, faults>>
           /\ job[r].pc = "read"
           /\ LET j == job[r]
                  record == active[SelectorOf[j.on]]
              IN  \/ Becomes(r, IdleJob)
                  \/ /\ record.version # 0
                     /\ \E k : /\ Becomes(r, k) /\ SameTask(k, j) /\ k.expect = j.expect
                               /\ k.pc = "get" /\ k.seen = record
                               /\ k.goal \in {"approved", "conflict"}
                               /\ k.goal = "approved" => record.version = ReviewedVersion(j.op, j.loaded)
<1>. DEFINE j == job[r]
            record == active[SelectorOf[j.on]]
            g == IF record.version = ReviewedVersion(j.op, j.loaded) THEN "approved" ELSE "conflict"
            k == [j EXCEPT !.pc = "get", !.seen = record, !.goal = g]
<1>1. j \in Job
  BY DEF TypeOK
<1>2. /\ SameTask(k, j) /\ k.expect = j.expect /\ k.pc = "get" /\ k.seen = record /\ k.goal = g
  BY <1>1 DEF Job, SameTask
<1>3. job' = [job EXCEPT ![r] = IF record.version = 0 THEN IdleJob ELSE k]
  BY DEF ReadActive
<1>. HIDE DEF k, record
<1>4. IF record.version = 0 THEN Becomes(r, IdleJob) ELSE Becomes(r, k)
  BY <1>3 DEF Becomes, TypeOK
<1>. QED BY <1>2, <1>4 DEF ReadActive, store, record

LEMMA GetEffect ==
    ASSUME TypeOK, ClaimInv, NEW r \in Reviewer, TransitionGet(r)
    PROVE  /\ UNCHANGED <<active, promo, outcomes, audit, writes, deletes, faults>>
           /\ job[r].pc = "get"
           /\ LET j == job[r]
              IN  \/ Becomes(r, IdleJob)
                  \/ /\ promo[j.on].status = j.expect
                     /\ \E k : /\ Becomes(r, k) /\ SameTask(k, j) /\ k.pc = "cas"
                               /\ k.seen = j.seen /\ k.expect = j.expect /\ k.goal = j.goal
                               /\ k.next = NextPromotion(j, promo[j.on])
<1>. DEFINE j == job[r]
            n == NextPromotion(j, promo[j.on])
            k == [j EXCEPT !.pc = "cas", !.next = n]
<1>1. j \in Job
  BY DEF TypeOK
<1>2. /\ SameTask(k, j) /\ k.expect = j.expect /\ k.pc = "cas" /\ k.seen = j.seen /\ k.goal = j.goal
      /\ k.next = n
  BY <1>1 DEF Job, SameTask
<1>3. job' = [job EXCEPT ![r] = IF promo[j.on].status = j.expect THEN k ELSE IdleJob]
  BY DEF TransitionGet, StatusMatches
<1>. HIDE DEF k, n
<1>4. IF promo[j.on].status = j.expect THEN Becomes(r, k) ELSE Becomes(r, IdleJob)
  BY <1>3 DEF Becomes, TypeOK
<1>. QED BY <1>2, <1>4 DEF TransitionGet, store, n

LEMMA CasEffect ==
    ASSUME TypeOK, ClaimInv, NEW r \in Reviewer, TransitionCas(r)
    PROVE  LET j == job[r]
           IN  /\ UNCHANGED <<active, outcomes, audit, writes, deletes, faults>>
               /\ j.pc = "cas" /\ j.on \in Promotion /\ FrameOK(j) /\ j.goal \in Goal
               /\ promo[j.on].status = j.expect
               /\ \A p \in Promotion : promo'[p] = IF p = j.on THEN j.next ELSE promo[p]
               /\ \E k : /\ Becomes(r, k) /\ SameTask(k, j) /\ k.pc = AfterTransition(j.goal)
                         /\ k.seen = j.seen /\ k.expect = j.expect /\ k.goal = j.goal
<1>. DEFINE j == job[r]
            k == [j EXCEPT !.pc = AfterTransition(j.goal)]
<1>1. j \in Job /\ j.on \in Promotion /\ FrameOK(j)
  BY JobTypes DEF ClaimInv, TransitionCas, JobShape
<1>2. /\ SameTask(k, j) /\ k.expect = j.expect /\ k.pc = AfterTransition(j.goal)
      /\ k.seen = j.seen /\ k.goal = j.goal
  BY <1>1 DEF Job, SameTask
<1>3. job' = [job EXCEPT ![r] = k]
  BY DEF TransitionCas
<1>. HIDE DEF k
<1>4. Becomes(r, k)
  BY <1>3 DEF Becomes, TypeOK
<1>5. \A p \in Promotion : promo'[p] = IF p = j.on THEN j.next ELSE promo[p]
  BY <1>1 DEF TransitionCas, TypeOK
<1>6. j.goal \in Goal
  BY <1>1 DEF Job
<1>. QED BY <1>1, <1>2, <1>4, <1>5, <1>6 DEF TransitionCas, StatusMatches

\* The selector write: it lands, with or without its reply, or is refused.
LEMMA UpsertEffect ==
    ASSUME TypeOK, ClaimInv, NEW r \in Reviewer,
           UpsertSelector(r) \/ UpsertReplyLost(r) \/ UpsertConflict(r)
    PROVE  LET j == job[r]
               s == SelectorOf[j.on]
               w == WriteOf(s, NextSelector(j), j.on, j.op)
               landed == /\ active[s].version = j.seen.version
                         /\ active' = [active EXCEPT ![s] = NextSelector(j)]
                         /\ writes' = writes \cup {w}
               settles(g) == \E k : /\ Becomes(r, k) /\ SameTask(k, j) /\ k.pc = "get"
                                    /\ k.seen = j.seen /\ k.expect = "approved" /\ k.goal = g
           IN  /\ UNCHANGED <<promo, outcomes, audit, deletes>>
               /\ j.pc = "write" /\ j.on \in Promotion /\ s \in Selector
               /\ j.op \in {"approve", "rollback"}
               /\ w \in AWrite
               /\ w.selector = s /\ w.version = j.seen.version + 1 /\ w.by = j.on /\ w.op = j.op
               /\ w.locator = IF j.op = "approve" THEN Proposed[j.on] ELSE j.loaded.locator
               /\ NextSelector(j) \in ActiveRecord /\ j.seen.version \in Nat
               /\ NextSelector(j).version = j.seen.version + 1
               /\ NextSelector(j).locator = w.locator /\ NextSelector(j).confidence = w.confidence
               /\ \/ landed /\ settles(SettledStatus(j.op)) /\ UNCHANGED faults
                  \/ landed /\ settles("conflict") /\ "upsert" \in BlindRetry /\ faults' = faults + 1
                  \/ UNCHANGED <<active, writes, faults>> /\ settles("conflict")
<1>. DEFINE j == job[r]
            s == SelectorOf[j.on]
            n == NextSelector(j)
            w == WriteOf(s, n, j.on, j.op)
            K(g) == [j EXCEPT !.pc = "get", !.expect = "approved", !.goal = g]
            settles(g) == \E k : /\ Becomes(r, k) /\ SameTask(k, j) /\ k.pc = "get"
                                 /\ k.seen = j.seen /\ k.expect = "approved" /\ k.goal = g
<1>0. j.pc = "write"
  BY DEF UpsertSelector, UpsertReplyLost, UpsertConflict, LandWrite
<1>1. j \in Job /\ j.on \in Promotion /\ s \in Selector /\ FrameOK(j)
  BY <1>0, JobTypes, ConstantsAssumption DEF ClaimInv, JobShape
<1>2. n \in ActiveRecord /\ j.seen.version \in Nat
  BY <1>1, HelperTypes DEF TypeOK
<1>3. w \in AWrite
  <2>. HIDE DEF s, n
  <2>. QED BY <1>1, <1>2 DEF WriteOf, AWrite, ActiveRecord, Job
<1>4. /\ w.selector = s /\ w.version = n.version /\ w.by = j.on /\ w.op = j.op
      /\ w.locator = n.locator /\ w.confidence = n.confidence
  BY DEF WriteOf
<1>5. /\ n.version = j.seen.version + 1
      /\ n.locator = IF j.op = "approve" THEN Proposed[j.on] ELSE j.loaded.locator
  BY DEF NextSelector
<1>6. j.op \in {"approve", "rollback"}
  BY <1>0, <1>1 DEF FrameOK
<1>7. ASSUME NEW g \in Goal, Settle(r, g) PROVE settles(g)
  <2>1. job' = [job EXCEPT ![r] = K(g)]
    BY <1>1, <1>7, SettleFrameType DEF Settle, TypeOK
  <2>2. /\ SameTask(K(g), j) /\ K(g).pc = "get" /\ K(g).seen = j.seen /\ K(g).expect = "approved"
        /\ K(g).goal = g
    BY <1>1 DEF Job, SameTask
  <2>. HIDE DEF K
  <2>3. Becomes(r, K(g))
    BY <2>1 DEF Becomes, TypeOK
  <2>. QED BY <2>2, <2>3
<1>8. SettledStatus(j.op) \in Goal /\ "conflict" \in Goal
  BY <1>6 DEF SettledStatus, Goal
<1>. HIDE DEF settles, n, s, w
<1>9. ASSUME LandWrite(r)
      PROVE  /\ UNCHANGED <<promo, outcomes, audit, deletes>>
             /\ active[s].version = j.seen.version
             /\ active' = [active EXCEPT ![s] = n]
             /\ writes' = writes \cup {w}
  BY <1>9 DEF LandWrite, VersionMatches, s, n, w
<1>10. \/ LandWrite(r) /\ settles(SettledStatus(j.op)) /\ UNCHANGED faults
       \/ LandWrite(r) /\ settles("conflict") /\ "upsert" \in BlindRetry /\ faults' = faults + 1
       \/ UNCHANGED <<active, promo, outcomes, audit, deletes, writes, faults>> /\ settles("conflict")
  BY <1>7, <1>8 DEF UpsertSelector, UpsertReplyLost, UpsertConflict, store
<1>11. /\ UNCHANGED <<promo, outcomes, audit, deletes>>
       /\ \/ /\ active[s].version = j.seen.version
             /\ active' = [active EXCEPT ![s] = n]
             /\ writes' = writes \cup {w}
             /\ \/ settles(SettledStatus(j.op)) /\ UNCHANGED faults
                \/ settles("conflict") /\ "upsert" \in BlindRetry /\ faults' = faults + 1
          \/ UNCHANGED <<active, writes, faults>> /\ settles("conflict")
  BY <1>9, <1>10
<1>. QED BY <1>0, <1>1, <1>2, <1>3, <1>4, <1>5, <1>6, <1>11 DEF settles, n, s, w

LEMMA OutcomeEffect ==
    ASSUME TypeOK, ClaimInv, NEW r \in Reviewer, NEW times \in 1..2, RecordOutcome(r, times)
    PROVE  LET j == job[r]
           IN  /\ UNCHANGED <<active, promo, audit, writes, deletes>>
               /\ times = 2 => "merge" \in BlindRetry
               /\ faults' = 0 => faults = 0
               /\ j.pc = "outcome" /\ j.on \in Promotion /\ j.op \in Operation
               /\ \A p \in Promotion, f \in {"promoted", "rejected", "rolledBack"} :
                     outcomes'[p][f] = IF p = j.on /\ f = OutcomeField(j.op)
                                       THEN outcomes[p][f] + times ELSE outcomes[p][f]
               /\ \E k : /\ Becomes(r, k) /\ SameTask(k, j) /\ k.pc = "audit"
                         /\ k.seen = j.seen /\ k.expect = j.expect /\ k.goal = j.goal
<1>. DEFINE j == job[r]
            k == [j EXCEPT !.pc = "audit"]
<1>1. j \in Job /\ j.on \in Promotion
  BY JobTypes DEF ClaimInv, RecordOutcome
<1>2. /\ SameTask(k, j) /\ k.expect = j.expect /\ k.pc = "audit" /\ k.seen = j.seen /\ k.goal = j.goal
  BY <1>1 DEF Job, SameTask
<1>3. job' = [job EXCEPT ![r] = k]
  BY DEF RecordOutcome
<1>. HIDE DEF k
<1>4. Becomes(r, k)
  BY <1>3 DEF Becomes, TypeOK
<1>5. \A p \in Promotion, f \in {"promoted", "rejected", "rolledBack"} :
         outcomes'[p][f] = IF p = j.on /\ f = OutcomeField(j.op)
                           THEN outcomes[p][f] + times ELSE outcomes[p][f]
  <2>. DEFINE field == OutcomeField(j.op)
  <2>0. field \in {"promoted", "rejected", "rolledBack"}
    BY <1>1 DEF OutcomeField, Job, Operation
  <2>. HIDE DEF field
  <2>1. outcomes' = [outcomes EXCEPT ![j.on] = [outcomes[j.on] EXCEPT ![field] = outcomes[j.on][field] + times]]
    BY DEF RecordOutcome, field
  <2>2. outcomes \in [Promotion -> Counters]
    BY DEF TypeOK
  <2>. QED BY <1>1, <2>0, <2>1, <2>2 DEF Counters, field
<1>6. faults' = 0 => faults = 0
  BY DEF RecordOutcome, TypeOK
<1>. QED BY <1>1, <1>2, <1>4, <1>5, <1>6 DEF RecordOutcome, Job

LEMMA AuditEffect ==
    ASSUME TypeOK, ClaimInv, NEW r \in Reviewer, WriteAudit(r)
    PROVE  /\ UNCHANGED <<active, promo, outcomes, writes, deletes, faults>>
           /\ job[r].pc = "audit" /\ job[r].on \in Promotion
           /\ audit' = audit \cup {[promotion |-> job[r].on, action |-> job[r].op, status |-> job[r].goal]}
           /\ Becomes(r, IdleJob)
<1>1. job[r].on \in Promotion
  BY JobTypes DEF ClaimInv, WriteAudit
<1>. QED BY <1>1 DEF WriteAudit, Becomes, TypeOK

\* The steps that only end an operation.
LEMMA QuitEffect ==
    ASSUME TypeOK, NEW r \in Reviewer, TransitionCasRefused(r) \/ Fail(r)
    PROVE  /\ UNCHANGED <<active, promo, outcomes, audit, writes, deletes>>
           /\ faults' = 0 => faults = 0 /\ TransitionCasRefused(r)
           /\ Becomes(r, IdleJob)
BY DEF TransitionCasRefused, Fail, store, Becomes, TypeOK

-----------------------------------------------------------------------------
(* The audit trail and the counters.                                       *)

Did(p, o) == \E w \in writes : w.by = p /\ w.op = o

\* What a frame is about to report has happened, and is what its operation does.
ReportsTruly(j) ==
    j.pc # "idle" =>
        /\ j.goal = "rejected" <=> j.op = "reject"
        /\ j.pc = "write" => j.goal = "approved"
        /\ j.pc = "outcome" => j.goal = SettledStatus(j.op)
        /\ j.pc = "audit" => j.goal \in {SettledStatus(j.op), "conflict"}
        /\ j.goal = "applied" => j.op = "approve" /\ Did(j.on, "approve")
        /\ j.goal = "rolled_back" => j.op = "rollback" /\ Did(j.on, "rollback")
        /\ j.pc = "audit" /\ j.goal = "applied" => outcomes[j.on].promoted > 0
        /\ j.pc = "audit" /\ j.goal = "rolled_back" => outcomes[j.on].rolledBack > 0

ReportInv == EffectsAreReal /\ \A r \in Reviewer : ReportsTruly(job[r])

\* Nothing that was reported can become untrue.
LEMMA ReportsStay ==
    ASSUME TypeOK, TypeOK', ReportInv, NEW r \in Reviewer, NEW k, Becomes(r, k),
           writes \subseteq writes',
           \A p \in Promotion : /\ outcomes'[p].promoted >= outcomes[p].promoted
                                /\ outcomes'[p].rolledBack >= outcomes[p].rolledBack,
           \A q \in Reviewer \ {r} : job[q].pc # "idle" => job[q].on \in Promotion,
           ReportsTruly(k)', EffectsAreReal'
    PROVE  ReportInv'
<1>1. ASSUME NEW q \in Reviewer \ {r} PROVE ReportsTruly(job[q])'
  <2>1. job'[q] = job[q] /\ ReportsTruly(job[q])
    BY DEF Becomes, ReportInv
  <2>2. \A o : Did(job[q].on, o) => Did(job[q].on, o)'
    BY <2>1 DEF Did
  <2>3. job[q].pc # "idle" =>
           /\ outcomes[job[q].on].promoted > 0 => outcomes'[job[q].on].promoted > 0
           /\ outcomes[job[q].on].rolledBack > 0 => outcomes'[job[q].on].rolledBack > 0
    BY DEF TypeOK, Counters
  <2>. QED BY <2>1, <2>2, <2>3 DEF ReportsTruly
<1>. QED BY <1>1 DEF Becomes, ReportInv

\* A step that writes nothing and counts nothing.
LEMMA ReportsQuietly ==
    ASSUME TypeOK, TypeOK', ClaimInv, ReportInv, NEW r \in Reviewer, NEW k, Becomes(r, k),
           UNCHANGED <<writes, outcomes, audit>>, ReportsTruly(k)
    PROVE  ReportInv'
<1>1. \A q \in Reviewer : job[q].pc # "idle" => job[q].on \in Promotion
  BY JobTypes DEF ClaimInv
<1>2. \A p \in Promotion : /\ outcomes'[p].promoted >= outcomes[p].promoted
                           /\ outcomes'[p].rolledBack >= outcomes[p].rolledBack
  BY DEF TypeOK, Counters
<1>3. EffectsAreReal'
  BY DEF ReportInv, EffectsAreReal
<1>4. ReportsTruly(k)'
  BY DEF ReportsTruly, Did
<1>. QED BY <1>1, <1>2, <1>3, <1>4, ReportsStay

LEMMA ReportStep ==
    TypeOK /\ TypeOK' /\ ClaimInv /\ ReportInv /\ [Next]_vars => ReportInv'
<1>. SUFFICES ASSUME TypeOK, TypeOK', ClaimInv, ReportInv, [Next]_vars PROVE ReportInv'
  OBVIOUS
<1>0. \A q \in Reviewer : job[q].pc # "idle" => job[q].on \in Promotion
  BY JobTypes DEF ClaimInv
<1>1. ASSUME job' = job, outcomes' = outcomes, audit' = audit, writes \subseteq writes' PROVE ReportInv'
  <2>1. \A p, o : Did(p, o) => Did(p, o)'
    BY <1>1 DEF Did
  <2>2. EffectsAreReal'
    <3>1. \A p \in Promotion, o \in {"approve", "rollback"} :
             (\E w \in writes : w.by = p /\ w.op = o) => \E w \in writes' : w.by = p /\ w.op = o
      BY <1>1
    <3>. QED BY <1>1, <3>1 DEF ReportInv, EffectsAreReal
  <2>3. \A q \in Reviewer : ReportsTruly(job[q])'
    BY <1>1, <2>1 DEF ReportInv, ReportsTruly
  <2>. QED BY <2>2, <2>3 DEF ReportInv
<1>2. CASE UNCHANGED vars
  BY <1>1, <1>2 DEF vars
<1>3. ASSUME NEW p \in Promotion, RecordPromotion(p) \/ RecordPromotionAgain(p) \/ ExpirePromotion(p)
      PROVE  ReportInv'
  BY <1>1, <1>3 DEF RecordPromotion, RecordPromotionAgain, ExpirePromotion
<1>4. ASSUME NEW s \in Selector, NEW l \in Locator, NEW c \in DirectConfidence, DirectUpsert(s, l, c)
      PROVE  ReportInv'
  BY <1>1, <1>4 DEF DirectUpsert
<1>5. ASSUME NEW s \in Selector, DirectDelete(s) PROVE ReportInv'
  BY <1>1, <1>5 DEF DirectDelete
<1>6. ASSUME NEW r \in Reviewer, UNCHANGED <<writes, outcomes, audit>>, Becomes(r, IdleJob)
      PROVE  ReportInv'
  BY <1>6, ReportsQuietly DEF ReportsTruly, IdleJob
<1>7. ASSUME NEW r \in Reviewer, NEW o \in Operation, NEW p \in Promotion, Load(r, o, p) PROVE ReportInv'
  BY <1>7, LoadEffect, ReportsQuietly DEF ReportsTruly, Operation
<1>8. ASSUME NEW r \in Reviewer, ReadActive(r) PROVE ReportInv'
  <2>1. FrameOK(job[r])
    BY DEF ClaimInv, JobShape
  <2>2. job[r].op # "reject"
    BY <1>8, <2>1, ReadEffect DEF FrameOK
  <2>. QED BY <1>6, <1>8, <2>2, ReadEffect, ReportsQuietly DEF ReportsTruly, SameTask
<1>9. ASSUME NEW r \in Reviewer, TransitionGet(r) PROVE ReportInv'
  <2>1. ReportsTruly(job[r])
    BY DEF ReportInv
  <2>. QED BY <1>6, <1>9, <2>1, GetEffect, ReportsQuietly DEF ReportsTruly, SameTask
<1>10. ASSUME NEW r \in Reviewer, TransitionCas(r) PROVE ReportInv'
  <2>1. ReportsTruly(job[r]) /\ FrameOK(job[r]) /\ job[r] \in Job
    BY DEF ReportInv, ClaimInv, JobShape, TypeOK
  <2>2. /\ AfterTransition(job[r].goal) = "write" => job[r].goal = "approved"
        /\ AfterTransition(job[r].goal) = "outcome" => job[r].goal = SettledStatus(job[r].op)
        /\ AfterTransition(job[r].goal) = "audit" => job[r].goal = "conflict"
    BY <1>10, <2>1, CasEffect DEF AfterTransition, SettledStatus, ReportsTruly, Goal
  <2>. QED BY <1>10, <2>1, <2>2, CasEffect, ReportsQuietly DEF ReportsTruly, SameTask
<1>11. ASSUME NEW r \in Reviewer, UpsertSelector(r) \/ UpsertReplyLost(r) \/ UpsertConflict(r)
       PROVE  ReportInv'
  <2>. DEFINE j == job[r]
              w == WriteOf(SelectorOf[j.on], NextSelector(j), j.on, j.op)
              landed == writes' = writes \cup {w} /\ w.by = j.on /\ w.op = j.op
  <2>1. /\ UNCHANGED <<outcomes, audit>> /\ writes \subseteq writes'
        /\ j.op \in {"approve", "rollback"}
        /\ \E k, g : /\ Becomes(r, k) /\ SameTask(k, j) /\ k.pc = "get" /\ k.goal = g
                     /\ (landed /\ g = SettledStatus(j.op)) \/ g = "conflict"
    BY <1>11, UpsertEffect
  <2>2. PICK k, g : /\ Becomes(r, k) /\ SameTask(k, j) /\ k.pc = "get" /\ k.goal = g
                    /\ (landed /\ g = SettledStatus(j.op)) \/ g = "conflict"
    BY <2>1
  <2>3. \A p, o : landed /\ p = j.on /\ o = j.op => Did(p, o)'
    BY DEF Did
  <2>. HIDE DEF w, landed
  <2>4. ReportsTruly(k)'
    BY <2>1, <2>2, <2>3 DEF ReportsTruly, SameTask, SettledStatus
  <2>5. \A p \in Promotion : /\ outcomes'[p].promoted >= outcomes[p].promoted
                             /\ outcomes'[p].rolledBack >= outcomes[p].rolledBack
    BY <2>1 DEF TypeOK, Counters
  <2>6. EffectsAreReal'
    <3>1. \A p \in Promotion, o \in {"approve", "rollback"} :
             (\E x \in writes : x.by = p /\ x.op = o) => \E x \in writes' : x.by = p /\ x.op = o
      BY <2>1
    <3>. QED BY <2>1, <3>1 DEF ReportInv, EffectsAreReal
  <2>. QED BY <1>0, <2>1, <2>2, <2>4, <2>5, <2>6, ReportsStay
<1>12. ASSUME NEW r \in Reviewer, NEW times \in 1..2, RecordOutcome(r, times) PROVE ReportInv'
  <2>. DEFINE j == job[r]
  <2>1. PICK k : /\ Becomes(r, k) /\ SameTask(k, j) /\ k.pc = "audit" /\ k.goal = j.goal
    BY <1>12, OutcomeEffect
  <2>2. /\ UNCHANGED <<writes, audit>> /\ j.pc = "outcome" /\ j.on \in Promotion /\ j.op \in Operation
    BY <1>12, OutcomeEffect
  <2>3. \A p \in Promotion, f \in {"promoted", "rejected", "rolledBack"} :
           outcomes'[p][f] = IF p = j.on /\ f = OutcomeField(j.op)
                             THEN outcomes[p][f] + times ELSE outcomes[p][f]
    BY <1>12, OutcomeEffect
  <2>4. \A p \in Promotion :
           /\ outcomes'[p].promoted =
                 IF p = j.on /\ j.op = "approve" THEN outcomes[p].promoted + times ELSE outcomes[p].promoted
           /\ outcomes'[p].rolledBack =
                 IF p = j.on /\ j.op = "rollback" THEN outcomes[p].rolledBack + times ELSE outcomes[p].rolledBack
    BY <2>2, <2>3 DEF OutcomeField, Operation
  <2>5. \A p \in Promotion : /\ outcomes[p].promoted \in Nat /\ outcomes'[p].promoted >= outcomes[p].promoted
                             /\ outcomes[p].rolledBack \in Nat /\ outcomes'[p].rolledBack >= outcomes[p].rolledBack
    BY <2>4 DEF TypeOK, Counters
  <2>6. ReportsTruly(j) /\ EffectsAreReal
    BY DEF ReportInv
  <2>7. /\ j.op = "approve" => j.goal = "applied" /\ Did(j.on, "approve")
        /\ j.op = "rollback" => j.goal = "rolled_back" /\ Did(j.on, "rollback")
    BY <2>2, <2>6 DEF ReportsTruly, SettledStatus, Operation
  <2>8. \A p, o : Did(p, o)' <=> Did(p, o)
    BY <2>2 DEF Did
  <2>9. ReportsTruly(k)'
    BY <2>1, <2>2, <2>4, <2>5, <2>6, <2>7, <2>8 DEF ReportsTruly, SameTask
  <2>10. ASSUME NEW p \in Promotion
         PROVE  /\ outcomes'[p].promoted > 0 => Did(p, "approve")
                /\ outcomes'[p].rolledBack > 0 => Did(p, "rollback")
                /\ outcomes[p].promoted > 0 => outcomes'[p].promoted > 0
                /\ outcomes[p].rolledBack > 0 => outcomes'[p].rolledBack > 0
    <3>1. /\ outcomes[p].promoted > 0 => Did(p, "approve")
          /\ outcomes[p].rolledBack > 0 => Did(p, "rollback")
      BY <2>6 DEF EffectsAreReal, Did
    <3>2. /\ outcomes'[p].promoted \in Nat /\ outcomes[p].promoted \in Nat
          /\ outcomes'[p].rolledBack \in Nat /\ outcomes[p].rolledBack \in Nat
      BY DEF TypeOK, Counters
    <3>. QED BY <2>4, <2>5, <2>7, <3>1, <3>2
  <2>11. EffectsAreReal'
    BY <2>2, <2>6, <2>10 DEF EffectsAreReal, Did
  <2>. QED BY <1>0, <2>1, <2>2, <2>5, <2>9, <2>11, ReportsStay
<1>13. ASSUME NEW r \in Reviewer, WriteAudit(r) PROVE ReportInv'
  <2>. DEFINE j == job[r]
  <2>1. /\ UNCHANGED <<outcomes, writes>> /\ Becomes(r, IdleJob) /\ j.pc = "audit" /\ j.on \in Promotion
        /\ audit' = audit \cup {[promotion |-> j.on, action |-> j.op, status |-> j.goal]}
    BY <1>13, AuditEffect
  <2>2. ReportsTruly(j) /\ EffectsAreReal
    BY DEF ReportInv
  <2>3. \A p \in Promotion : /\ outcomes'[p].promoted >= outcomes[p].promoted
                             /\ outcomes'[p].rolledBack >= outcomes[p].rolledBack
    BY <2>1 DEF TypeOK, Counters
  <2>4. ReportsTruly(IdleJob)'
    BY DEF ReportsTruly, IdleJob
  <2>5. EffectsAreReal'
    BY <2>1, <2>2 DEF EffectsAreReal, ReportsTruly, Did
  <2>. QED BY <1>0, <2>1, <2>3, <2>4, <2>5, ReportsStay
<1>14. ASSUME NEW r \in Reviewer, TransitionCasRefused(r) \/ Fail(r) PROVE ReportInv'
  BY <1>6, <1>14, QuitEffect
<1>. QED
  BY <1>2, <1>3, <1>4, <1>5, <1>7, <1>8, <1>9, <1>10, <1>11, <1>12, <1>13, <1>14 DEF Next, Step

LEMMA InitReports == Init => ReportInv
<1>. SUFFICES ASSUME Init PROVE ReportInv
  OBVIOUS
<1>1. /\ \A r \in Reviewer : job[r].pc = "idle"
      /\ audit = {}
      /\ \A p \in Promotion : outcomes[p].promoted = 0 /\ outcomes[p].rolledBack = 0
  BY DEF Init, IdleJob
<1>. QED BY <1>1 DEF ReportInv, ReportsTruly, EffectsAreReal

\* Every effect the audit trail reports and the history counters count was written
\* to the selector, whatever crashes, lost replies and repeated writes came between.
THEOREM ReportsAreReal == Spec => []EffectsAreReal
<1>1. Init => ReportInv
  BY InitReports
<1>2. ReportInv => EffectsAreReal
  BY DEF ReportInv
<1>. QED BY <1>1, <1>2, Invariance, ReportStep, PTL DEF Spec

-----------------------------------------------------------------------------
(* What applied promotions and rollbacks rest on.                          *)

\* A record with these contents was written.
Written(s, v, l, c) ==
    \E w \in writes : w.selector = s /\ w.version = v /\ w.locator = l /\ w.confidence = c

\* Promotion p wrote version v of its selector over a version that held locator l.
Named(p, v, l) ==
    \E mine, before \in writes :
        /\ mine.by = p /\ mine.op = "approve" /\ mine.locator = Proposed[p]
        /\ mine.selector = SelectorOf[p] /\ mine.version = v
        /\ before.selector = SelectorOf[p] /\ before.version = v - 1 /\ before.locator = l

\* What reviewer r remembers of the selector and of its promotion was written.
Remembers(j) ==
    /\ j.pc # "idle" /\ j.loaded.applied # 0 => Named(j.on, j.loaded.applied, j.loaded.locator)
    /\ j.pc \in {"get", "cas", "write"} /\ j.op # "reject" =>
          /\ Written(SelectorOf[j.on], j.seen.version, j.seen.locator, j.seen.confidence)
          /\ j.seen.version # 0
    /\ j.op = "rollback" /\ (j.pc = "write" \/ (j.pc \in {"get", "cas"} /\ j.goal = "approved"))
          => j.seen.version = j.loaded.applied
    /\ j.pc = "cas" /\ j.next.applied # 0 => Named(j.on, j.next.applied, j.next.locator)
    /\ j.pc \in {"get", "cas"} /\ j.goal = "applied" => Named(j.on, j.seen.version + 1, j.seen.locator)

NamesInv ==
    /\ \A s \in Selector : active[s].version # 0 =>
          Written(s, active[s].version, active[s].locator, active[s].confidence)
    /\ \A p \in Promotion : promo[p].applied # 0 => Named(p, promo[p].applied, promo[p].locator)
    /\ \A r \in Reviewer : Remembers(job[r])
    /\ RollbackRestoresPrevious

\* Writes are never forgotten.
LEMMA WritesStay ==
    ASSUME writes \subseteq writes'
    PROVE  /\ \A s, v, l, c : Written(s, v, l, c) => Written(s, v, l, c)'
           /\ \A p, v, l : Named(p, v, l) => Named(p, v, l)'
           /\ \A j : Remembers(j) => Remembers(j)'
<1>1. \A s, v, l, c : Written(s, v, l, c) => Written(s, v, l, c)'
  BY DEF Written
<1>2. \A p, v, l : Named(p, v, l) => Named(p, v, l)'
  BY DEF Named
<1>3. \A j : Remembers(j) => Remembers(j)'
  BY <1>1, <1>2 DEF Remembers
<1>. QED BY <1>1, <1>2, <1>3

\* A step of r that writes no selector.
LEMMA NamesStay ==
    ASSUME NamesInv, writes' = writes,
           \A s \in Selector : active'[s] = active[s] \/ active'[s].version = 0,
           \A p \in Promotion : \/ promo'[p] = promo[p] \/ promo'[p].applied = 0
                                \/ Named(p, promo'[p].applied, promo'[p].locator),
           job' = job \/ \E r \in Reviewer : \E k : Becomes(r, k) /\ Remembers(k)
    PROVE  NamesInv'
<1>0. /\ \A s, v, l, c : Written(s, v, l, c)' <=> Written(s, v, l, c)
      /\ \A p, v, l : Named(p, v, l)' <=> Named(p, v, l)
  BY DEF Written, Named
<1>1. \A j : Remembers(j)' <=> Remembers(j)
  BY <1>0 DEF Remembers
<1>2. ASSUME NEW r \in Reviewer PROVE Remembers(job[r])'
  <2>1. Remembers(job'[r])
    BY DEF NamesInv, Becomes
  <2>. QED BY <1>0, <2>1 DEF Remembers
<1>3. RollbackRestoresPrevious'
  BY DEF NamesInv, RollbackRestoresPrevious
<1>4. \A s \in Selector : active'[s].version # 0 =>
          Written(s, active'[s].version, active'[s].locator, active'[s].confidence)
  BY DEF NamesInv
<1>5. \A p \in Promotion : promo'[p].applied # 0 => Named(p, promo'[p].applied, promo'[p].locator)
  BY DEF NamesInv
<1>. QED BY <1>2, <1>3, <1>4, <1>5, <1>0 DEF NamesInv, Written, Named

\* What a rollback write rests on.
Restores(w) ==
    \E mine, before \in writes :
        /\ mine.selector = w.selector /\ mine.version = w.version - 1
        /\ mine.by = w.by /\ mine.op = "approve"
        /\ before.selector = w.selector /\ before.version = mine.version - 1
        /\ before.locator = w.locator

\* A step that writes record n of selector s.
LEMMA NamesWrite ==
    ASSUME TypeOK, NamesInv, promo' = promo, NEW s \in Selector, NEW n, NEW w, writes' = writes \cup {w},
           active' = [active EXCEPT ![s] = n],
           w.selector = s /\ w.version = n.version /\ w.locator = n.locator /\ w.confidence = n.confidence,
           w.op = "rollback" => Restores(w),
           job' = job \/ \E r \in Reviewer : \E k : Becomes(r, k) /\ Remembers(k)'
    PROVE  NamesInv'
<1>1. writes \subseteq writes'
  OBVIOUS
<1>2. /\ \A x, v, l, c : Written(x, v, l, c) => Written(x, v, l, c)'
      /\ \A p, v, l : Named(p, v, l) => Named(p, v, l)'
      /\ Written(s, n.version, n.locator, n.confidence)'
  BY <1>1 DEF Written, Named
<1>3. ASSUME NEW x \in Selector, NEW a, a = active'[x], a.version # 0
      PROVE  Written(x, a.version, a.locator, a.confidence)'
  <2>1. CASE x = s
    BY <1>2, <1>3, <2>1 DEF TypeOK
  <2>2. CASE x # s
    <3>1. a = active[x]
      BY <1>3, <2>2 DEF TypeOK
    <3>2. Written(x, a.version, a.locator, a.confidence)
      BY <1>3, <3>1 DEF NamesInv
    <3>. QED BY <1>2, <3>2
  <2>. QED BY <2>1, <2>2
<1>4. ASSUME NEW p \in Promotion, promo[p].applied # 0
      PROVE  Named(p, promo[p].applied, promo[p].locator)'
  <2>1. Named(p, promo[p].applied, promo[p].locator)
    BY <1>4 DEF NamesInv
  <2>. QED BY <1>2, <2>1 DEF Named
<1>5. ASSUME NEW q \in Reviewer, NEW j, j = job'[q] PROVE Remembers(j)'
  <2>1. CASE job'[q] = job[q]
    <3>1. Remembers(j)
      BY <1>5, <2>1 DEF NamesInv
    <3>. QED BY <1>2, <3>1 DEF Remembers
  <2>2. ASSUME NEW r \in Reviewer, NEW k, Becomes(r, k), Remembers(k)', job'[q] # job[q]
        PROVE  Remembers(j)'
    <3>1. j = k
      BY <1>5, <2>2 DEF Becomes
    <3>. QED BY <2>2, <3>1
  <2>. QED BY <2>1, <2>2
<1>6. RollbackRestoresPrevious'
  BY DEF NamesInv, RollbackRestoresPrevious, Restores
<1>7. \A x \in Selector : active'[x].version # 0 =>
          Written(x, active[x].version, active[x].locator, active[x].confidence)'
  BY <1>3 DEF Written
<1>8. \A p \in Promotion : promo'[p].applied # 0 => Named(p, promo[p].applied, promo[p].locator)'
  BY <1>4
<1>9. \A q \in Reviewer : Remembers(job[q])'
  BY <1>5 DEF Remembers
<1>. QED BY <1>6, <1>7, <1>8, <1>9 DEF NamesInv

LEMMA NamesStep == TypeOK /\ ClaimInv /\ NamesInv /\ [Next]_vars => NamesInv'
<1>. SUFFICES ASSUME TypeOK, ClaimInv, NamesInv, [Next]_vars PROVE NamesInv'
  OBVIOUS
<1>1. CASE UNCHANGED vars
  BY <1>1, NamesStay DEF vars
<1>2. ASSUME NEW p \in Promotion, RecordPromotion(p) \/ RecordPromotionAgain(p) \/ ExpirePromotion(p)
      PROVE  NamesInv'
  <2>1. PICK n : promo' = [promo EXCEPT ![p] = n] /\ n.applied = 0
    BY <1>2 DEF RecordPromotion, RecordPromotionAgain, ExpirePromotion, Missing
  <2>2. \A x \in Promotion : promo'[x] = promo[x] \/ promo'[x].applied = 0
    BY <2>1 DEF TypeOK
  <2>3. UNCHANGED <<active, job, writes>>
    BY <1>2 DEF RecordPromotion, RecordPromotionAgain, ExpirePromotion
  <2>. QED BY <2>2, <2>3, NamesStay
<1>3. ASSUME NEW s \in Selector, NEW l \in Locator, NEW c \in DirectConfidence, DirectUpsert(s, l, c)
      PROVE  NamesInv'
  <2>. DEFINE n == [version |-> active[s].version + 1, locator |-> l, confidence |-> c]
              w == WriteOf(s, n, NoPromotion, "direct")
  <2>1. /\ w.selector = s /\ w.version = n.version /\ w.locator = n.locator
        /\ w.confidence = n.confidence /\ w.op # "rollback"
    BY DEF WriteOf
  <2>2. active' = [active EXCEPT ![s] = n] /\ writes' = writes \cup {w} /\ UNCHANGED <<promo, job>>
    BY <1>3 DEF DirectUpsert
  <2>. HIDE DEF n, w
  <2>. QED BY <2>1, <2>2, NamesWrite
<1>4. ASSUME NEW s \in Selector, DirectDelete(s) PROVE NamesInv'
  <2>1. \A x \in Selector : active'[x] = active[x] \/ active'[x].version = 0
    BY <1>4 DEF DirectDelete, NoRecord, TypeOK
  <2>. QED BY <1>4, <2>1, NamesStay DEF DirectDelete
\* A step of r that changes neither a record nor a promotion.
<1>5. ASSUME NEW r \in Reviewer, NEW k, Becomes(r, k), Remembers(k), UNCHANGED <<active, promo, writes>>
      PROVE  NamesInv'
  BY <1>5, NamesStay
<1>6. Remembers(IdleJob)
  BY DEF Remembers, IdleJob, Missing
<1>7. ASSUME NEW r \in Reviewer, NEW o \in Operation, NEW p \in Promotion, Load(r, o, p) PROVE NamesInv'
  <2>1. PICK k : /\ Becomes(r, k) /\ k.pc = IF o = "reject" THEN "get" ELSE "read"
                 /\ k.op = o /\ k.on = p /\ k.loaded = promo[p]
                 /\ k.goal = IF o = "reject" THEN "rejected" ELSE "approved"
    BY <1>7, LoadEffect
  <2>2. Remembers(k)
    BY <2>1 DEF Remembers, NamesInv, Operation
  <2>. QED BY <1>5, <1>7, <2>1, <2>2, LoadEffect
<1>8. ASSUME NEW r \in Reviewer, ReadActive(r) PROVE NamesInv'
  <2>. DEFINE j == job[r]
              record == active[SelectorOf[j.on]]
  <2>1. /\ UNCHANGED <<active, promo, writes>> /\ j.pc = "read"
        /\ \/ Becomes(r, IdleJob)
           \/ /\ record.version # 0
              /\ \E k : /\ Becomes(r, k) /\ SameTask(k, j) /\ k.pc = "get" /\ k.seen = record
                        /\ k.goal \in {"approved", "conflict"}
                        /\ k.goal = "approved" => record.version = ReviewedVersion(j.op, j.loaded)
    BY <1>8, ReadEffect
  <2>2. ASSUME NEW k, Becomes(r, k), SameTask(k, j), k.pc = "get", k.seen = record, record.version # 0,
               k.goal \in {"approved", "conflict"},
               k.goal = "approved" => record.version = ReviewedVersion(j.op, j.loaded)
        PROVE  Remembers(k)
    <3>1. j.on \in Promotion /\ SelectorOf[j.on] \in Selector
      BY <2>1, JobTypes, ConstantsAssumption DEF ClaimInv
    <3>2. Written(SelectorOf[j.on], record.version, record.locator, record.confidence)
      BY <2>2, <3>1 DEF NamesInv
    <3>3. Remembers(j)
      BY DEF NamesInv
    <3>. HIDE DEF record
    <3>. QED BY <2>1, <2>2, <3>2, <3>3 DEF Remembers, SameTask, ReviewedVersion
  <2>. QED BY <1>5, <1>6, <2>1, <2>2
<1>9. ASSUME NEW r \in Reviewer, TransitionGet(r) PROVE NamesInv'
  <2>. DEFINE j == job[r]
              n == NextPromotion(j, promo[j.on])
  <2>1. /\ UNCHANGED <<active, promo, writes>> /\ j.pc = "get"
        /\ \/ Becomes(r, IdleJob)
           \/ \E k : /\ Becomes(r, k) /\ SameTask(k, j) /\ k.pc = "cas" /\ k.seen = j.seen
                     /\ k.goal = j.goal /\ k.next = n
    BY <1>9, GetEffect
  <2>2. n.applied # 0 => Named(j.on, n.applied, n.locator)
    <3>1. j.on \in Promotion /\ j \in Job /\ promo[j.on] \in PromotionRecord /\ Remembers(j)
      BY <2>1, JobTypes DEF ClaimInv, TypeOK, NamesInv
    <3>2. CASE j.goal = "applied"
      <4>1. n.applied = j.seen.version + 1 /\ n.locator = j.seen.locator
        BY <3>1, <3>2 DEF NextPromotion, PromotionRecord
      <4>. QED BY <2>1, <3>1, <3>2, <4>1 DEF Remembers
    <3>3. CASE j.goal # "applied"
      <4>1. n.applied = promo[j.on].applied /\ n.locator = promo[j.on].locator
        BY <3>1, <3>3 DEF NextPromotion, PromotionRecord
      <4>. QED BY <3>1, <4>1 DEF NamesInv
    <3>. QED BY <3>2, <3>3
  <2>. HIDE DEF n
  <2>3. ASSUME NEW k, SameTask(k, j), k.pc = "cas", k.seen = j.seen, k.goal = j.goal, k.next = n
        PROVE  Remembers(k)
    <3>1. Remembers(j)
      BY DEF NamesInv
    <3>. QED BY <2>1, <2>2, <2>3, <3>1 DEF Remembers, SameTask
  <2>. QED BY <1>5, <1>6, <2>1, <2>3
<1>10. ASSUME NEW r \in Reviewer, TransitionCas(r) PROVE NamesInv'
  <2>. DEFINE j == job[r]
  <2>1. /\ UNCHANGED <<active, writes>> /\ j.pc = "cas" /\ FrameOK(j) /\ j.goal \in Goal
        /\ \A p \in Promotion : promo'[p] = IF p = j.on THEN j.next ELSE promo[p]
    BY <1>10, CasEffect
  <2>2. PICK k : /\ Becomes(r, k) /\ SameTask(k, j) /\ k.pc = AfterTransition(j.goal)
                 /\ k.seen = j.seen /\ k.goal = j.goal
    BY <1>10, CasEffect
  <2>3. Remembers(j)
    BY DEF NamesInv
  <2>4. Remembers(k)
    <3>1. AfterTransition(j.goal) \in {"write", "audit", "outcome"}
      BY DEF AfterTransition
    <3>2. AfterTransition(j.goal) = "write" => j.goal = "approved"
      BY DEF AfterTransition
    <3>. QED BY <2>1, <2>2, <2>3, <3>1, <3>2 DEF Remembers, SameTask
  <2>5. \A p \in Promotion : \/ promo'[p] = promo[p] \/ promo'[p].applied = 0
                             \/ Named(p, promo'[p].applied, promo'[p].locator)
    BY <2>1, <2>3 DEF Remembers
  <2>. QED BY <2>1, <2>2, <2>4, <2>5, NamesStay
<1>11. ASSUME NEW r \in Reviewer, UpsertSelector(r) \/ UpsertReplyLost(r) \/ UpsertConflict(r)
       PROVE  NamesInv'
  <2>. DEFINE j == job[r]
              s == SelectorOf[j.on]
              n == NextSelector(j)
              w == WriteOf(s, n, j.on, j.op)
  <2>1. /\ promo' = promo /\ j.pc = "write" /\ j.on \in Promotion /\ s \in Selector
        /\ j.op \in {"approve", "rollback"} /\ j.seen.version \in Nat
        /\ w.selector = s /\ w.version = j.seen.version + 1 /\ w.by = j.on /\ w.op = j.op
        /\ w.locator = IF j.op = "approve" THEN Proposed[j.on] ELSE j.loaded.locator
        /\ w.version = n.version /\ w.locator = n.locator /\ w.confidence = n.confidence
    BY <1>11, UpsertEffect
  <2>2. \E k, g : /\ Becomes(r, k) /\ SameTask(k, j) /\ k.pc = "get" /\ k.seen = j.seen /\ k.goal = g
                  /\ \/ /\ active' = [active EXCEPT ![s] = n] /\ writes' = writes \cup {w}
                        /\ g \in {SettledStatus(j.op), "conflict"}
                     \/ UNCHANGED <<active, writes>> /\ g = "conflict"
    BY <1>11, UpsertEffect
  <2>3. PICK k, g : /\ Becomes(r, k) /\ SameTask(k, j) /\ k.pc = "get" /\ k.seen = j.seen /\ k.goal = g
                    /\ \/ /\ active' = [active EXCEPT ![s] = n] /\ writes' = writes \cup {w}
                          /\ g \in {SettledStatus(j.op), "conflict"}
                       \/ UNCHANGED <<active, writes>> /\ g = "conflict"
    BY <2>2
  <2>4. Remembers(j)
    BY DEF NamesInv
  <2>. HIDE DEF n, w
  <2>5. CASE UNCHANGED <<active, writes>> /\ g = "conflict"
    <3>1. Remembers(k)
      BY <2>1, <2>3, <2>4, <2>5 DEF Remembers, SameTask
    <3>. QED BY <1>5, <2>1, <2>3, <2>5, <3>1
  <2>6. CASE /\ active' = [active EXCEPT ![s] = n] /\ writes' = writes \cup {w}
             /\ g \in {SettledStatus(j.op), "conflict"}
    <3>1. w.op = "rollback" => Restores(w)
      <4>. SUFFICES ASSUME j.op = "rollback" PROVE Restores(w)
        BY <2>1
      <4>0. j.seen.version = j.loaded.applied /\ j.seen.version # 0
        BY <2>1, <2>4 DEF Remembers
      <4>1. Named(j.on, j.loaded.applied, j.loaded.locator) /\ j.seen.version = j.loaded.applied
        BY <2>1, <2>4, <4>0 DEF Remembers
      <4>2. w.version - 1 = j.loaded.applied /\ w.locator = j.loaded.locator
        BY <2>1, <4>1
      <4>. QED BY <2>1, <4>1, <4>2 DEF Named, Restores
    <3>2. g = "applied" => Named(k.on, k.seen.version + 1, k.seen.locator)'
      <4>. SUFFICES ASSUME g = "applied"
                    PROVE  \E mine, before \in writes' :
                              /\ mine.by = j.on /\ mine.op = "approve" /\ mine.locator = Proposed[j.on]
                              /\ mine.selector = s /\ mine.version = j.seen.version + 1
                              /\ before.selector = s /\ before.version = (j.seen.version + 1) - 1
                              /\ before.locator = j.seen.locator
        BY <2>3 DEF Named, SameTask
      <4>1. j.op = "approve"
        BY <2>1, <2>6 DEF SettledStatus
      <4>2. PICK before \in writes : /\ before.selector = s /\ before.version = j.seen.version
                                     /\ before.locator = j.seen.locator
        BY <2>1, <2>4, <4>1 DEF Remembers, Written
      <4>3. (j.seen.version + 1) - 1 = j.seen.version
        BY <2>1
      <4>. QED BY <2>1, <2>6, <4>1, <4>2, <4>3
    <3>3. Remembers(k)'
      <4>1. /\ \A x, v, l, c : Written(x, v, l, c) => Written(x, v, l, c)'
            /\ \A p, v, l : Named(p, v, l) => Named(p, v, l)'
        BY <2>6 DEF Written, Named
      <4>2. g # "approved"
        BY <2>1, <2>6 DEF SettledStatus
      <4>. QED BY <2>1, <2>3, <2>4, <3>2, <4>1, <4>2 DEF Remembers, SameTask
    <3>. QED BY <2>1, <2>3, <2>6, <3>1, <3>3, NamesWrite
  <2>. QED BY <2>3, <2>5, <2>6
<1>12. ASSUME NEW r \in Reviewer, NEW times \in 1..2, RecordOutcome(r, times) PROVE NamesInv'
  <2>1. PICK k : Becomes(r, k) /\ SameTask(k, job[r]) /\ k.pc = "audit"
    BY <1>12, OutcomeEffect
  <2>2. Remembers(job[r]) /\ job[r].pc = "outcome"
    BY <1>12, OutcomeEffect DEF NamesInv
  <2>3. Remembers(k)
    BY <2>1, <2>2 DEF Remembers, SameTask
  <2>. QED BY <1>5, <1>12, <2>1, <2>3, OutcomeEffect
<1>13. ASSUME NEW r \in Reviewer, WriteAudit(r) PROVE NamesInv'
  BY <1>5, <1>6, <1>13, AuditEffect
<1>14. ASSUME NEW r \in Reviewer, TransitionCasRefused(r) \/ Fail(r) PROVE NamesInv'
  BY <1>5, <1>6, <1>14, QuitEffect
<1>. QED
  BY <1>1, <1>2, <1>3, <1>4, <1>7, <1>8, <1>9, <1>10, <1>11, <1>12, <1>13, <1>14 DEF Next, Step

LEMMA InitNames == Init => NamesInv
<1>. SUFFICES ASSUME Init PROVE NamesInv
  OBVIOUS
<1>1. \A s \in Selector : Written(s, active[s].version, active[s].locator, active[s].confidence)
  <2>1. \A s \in Selector : WriteOf(s, InitialRecord[s], NoPromotion, "direct") \in writes
    BY DEF Init
  <2>. QED BY <2>1 DEF Init, Written, WriteOf
<1>2. \A p \in Promotion : promo[p].applied = 0
  BY DEF Init, Missing
<1>3. \A r \in Reviewer : Remembers(job[r])
  BY DEF Init, Remembers, IdleJob, Missing
<1>4. \A w \in writes : w.op = "direct"
  BY DEF Init, WriteOf
<1>. QED BY <1>1, <1>2, <1>3, <1>4 DEF NamesInv, RollbackRestoresPrevious

\* An applied promotion always names the version it wrote and the locator it
\* replaced, whatever direct edits, deletes, repeated writes and failures came
\* between the analysis, the approval and now.
THEOREM AppliedPromotionsNameTheirWrite == Spec => []AppliedNamesItsWrite
<1>1. TypeOK /\ ClaimInv /\ NamesInv => AppliedNamesItsWrite
  <2>. SUFFICES ASSUME TypeOK, ClaimInv, NamesInv, NEW p \in Promotion, promo[p].status = "applied"
                PROVE  \E mine, before \in writes :
                          /\ mine.by = p /\ mine.op = "approve" /\ mine.locator = Proposed[p]
                          /\ mine.version = promo[p].applied
                          /\ before.selector = mine.selector /\ before.version = mine.version - 1
                          /\ before.locator = promo[p].locator
    BY DEF AppliedNamesItsWrite
  <2>1. Named(p, promo[p].applied, promo[p].locator)
    BY DEF ClaimInv, AppliedShape, NamesInv
  <2>. QED BY <2>1 DEF Named
<1>. QED BY <1>1, Invariance, InitNames, NamesStep, PTL DEF Spec

\* A rollback replaces the version its own promotion wrote with the locator that
\* version had replaced.
THEOREM RollbacksRestore == Spec => []RollbackRestoresPrevious
<1>1. NamesInv => RollbackRestoresPrevious
  BY DEF NamesInv
<1>. QED BY <1>1, Invariance, InitNames, NamesStep, PTL DEF Spec

-----------------------------------------------------------------------------
(* Serial writes.                                                          *)

\* The active version is the newest one written.
SerialInv ==
    /\ WritesAreSerial
    /\ \A w \in writes : w.version <= active[w.selector].version

LEMMA SerialWrite ==
    ASSUME TypeOK, SerialInv, NEW s \in Selector, NEW n \in ActiveRecord, NEW w \in AWrite,
           active' = [active EXCEPT ![s] = n], writes' = writes \cup {w},
           w.selector = s, w.version = n.version, n.version = active[s].version + 1
    PROVE  SerialInv'
<1>1. \A x \in Selector : active'[x] = IF x = s THEN n ELSE active[x]
  BY DEF TypeOK
<1>2. \A x \in Selector : active[x].version \in Nat
  BY DEF TypeOK, ActiveRecord
<1>3. \A v \in writes : v.selector \in Selector /\ v.version \in Nat
  BY DEF TypeOK, AWrite
<1>4. \A v \in writes : v.selector = s => v.version < w.version
  BY <1>2, <1>3 DEF SerialInv
<1>5. WritesAreSerial'
  BY <1>3, <1>4 DEF SerialInv, WritesAreSerial, AWrite
<1>6. \A v \in writes' : v.version <= active'[v.selector].version
  BY <1>1, <1>2, <1>3 DEF SerialInv, AWrite
<1>. QED BY <1>5, <1>6 DEF SerialInv

LEMMA SerialStep ==
    ASSUME MaxDeletes = 0
    PROVE  TypeOK /\ ClaimInv /\ SerialInv /\ [Next]_vars => SerialInv'
<1>. SUFFICES ASSUME TypeOK, ClaimInv, SerialInv, [Next]_vars PROVE SerialInv'
  OBVIOUS
<1>1. ASSUME UNCHANGED <<active, writes>> PROVE SerialInv'
  BY <1>1 DEF SerialInv, WritesAreSerial
<1>2. ASSUME NEW s \in Selector, NEW l \in Locator, NEW c \in DirectConfidence, DirectUpsert(s, l, c)
      PROVE  SerialInv'
  <2>. DEFINE n == [version |-> active[s].version + 1, locator |-> l, confidence |-> c]
              w == WriteOf(s, n, NoPromotion, "direct")
  <2>1. n \in ActiveRecord
    BY ConstantsAssumption DEF TypeOK, ActiveRecord
  <2>2. n.version = active[s].version + 1 /\ w.selector = s /\ w.version = n.version
    BY DEF WriteOf
  <2>3. w \in AWrite
    BY <2>1 DEF WriteOf, AWrite, ActiveRecord
  <2>4. active' = [active EXCEPT ![s] = n] /\ writes' = writes \cup {w}
    BY <1>2 DEF DirectUpsert
  <2>. HIDE DEF n, w
  <2>. QED BY <2>1, <2>2, <2>3, <2>4, SerialWrite
<1>3. ASSUME NEW s \in Selector, DirectDelete(s) PROVE FALSE
  BY <1>3 DEF DirectDelete, TypeOK
<1>4. ASSUME NEW r \in Reviewer, UpsertSelector(r) \/ UpsertReplyLost(r) \/ UpsertConflict(r)
      PROVE  SerialInv'
  <2>. DEFINE j == job[r]
              s == SelectorOf[j.on]
              n == NextSelector(j)
              w == WriteOf(s, n, j.on, j.op)
  <2>1. /\ s \in Selector /\ n \in ActiveRecord /\ w \in AWrite
        /\ w.selector = s /\ w.version = j.seen.version + 1 /\ n.version = j.seen.version + 1
        /\ \/ /\ active[s].version = j.seen.version
              /\ active' = [active EXCEPT ![s] = n] /\ writes' = writes \cup {w}
           \/ UNCHANGED <<active, writes>>
    BY <1>4, UpsertEffect
  <2>. HIDE DEF s, n, w
  <2>. QED BY <1>1, <2>1, SerialWrite
<1>. QED
  BY <1>1, <1>2, <1>3, <1>4
     DEF vars, store, Next, Step, RecordPromotion, RecordPromotionAgain, ExpirePromotion, Load, ReadActive,
         TransitionGet, TransitionCas, TransitionCasRefused, RecordOutcome, WriteAudit, Fail

LEMMA InitSerial == Init => SerialInv
<1>. SUFFICES ASSUME Init PROVE SerialInv
  OBVIOUS
<1>1. \A w \in writes : w.version = active[w.selector].version
  BY DEF Init, WriteOf
<1>2. \A s \in Selector : InitialRecord[s].version = 1
  BY ConstantsAssumption
<1>3. \A w \in writes : w.version = 1 /\ active[w.selector].version = 1
  BY <1>2 DEF Init, WriteOf
<1>4. WritesAreSerial
  BY DEF Init, WriteOf, WritesAreSerial
<1>. QED BY <1>3, <1>4 DEF SerialInv

\* No two writes of a selector, by reviewers or others, ever produce one version,
\* as long as the record is never deleted (a new one starts at version 1 again).
THEOREM NoLostUpdates ==
    ASSUME MaxDeletes = 0
    PROVE  Spec => []WritesAreSerial
<1>1. SerialInv => WritesAreSerial
  BY DEF SerialInv
<1>. QED BY <1>1, Invariance, InitSerial, SerialStep, PTL DEF Spec

\* The record a rollback overwrites is the very one its promotion wrote, under the
\* same condition.
THEOREM RollbacksReplaceTheirOwn ==
    ASSUME MaxDeletes = 0
    PROVE  Spec => RollbackReplacesOwnWrite
<1>1. TypeOK /\ ClaimInv /\ NamesInv /\ SerialInv /\ [Next]_vars =>
         [\A w \in writes' \ writes :
             w.op = "rollback" => active[w.selector].locator = Proposed[w.by]]_vars
  <2>. SUFFICES ASSUME TypeOK, ClaimInv, NamesInv, SerialInv, [Next]_vars,
                       NEW w \in writes' \ writes, w.op = "rollback"
                PROVE  active[w.selector].locator = Proposed[w.by]
    OBVIOUS
  <2>1. PICK r \in Reviewer : UpsertSelector(r) \/ UpsertReplyLost(r) \/ UpsertConflict(r)
    <3>1. writes' # writes
      OBVIOUS
    <3>2. ASSUME NEW s \in Selector, NEW l \in Locator, NEW c \in DirectConfidence, DirectUpsert(s, l, c)
          PROVE  FALSE
      <4>. DEFINE d == WriteOf(s, [version |-> active[s].version + 1, locator |-> l, confidence |-> c],
                               NoPromotion, "direct")
      <4>1. d.op = "direct" /\ writes' = writes \cup {d}
        BY <3>2 DEF DirectUpsert, WriteOf
      <4>. HIDE DEF d
      <4>. QED BY <4>1
    <3>. QED
      BY <3>1, <3>2
         DEF vars, store, Next, Step, RecordPromotion, RecordPromotionAgain, ExpirePromotion,
             DirectDelete, Load, ReadActive, TransitionGet, TransitionCas, TransitionCasRefused,
             RecordOutcome, WriteAudit, Fail
  <2>. DEFINE j == job[r]
              s == SelectorOf[j.on]
  <2>2. /\ w = WriteOf(s, NextSelector(j), j.on, j.op) /\ j.pc = "write" /\ j.on \in Promotion
        /\ s \in Selector /\ w.selector = s /\ w.by = j.on /\ w.op = j.op
        /\ active[s].version = j.seen.version
    BY <2>1, UpsertEffect
  <2>3. Remembers(j) /\ j.pc # "idle" /\ j.op = "rollback"
    BY <2>2 DEF NamesInv
  <2>4. j.seen.version = j.loaded.applied /\ j.seen.version # 0
    BY <2>2, <2>3 DEF Remembers
  <2>5. Named(j.on, j.loaded.applied, j.loaded.locator)
    BY <2>3, <2>4 DEF Remembers
  <2>6. PICK mine \in writes : /\ mine.locator = Proposed[j.on] /\ mine.selector = s
                               /\ mine.version = active[s].version
    BY <2>2, <2>4, <2>5 DEF Named
  <2>7. PICK x \in writes : /\ x.selector = s /\ x.version = active[s].version
                            /\ x.locator = active[s].locator
    BY <2>2, <2>4 DEF NamesInv, Written
  <2>8. x = mine
    BY <2>6, <2>7 DEF SerialInv, WritesAreSerial
  <2>. QED BY <2>2, <2>6, <2>7, <2>8
<1>. QED BY <1>1, Invariance, InitNames, NamesStep, InitSerial, SerialStep, PTL
         DEF Spec, RollbackReplacesOwnWrite

-----------------------------------------------------------------------------
(* Conflicts.                                                              *)

\* What the status of a promotion says it has not written.
Unwritten(p) ==
    /\ promo[p].status \in {"unrecorded", "pending", "rejected"} => ~Did(p, "approve") /\ ~Did(p, "rollback")
    /\ promo[p].status # "expired" /\ promo[p].applied = 0 => ~Did(p, "rollback")
    /\ promo[p].status = "applied" => ~Did(p, "rollback")
    /\ promo[p].status = "conflict" => ~Did(p, IF promo[p].applied = 0 THEN "approve" ELSE "rollback")

\* The holder of a claim writes once, and not if it gives up; the record a pending
\* compare-and-set writes tells an approval's conflict from a rollback's.
WritesOnce(j) ==
    /\ j.pc = "write" => ~Did(j.on, j.op)
    /\ j.pc \in {"get", "cas"} /\ j.expect = "approved" /\ j.goal = "conflict" => ~Did(j.on, j.op)
    /\ j.pc = "cas" =>
          /\ j.expect = "pending" => j.next.applied = 0
          /\ j.expect = "applied" => j.next.applied # 0
          /\ j.expect = "approved" /\ j.goal # "applied" /\ promo[j.on].status = "approved"
                => j.next.applied = promo[j.on].applied

ConflictInv == /\ \A p \in Promotion : Unwritten(p)
               /\ \A r \in Reviewer : WritesOnce(job[r])

\* A step that writes no selector and changes no promotion.
LEMMA WritesOnceStay ==
    ASSUME ConflictInv, promo' = promo, job' = job \/ \E r \in Reviewer : \E k : Becomes(r, k) /\ WritesOnce(k),
           writes' = writes
    PROVE  ConflictInv'
<1>1. \A r \in Reviewer : WritesOnce(job'[r])
  BY DEF ConflictInv, Becomes
<1>. QED BY <1>1 DEF ConflictInv, WritesOnce, Unwritten, Did

LEMMA CasKeepsConflicts ==
    ASSUME RecordedOnce, TypeOK, ClaimInv, ReportInv, ConflictInv, NEW r \in Reviewer, TransitionCas(r)
    PROVE  ConflictInv'
<1>. DEFINE j == job[r]
            p == job[r].on
<1>1. /\ writes' = writes /\ j.pc = "cas" /\ p \in Promotion /\ FrameOK(j) /\ j.goal \in Goal
      /\ promo[p].status = j.expect
      /\ \A x \in Promotion : promo'[x] = IF x = p THEN j.next ELSE promo[x]
  BY CasEffect
<1>2. PICK k : Becomes(r, k) /\ SameTask(k, j) /\ k.pc = AfterTransition(j.goal) /\ k.goal = j.goal
  BY CasEffect
<1>3. /\ \A x, o : Did(x, o)' <=> Did(x, o)
      /\ WritesOnce(j) /\ Unwritten(p) /\ ReportsTruly(j)
  BY <1>1 DEF Did, ConflictInv, ReportInv
<1>4. /\ j.next.status = j.goal
      /\ j.goal = "approved" => j.expect = EntryStatus(j.op) /\ (j.op = "rollback" <=> j.next.applied # 0)
      /\ j.expect \in {"pending", "applied", "approved"}
      /\ j.op = "approve" \/ j.op = "rollback" \/ j.op = "reject"
      /\ j.goal = "rejected" <=> j.op = "reject"
  BY <1>1, <1>3 DEF FrameOK, ReportsTruly, TypeOK, Job, Operation
<1>5. j.expect = "approved" => (j.op = "rollback" <=> promo[p].applied # 0)
  BY <1>1 DEF ClaimInv, ClaimShape, Owns
<1>6. promo[p].status = "pending" => promo[p].applied = 0
  BY <1>1 DEF ClaimInv, AppliedShape
\* What the new status says.
<1>7. /\ j.goal \in {"unrecorded", "pending", "rejected"} => ~Did(p, "approve") /\ ~Did(p, "rollback")
      /\ j.next.applied = 0 => ~Did(p, "rollback")
      /\ j.goal = "applied" => ~Did(p, "rollback")
      /\ j.goal = "conflict" => ~Did(p, IF j.next.applied = 0 THEN "approve" ELSE "rollback")
  <2>1. CASE j.expect = "pending"
    BY <1>1, <1>3, <1>4, <2>1 DEF Unwritten, WritesOnce
  <2>2. CASE j.expect = "applied"
    BY <1>1, <1>3, <1>4, <2>2 DEF Unwritten, WritesOnce, FrameOK, Goal
  <2>3. CASE j.expect = "approved"
    <3>1. CASE j.goal = "applied"
      <4>1. ~Did(p, "rollback")
        BY <1>1, <1>3, <1>5, <2>3, <3>1 DEF Unwritten, FrameOK
      <4>. QED BY <3>1, <4>1
    <3>2. CASE j.goal # "applied"
      <4>1. j.next.applied = promo[p].applied
        BY <1>1, <1>3, <2>3, <3>2 DEF WritesOnce
      <4>2. j.goal \in {"rolled_back", "conflict"}
        BY <1>1, <1>4, <2>3, <3>2 DEF Goal, FrameOK, EntryStatus
      <4>3. j.goal = "conflict" => ~Did(p, j.op)
        BY <1>1, <1>3, <2>3 DEF WritesOnce
      <4>. QED BY <1>1, <1>3, <1>4, <1>5, <2>3, <4>1, <4>2, <4>3 DEF Unwritten
    <3>. QED BY <3>1, <3>2
  <2>. QED BY <1>4, <2>1, <2>2, <2>3
<1>8. ASSUME NEW x \in Promotion PROVE Unwritten(x)'
  <2>1. CASE x = p
    <3>1. promo'[x].status = j.goal /\ promo'[x].applied = j.next.applied
      BY <1>1, <1>4, <2>1
    <3>. QED BY <1>3, <1>7, <2>1, <3>1 DEF Unwritten
  <2>2. CASE x # p
    <3>1. promo'[x] = promo[x] /\ Unwritten(x)
      BY <1>1, <2>2 DEF ConflictInv
    <3>. QED BY <1>3, <3>1 DEF Unwritten
  <2>. QED BY <2>1, <2>2
\* Nobody else is about to settle a claim of p that was just taken.
<1>9. ASSUME NEW q \in Reviewer, NEW m, m = job'[q] PROVE WritesOnce(m)'
  <2>1. CASE q = r
    <3>1. m.pc = AfterTransition(j.goal) /\ m.op = j.op /\ m.on = p
      BY <1>2, <1>9, <2>1 DEF Becomes, SameTask
    <3>2. m.pc \in {"write", "audit", "outcome"} /\ (m.pc = "write" => j.goal = "approved")
      BY <3>1 DEF AfterTransition
    <3>3. m.pc = "write" => ~Did(p, j.op)
      <4>1. j.goal = "approved" =>
              \/ j.op = "approve" /\ promo[p].status = "pending"
              \/ j.op = "rollback" /\ promo[p].status = "applied"
        BY <1>1, <1>4 DEF EntryStatus
      <4>. QED BY <1>3, <3>2, <4>1 DEF Unwritten
    <3>. QED BY <1>3, <3>1, <3>2, <3>3 DEF WritesOnce
  <2>2. CASE q # r
    <3>1. m = job[q] /\ WritesOnce(m)
      BY <1>2, <1>9, <2>2 DEF Becomes, ConflictInv
    <3>2. m.pc = "cas" /\ m.expect = "approved" /\ promo'[m.on].status = "approved" => promo'[m.on] = promo[m.on]
      <4>. SUFFICES ASSUME m.pc = "cas", m.expect = "approved", m.on = p PROVE j.goal # "approved"
        <5>1. m.pc = "cas" => m.on \in Promotion
          BY <3>1, JobTypes DEF ClaimInv
        <5>. QED BY <1>1, <1>4, <5>1
      <4>1. Owns(q, p)
        BY <3>1 DEF Owns
      <4>2. promo[p].status \in {"approved", "expired"}
        BY <1>1, <4>1 DEF ClaimInv, ClaimShape
      <4>. QED BY <1>1, <1>4, <4>2 DEF EntryStatus
    <3>. QED BY <1>3, <3>1, <3>2 DEF WritesOnce
  <2>. QED BY <2>1, <2>2
<1>10. \A q \in Reviewer : WritesOnce(job[q])'
  BY <1>9 DEF WritesOnce
<1>. QED BY <1>8, <1>10 DEF ConflictInv

\* The write of a claimed promotion is the claim holder's alone.
LEMMA UpsertKeepsConflicts ==
    ASSUME RecordedOnce, "upsert" \notin BlindRetry, TypeOK, ClaimInv, ConflictInv, NEW r \in Reviewer,
           UpsertSelector(r) \/ UpsertReplyLost(r) \/ UpsertConflict(r)
    PROVE  ConflictInv'
<1>. DEFINE j == job[r]
            p == job[r].on
            w == WriteOf(SelectorOf[p], NextSelector(j), p, j.op)
<1>1. /\ promo' = promo /\ j.pc = "write" /\ p \in Promotion /\ j.op \in {"approve", "rollback"}
      /\ w.by = p /\ w.op = j.op
      /\ \E k, g : /\ Becomes(r, k) /\ SameTask(k, j) /\ k.pc = "get" /\ k.goal = g
                   /\ \/ writes' = writes \cup {w} /\ g = SettledStatus(j.op)
                      \/ writes' = writes /\ g = "conflict"
  BY UpsertEffect
<1>2. PICK k, g : /\ Becomes(r, k) /\ SameTask(k, j) /\ k.pc = "get" /\ k.goal = g
                  /\ \/ writes' = writes \cup {w} /\ g = SettledStatus(j.op)
                     \/ writes' = writes /\ g = "conflict"
  BY <1>1
<1>. HIDE DEF w
<1>3. WritesOnce(k)'
  <2>1. WritesOnce(j)
    BY DEF ConflictInv
  <2>2. SettledStatus(j.op) # "conflict"
    BY <1>1 DEF SettledStatus
  <2>3. g = "conflict" => ~Did(p, j.op) /\ writes' = writes
    BY <1>1, <1>2, <2>1, <2>2 DEF WritesOnce
  <2>. QED BY <1>1, <1>2, <2>3 DEF WritesOnce, SameTask, Did
<1>4. CASE writes' = writes
  <2>1. WritesOnce(k)
    BY <1>1, <1>3, <1>4 DEF WritesOnce, Did
  <2>. QED BY <1>1, <1>2, <1>4, <2>1, WritesOnceStay
<1>5. CASE writes' = writes \cup {w}
  <2>1. \A x, o : Did(x, o)' <=> Did(x, o) \/ (x = p /\ o = j.op)
    BY <1>1, <1>5 DEF Did
  <2>2. Owns(r, p)
    BY <1>1 DEF Owns
  <2>3. /\ promo[p].status \in {"approved", "expired"}
        /\ promo[p].status = "approved" => (j.op = "rollback" <=> promo[p].applied # 0)
    BY <1>1, <2>2 DEF ClaimInv, ClaimShape
  <2>4. ASSUME NEW x \in Promotion PROVE Unwritten(x)'
    BY <1>1, <2>1, <2>3 DEF ConflictInv, Unwritten
  <2>5. ASSUME NEW q \in Reviewer, NEW m, m = job'[q] PROVE WritesOnce(m)'
    <3>1. CASE q = r
      BY <1>2, <1>3, <2>5, <3>1 DEF Becomes
    <3>2. CASE q # r
      <4>1. m = job[q] /\ WritesOnce(m)
        BY <1>2, <2>5, <3>2 DEF Becomes, ConflictInv
      <4>2. ~Owns(q, p)
        BY <1>1, <2>2, <3>2 DEF ClaimInv, ClaimExclusive
      <4>3. m.pc = "write" \/ (m.pc \in {"get", "cas"} /\ m.expect = "approved") => m.on # p
        BY <4>1, <4>2 DEF Owns
      <4>. QED BY <1>1, <2>1, <4>1, <4>3 DEF WritesOnce
    <3>. QED BY <3>1, <3>2
  <2>6. \A q \in Reviewer : WritesOnce(job[q])'
    BY <2>5 DEF WritesOnce
  <2>. QED BY <2>4, <2>6 DEF ConflictInv
<1>. QED BY <1>2, <1>4, <1>5

LEMMA ConflictStep ==
    ASSUME RecordedOnce, "upsert" \notin BlindRetry
    PROVE  TypeOK /\ ClaimInv /\ ReportInv /\ ConflictInv /\ [Next]_vars => ConflictInv'
<1>. SUFFICES ASSUME TypeOK, ClaimInv, ReportInv, ConflictInv, [Next]_vars PROVE ConflictInv'
  OBVIOUS
<1>1. CASE UNCHANGED vars
  BY <1>1, WritesOnceStay DEF vars
\* A step that changes promotion p, which no frame's compare-and-set can then find
\* in the status it expects.
<1>2. ASSUME NEW p \in Promotion, RecordPromotion(p) \/ RecordPromotionAgain(p) \/ ExpirePromotion(p)
      PROVE  ConflictInv'
  <2>1. PICK n : /\ promo' = [promo EXCEPT ![p] = n] /\ n.status \in {"pending", "expired"}
                 /\ n.status = "pending" => promo[p].status = "unrecorded"
    <3>1. CASE RecordPromotion(p)
      <4>1. PICK w \in writes : promo' = [promo EXCEPT ![p] = [Missing("pending") EXCEPT !.base = w.version]]
        BY <3>1 DEF RecordPromotion
      <4>2. [Missing("pending") EXCEPT !.base = w.version].status = "pending"
        BY DEF Missing
      <4>. QED BY <3>1, <4>1, <4>2 DEF RecordPromotion
    <3>2. CASE ExpirePromotion(p)
      <4>1. promo' = [promo EXCEPT ![p] = Missing("expired")]
        BY <3>2 DEF ExpirePromotion
      <4>2. Missing("expired").status = "expired"
        BY DEF Missing
      <4>. QED BY <4>1, <4>2
    <3>. QED BY <1>2, <3>1, <3>2 DEF RecordPromotionAgain, RecordedOnce
  <2>2. \A x \in Promotion : promo'[x] = IF x = p THEN n ELSE promo[x]
    BY <2>1 DEF TypeOK
  <2>3. job' = job /\ writes' = writes
    BY <1>2 DEF RecordPromotion, RecordPromotionAgain, ExpirePromotion
  <2>4. \A x \in Promotion : Unwritten(x)'
    BY <2>1, <2>2, <2>3 DEF ConflictInv, Unwritten, Did
  <2>5. ASSUME NEW r \in Reviewer PROVE WritesOnce(job[r])'
    <3>1. WritesOnce(job[r]) /\ (job[r].pc = "cas" => job[r].on \in Promotion)
      BY JobTypes DEF ConflictInv, ClaimInv
    <3>2. job[r].pc = "cas" /\ promo'[job[r].on].status = "approved" => promo'[job[r].on] = promo[job[r].on]
      BY <2>1, <2>2, <3>1
    <3>. QED BY <2>3, <3>1, <3>2 DEF WritesOnce, Did
  <2>. QED BY <2>4, <2>5 DEF ConflictInv
<1>3. ASSUME NEW s \in Selector, NEW l \in Locator, NEW c \in DirectConfidence, DirectUpsert(s, l, c)
      PROVE  ConflictInv'
  <2>. DEFINE d == WriteOf(s, [version |-> active[s].version + 1, locator |-> l, confidence |-> c],
                           NoPromotion, "direct")
  <2>1. d.op = "direct" /\ d.by = NoPromotion /\ writes' = writes \cup {d} /\ UNCHANGED <<promo, job>>
    BY <1>3 DEF DirectUpsert, WriteOf
  <2>. HIDE DEF d
  <2>2. \A x, o : x \in Promotion => (Did(x, o)' <=> Did(x, o))
    BY <2>1, ConstantsAssumption DEF Did
  <2>3. \A r \in Reviewer : job[r].pc # "idle" => job[r].on \in Promotion
    BY JobTypes DEF ClaimInv
  <2>4. \A r \in Reviewer : WritesOnce(job[r])'
    BY <2>1, <2>2, <2>3 DEF ConflictInv, WritesOnce
  <2>5. \A x \in Promotion : Unwritten(x)'
    BY <2>1, <2>2 DEF ConflictInv, Unwritten
  <2>. QED BY <2>4, <2>5 DEF ConflictInv
<1>4. ASSUME NEW s \in Selector, DirectDelete(s) PROVE ConflictInv'
  BY <1>4, WritesOnceStay DEF DirectDelete
\* A step of r that changes neither a selector nor a promotion.
<1>5. ASSUME NEW r \in Reviewer, NEW k, Becomes(r, k), WritesOnce(k), UNCHANGED <<promo, writes>>
      PROVE  ConflictInv'
  BY <1>5, WritesOnceStay
<1>6. WritesOnce(IdleJob)
  BY DEF WritesOnce, IdleJob
<1>7. ASSUME NEW r \in Reviewer, NEW o \in Operation, NEW p \in Promotion, Load(r, o, p) PROVE ConflictInv'
  <2>1. PICK k : /\ Becomes(r, k) /\ k.pc = IF o = "reject" THEN "get" ELSE "read"
                 /\ k.expect = EntryStatus(o)
    BY <1>7, LoadEffect
  <2>2. WritesOnce(k)
    BY <2>1 DEF WritesOnce, EntryStatus
  <2>. QED BY <1>5, <1>7, <2>1, <2>2, LoadEffect
<1>8. ASSUME NEW r \in Reviewer, ReadActive(r) PROVE ConflictInv'
  <2>1. FrameOK(job[r])
    BY DEF ClaimInv, JobShape
  <2>2. job[r].expect # "approved"
    BY <1>8, <2>1, ReadEffect DEF FrameOK, EntryStatus
  <2>3. \A k : k.pc = "get" /\ k.expect = job[r].expect => WritesOnce(k)
    BY <2>2 DEF WritesOnce
  <2>. QED BY <1>5, <1>6, <1>8, <2>3, ReadEffect
<1>9. ASSUME NEW r \in Reviewer, TransitionGet(r) PROVE ConflictInv'
  <2>. DEFINE j == job[r]
              n == NextPromotion(j, promo[j.on])
  <2>1. /\ UNCHANGED <<promo, writes>> /\ j.pc = "get"
        /\ \/ Becomes(r, IdleJob)
           \/ /\ promo[j.on].status = j.expect
              /\ \E k : /\ Becomes(r, k) /\ SameTask(k, j) /\ k.pc = "cas"
                        /\ k.expect = j.expect /\ k.goal = j.goal /\ k.next = n
    BY <1>9, GetEffect
  <2>2. FrameOK(j) /\ WritesOnce(j) /\ j \in Job /\ j.on \in Promotion /\ promo[j.on] \in PromotionRecord
    BY <2>1, JobTypes DEF ClaimInv, JobShape, ConflictInv, TypeOK
  <2>3. j.goal # "applied" => n.applied = promo[j.on].applied
    BY <2>2, HelperTypes
  <2>4. ASSUME NEW k, SameTask(k, j), k.pc = "cas", k.expect = j.expect, k.goal = j.goal, k.next = n,
               promo[j.on].status = j.expect
        PROVE  WritesOnce(k)
    <3>1. /\ j.expect = "pending" => promo[j.on].applied = 0
          /\ j.expect = "applied" => promo[j.on].applied # 0
      BY <2>2, <2>4 DEF ClaimInv, AppliedShape
    <3>. HIDE DEF n
    <3>. QED BY <2>1, <2>2, <2>3, <2>4, <3>1 DEF WritesOnce, SameTask, FrameOK
  <2>. QED BY <1>5, <1>6, <2>1, <2>4
<1>10. ASSUME NEW r \in Reviewer, TransitionCas(r) PROVE ConflictInv'
  BY <1>10, CasKeepsConflicts
<1>11. ASSUME NEW r \in Reviewer, UpsertSelector(r) \/ UpsertReplyLost(r) \/ UpsertConflict(r)
       PROVE  ConflictInv'
  BY <1>11, UpsertKeepsConflicts
<1>12. ASSUME NEW r \in Reviewer, NEW times \in 1..2, RecordOutcome(r, times) PROVE ConflictInv'
  <2>1. \A k : k.pc = "audit" => WritesOnce(k)
    BY DEF WritesOnce
  <2>. QED BY <1>5, <1>12, <2>1, OutcomeEffect
<1>13. ASSUME NEW r \in Reviewer, WriteAudit(r) PROVE ConflictInv'
  BY <1>5, <1>6, <1>13, AuditEffect
<1>14. ASSUME NEW r \in Reviewer, TransitionCasRefused(r) \/ Fail(r) PROVE ConflictInv'
  BY <1>5, <1>6, <1>14, QuitEffect
<1>. QED
  BY <1>1, <1>2, <1>3, <1>4, <1>7, <1>8, <1>9, <1>10, <1>11, <1>12, <1>13, <1>14 DEF Next, Step

\* A promotion reported as a conflict wrote nothing in the operation that
\* conflicted, provided the client re-runs neither the upsert (whose lost reply
\* turns a success into a conflict) nor the write that records a promotion.
THEOREM ConflictsLeaveSelectors ==
    ASSUME "record" \notin BlindRetry, "upsert" \notin BlindRetry
    PROVE  Spec => []ConflictLeavesSelector
<1>1. Init => ConflictInv
  <2>. SUFFICES ASSUME Init PROVE ConflictInv
    OBVIOUS
  <2>1. \A w \in writes : w.by = NoPromotion
    BY DEF Init, WriteOf
  <2>2. \A p \in Promotion : promo[p].status = "unrecorded" /\ \A o : ~Did(p, o)
    BY <2>1, ConstantsAssumption DEF Init, Missing, Did
  <2>3. \A r \in Reviewer : job[r].pc = "idle"
    BY DEF Init, IdleJob
  <2>. QED BY <2>2, <2>3 DEF ConflictInv, Unwritten, WritesOnce
<1>2. ConflictInv => ConflictLeavesSelector
  BY DEF ConflictInv, Unwritten, ConflictLeavesSelector, Did
<1>3. TypeOK /\ TypeOK' /\ ClaimInv /\ ReportInv /\ ConflictInv /\ [Next]_vars => ReportInv' /\ ConflictInv'
  BY ReportStep, ConflictStep DEF RecordedOnce
<1>. QED BY <1>1, <1>2, <1>3, Invariance, InitReports, PTL DEF Spec

-----------------------------------------------------------------------------
(* Completeness of the trail.                                              *)

\* How often operation o of p was counted, and the reviewers about to count it.
Count(p, o)       == outcomes[p][OutcomeField(o)]
Counting(r, p, o) == job[r].on = p /\ job[r].op = o /\ job[r].pc = "outcome"
Settled(p, o)     == Count(p, o) # 0 \/ \E r \in Reviewer : Counting(r, p, o)
Audited(p, o, g)  == [promotion |-> p, action |-> o, status |-> g] \in audit

\* An operation is counted once, in a status that only it leads to.
CountsOnce(p) ==
    /\ \A o \in Operation :
          /\ Count(p, o) <= 1
          /\ \A r \in Reviewer : Counting(r, p, o) => Count(p, o) = 0
          /\ \A r, q \in Reviewer : Counting(r, p, o) /\ Counting(q, p, o) => r = q
    /\ Settled(p, "approve") => \/ promo[p].status \in {"applied", "rolled_back", "conflict", "expired"}
                                \/ promo[p].status = "approved" /\ promo[p].applied # 0
    /\ Settled(p, "reject") => promo[p].status \in {"rejected", "expired"}
    /\ Settled(p, "rollback") => promo[p].status \in {"rolled_back", "expired"}
    /\ ~(Settled(p, "approve") /\ Settled(p, "reject"))

\* The trail of operation o of p, which ended in g, is there or under way.
Leaves(p, o, g) ==
    \/ Count(p, o) >= 1 /\ Audited(p, o, g)
    \/ \E r \in Reviewer : /\ job[r].on = p /\ job[r].op = o /\ job[r].goal = g
                           /\ job[r].pc = "outcome" \/ (job[r].pc = "audit" /\ Count(p, o) >= 1)

LeavesConflict(p) ==
    \E o \in {"approve", "rollback"} :
        \/ Audited(p, o, "conflict")
        \/ \E r \in Reviewer : /\ job[r].on = p /\ job[r].op = o
                               /\ job[r].goal = "conflict" /\ job[r].pc = "audit"

LeavesTrail(p) ==
    /\ promo[p].status = "applied" => Leaves(p, "approve", "applied")
    /\ promo[p].status = "rejected" => Leaves(p, "reject", "rejected")
    /\ promo[p].status = "rolled_back" => Leaves(p, "rollback", "rolled_back")
    /\ promo[p].status = "conflict" => LeavesConflict(p)

TrailInv == \A p \in Promotion : CountsOnce(p) /\ (faults = 0 => LeavesTrail(p))

Reporting == {"outcome", "audit"}

\* A step that reports nothing; p may have been recorded or have expired in it.
LEMMA TrailStays ==
    ASSUME TrailInv, NEW p \in Promotion, UNCHANGED <<outcomes, audit>>,
           \/ promo'[p] = promo[p]
           \/ promo[p].status = "unrecorded" /\ promo'[p].status = "pending"
           \/ promo'[p].status = "expired",
           job' = job \/ \E r \in Reviewer : \E k : Becomes(r, k) /\ k.pc \notin Reporting
                                                 /\ (faults' = 0 => job[r].pc \notin Reporting),
           faults' = 0 => faults = 0
    PROVE  CountsOnce(p)' /\ (faults' = 0 => LeavesTrail(p)')
<1>1. \A o \in Operation : Count(p, o)' = Count(p, o)
  BY DEF Count
<1>2. \A o, r : r \in Reviewer /\ Counting(r, p, o)' => Counting(r, p, o)
  BY DEF Counting, Becomes, Reporting
<1>3. \A o \in Operation : Settled(p, o)' => Settled(p, o)
  BY <1>1, <1>2 DEF Settled
<1>4. CountsOnce(p)'
  <2>1. CountsOnce(p)
    BY DEF TrailInv
  <2>. QED BY <2>1, <1>1, <1>2, <1>3 DEF CountsOnce, Operation
<1>5. ASSUME faults' = 0 PROVE LeavesTrail(p)'
  <2>1. LeavesTrail(p)
    BY <1>5 DEF TrailInv
  <2>2. \A r \in Reviewer : job[r].pc \in Reporting => job'[r] = job[r]
    BY <1>5 DEF Becomes
  <2>3. \A o \in Operation : \A g : Leaves(p, o, g) => Leaves(p, o, g)'
    BY <1>1, <2>2 DEF Leaves, Audited, Reporting
  <2>4. LeavesConflict(p) => LeavesConflict(p)'
    BY <2>2 DEF LeavesConflict, Audited, Reporting
  <2>. QED BY <2>1, <2>3, <2>4 DEF LeavesTrail, Operation
<1>. QED BY <1>4, <1>5

LEMMA CasKeepsTrail ==
    ASSUME RecordedOnce, TypeOK, ClaimInv, ReportInv, TrailInv, NEW r \in Reviewer, TransitionCas(r)
    PROVE  TrailInv'
<1>. DEFINE j == job[r]
            p == job[r].on
<1>1. /\ UNCHANGED <<outcomes, audit, faults>> /\ j.pc = "cas" /\ p \in Promotion /\ FrameOK(j)
      /\ j.goal \in Goal /\ promo[p].status = j.expect
      /\ \A x \in Promotion : promo'[x] = IF x = p THEN j.next ELSE promo[x]
  BY CasEffect
<1>2. PICK k : Becomes(r, k) /\ SameTask(k, j) /\ k.pc = AfterTransition(j.goal) /\ k.goal = j.goal
  BY CasEffect
<1>3. ReportsTruly(j) /\ CountsOnce(p) /\ j.op \in Operation
  BY <1>1 DEF ReportInv, TrailInv, TypeOK, Job
<1>4. /\ j.next.status = j.goal
      /\ j.expect \in {"pending", "applied", "approved"}
      /\ j.goal = "approved" => j.expect = EntryStatus(j.op) /\ (j.op = "rollback" <=> j.next.applied # 0)
      /\ j.goal = "rejected" => j.expect = "pending"
      /\ j.goal \in {"applied", "rolled_back"} => j.expect = "approved"
      /\ j.expect = "approved" => (j.op = "rollback" <=> promo[p].applied # 0)
  BY <1>1 DEF FrameOK, ClaimInv, ClaimShape, Owns
<1>5. /\ k.pc = "outcome" => j.goal \in {"applied", "rejected", "rolled_back"} /\ j.goal = SettledStatus(j.op)
      /\ j.goal \in {"applied", "rejected", "rolled_back"} => k.pc = "outcome"
      /\ j.goal = "applied" => j.op = "approve"
      /\ j.goal = "rejected" => j.op = "reject"
      /\ j.goal = "rolled_back" => j.op = "rollback"
      /\ j.goal = "conflict" => k.pc = "audit" /\ j.op \in {"approve", "rollback"}
  BY <1>1, <1>2, <1>3 DEF AfterTransition, Goal, ReportsTruly, SettledStatus, Operation
<1>6. ASSUME NEW x \in Promotion PROVE CountsOnce(x)' /\ (faults' = 0 => LeavesTrail(x)')
  <2>1. \A o \in Operation : Count(x, o)' = Count(x, o)
    BY <1>1 DEF Count
  <2>2. \A q \in Reviewer, o \in Operation :
           Counting(q, x, o)' <=> Counting(q, x, o) \/ (q = r /\ x = p /\ o = j.op /\ k.pc = "outcome")
    BY <1>1, <1>2 DEF Counting, Becomes, SameTask
  <2>3. \A q \in Reviewer : job[q].pc \in Reporting => job'[q] = job[q]
    BY <1>1, <1>2 DEF Becomes, Reporting
  <2>4. CASE x # p
    <3>1. promo'[x] = promo[x] /\ CountsOnce(x) /\ (faults = 0 => LeavesTrail(x))
      BY <1>1, <2>4 DEF TrailInv
    <3>2. \A o \in Operation : Settled(x, o)' => Settled(x, o)
      BY <2>1, <2>2, <2>4 DEF Settled
    <3>3. CountsOnce(x)'
      BY <2>1, <2>2, <2>4, <3>1, <3>2 DEF CountsOnce, Operation
    <3>4. \A o \in Operation : \A g : Leaves(x, o, g) => Leaves(x, o, g)'
      BY <1>1, <2>1, <2>3 DEF Leaves, Audited, Reporting
    <3>5. LeavesConflict(x) => LeavesConflict(x)'
      BY <1>1, <2>3 DEF LeavesConflict, Audited, Reporting
    <3>6. faults = 0 => LeavesTrail(x)'
      BY <3>1, <3>4, <3>5 DEF LeavesTrail, Operation
    <3>. QED BY <1>1, <3>3, <3>6
  <2>5. CASE x = p
    <3>1. \A o \in Operation : Settled(x, o)' => Settled(x, o) \/ (o = j.op /\ k.pc = "outcome")
      BY <2>1, <2>2 DEF Settled
    \* The operation being counted was not counted before.
    <3>2. k.pc = "outcome" => ~Settled(x, j.op) /\ ~Settled(x, "reject") /\ (j.op = "reject" => ~Settled(x, "approve"))
      BY <1>1, <1>3, <1>4, <1>5, <2>5 DEF CountsOnce
    <3>3. k.pc = "outcome" => Count(x, j.op) = 0 /\ \A q \in Reviewer : ~Counting(q, x, j.op)
      BY <3>2 DEF Settled
    <3>4. promo'[x].status = j.goal /\ promo'[x].applied = j.next.applied
      BY <1>1, <1>4, <2>5
    <3>5. \A o \in Operation :
             /\ Count(x, o)' <= 1
             /\ \A q \in Reviewer : Counting(q, x, o)' => Count(x, o)' = 0
             /\ \A q, s \in Reviewer : Counting(q, x, o)' /\ Counting(s, x, o)' => q = s
      BY <1>3, <2>1, <2>2, <2>5, <3>3 DEF CountsOnce
    <3>6. Settled(x, "approve")' => \/ j.goal \in {"applied", "rolled_back", "conflict", "expired"}
                                    \/ j.goal = "approved" /\ j.next.applied # 0
      <4>1. CASE Settled(x, "approve")
        <5>1. promo[p].status = "applied" \/ (promo[p].status = "approved" /\ promo[p].applied # 0)
          BY <1>1, <1>3, <1>4, <2>5, <4>1 DEF CountsOnce
        <5>. QED BY <1>1, <1>4, <5>1 DEF Goal, EntryStatus
      <4>2. CASE j.op = "approve" /\ k.pc = "outcome"
        BY <1>5, <4>2 DEF SettledStatus
      <4>. QED BY <3>1, <4>1, <4>2 DEF Operation
    <3>7. /\ Settled(x, "reject")' => j.goal = "rejected"
          /\ Settled(x, "rollback")' => j.goal = "rolled_back"
      <4>1. ~Settled(x, "reject") /\ ~Settled(x, "rollback")
        BY <1>1, <1>3, <1>4, <2>5 DEF CountsOnce
      <4>. QED BY <1>5, <3>1, <4>1 DEF SettledStatus, Operation
    <3>8. ~(Settled(x, "approve")' /\ Settled(x, "reject")')
      <4>1. Settled(x, "reject")' => j.op = "reject" /\ k.pc = "outcome"
        BY <1>1, <1>3, <1>4, <2>5, <3>1 DEF CountsOnce, Operation
      <4>. QED BY <3>1, <3>2, <4>1 DEF Operation
    <3>9. CountsOnce(x)'
      BY <3>4, <3>5, <3>6, <3>7, <3>8 DEF CountsOnce
    <3>10. LeavesTrail(x)'
      <4>1. job'[r].on = x /\ job'[r].op = j.op /\ job'[r].goal = j.goal /\ job'[r].pc = k.pc
        BY <1>2, <2>5 DEF Becomes, SameTask
      <4>2. \A o, g : j.op = o /\ j.goal = g /\ k.pc = "outcome" => Leaves(x, o, g)'
        BY <4>1 DEF Leaves
      <4>3. j.goal = "conflict" => LeavesConflict(x)'
        BY <1>5, <4>1 DEF LeavesConflict
      <4>. QED BY <1>5, <3>4, <4>2, <4>3 DEF LeavesTrail
    <3>. QED BY <3>9, <3>10
  <2>. QED BY <2>4, <2>5
<1>. QED BY <1>6 DEF TrailInv

LEMMA OutcomeKeepsTrail ==
    ASSUME "merge" \notin BlindRetry, TypeOK, ClaimInv, ReportInv, TrailInv,
           NEW r \in Reviewer, NEW times \in 1..2, RecordOutcome(r, times)
    PROVE  TrailInv'
<1>. DEFINE j == job[r]
            p == job[r].on
<1>1. /\ UNCHANGED <<promo, audit>> /\ times = 1 /\ (faults' = 0 => faults = 0)
      /\ j.pc = "outcome" /\ p \in Promotion /\ j.op \in Operation
      /\ \A x \in Promotion, f \in {"promoted", "rejected", "rolledBack"} :
            outcomes'[x][f] = IF x = p /\ f = OutcomeField(j.op)
                              THEN outcomes[x][f] + 1 ELSE outcomes[x][f]
  <2>1. times = 1
    BY OutcomeEffect
  <2>. QED BY <2>1, OutcomeEffect
<1>2. PICK k : Becomes(r, k) /\ SameTask(k, j) /\ k.pc = "audit" /\ k.goal = j.goal
  BY OutcomeEffect
<1>3. ASSUME NEW x \in Promotion, NEW o \in Operation
      PROVE  /\ Count(x, o) \in Nat
             /\ Count(x, o)' = IF x = p /\ o = j.op THEN Count(x, o) + 1 ELSE Count(x, o)
  <2>1. OutcomeField(o) \in {"promoted", "rejected", "rolledBack"}
    BY DEF OutcomeField, Operation
  <2>2. OutcomeField(o) = OutcomeField(j.op) <=> o = j.op
    BY <1>1 DEF OutcomeField, Operation
  <2>. QED BY <1>1, <2>1, <2>2 DEF Count, TypeOK, Counters
<1>4. \A q \in Reviewer : \A x, o : Counting(q, x, o)' <=> Counting(q, x, o) /\ q # r
  BY <1>2 DEF Counting, Becomes
<1>5. Counting(r, p, j.op) /\ Count(p, j.op) = 0
  <2>1. Counting(r, p, j.op)
    BY <1>1 DEF Counting
  <2>. QED BY <1>1, <2>1 DEF TrailInv, CountsOnce
<1>6. ASSUME NEW x \in Promotion PROVE CountsOnce(x)' /\ (faults' = 0 => LeavesTrail(x)')
  <2>0. CountsOnce(x) /\ promo'[x] = promo[x]
    BY <1>1 DEF TrailInv
  <2>1. \A o \in Operation : Settled(x, o)' => Settled(x, o)
    BY <1>3, <1>4, <1>5 DEF Settled
  <2>2. \A o \in Operation :
           /\ Count(x, o)' <= 1
           /\ \A q \in Reviewer : Counting(q, x, o)' => Count(x, o)' = 0
           /\ \A q, s \in Reviewer : Counting(q, x, o)' /\ Counting(s, x, o)' => q = s
    BY <1>3, <1>4, <1>5, <2>0 DEF CountsOnce
  <2>3. CountsOnce(x)'
    BY <2>0, <2>1, <2>2 DEF CountsOnce, Operation
  <2>4. ASSUME faults' = 0 PROVE LeavesTrail(x)'
    <3>1. LeavesTrail(x)
      BY <1>1, <2>4 DEF TrailInv
    <3>2. ASSUME NEW o \in Operation, NEW g, Leaves(x, o, g) PROVE Leaves(x, o, g)'
      <4>1. Count(x, o) >= 1 => Count(x, o)' >= 1
        BY <1>3
      <4>2. CASE Count(x, o) >= 1 /\ Audited(x, o, g)
        BY <1>1, <4>1, <4>2 DEF Leaves, Audited
      <4>3. ASSUME NEW q \in Reviewer, job[q].on = x, job[q].op = o, job[q].goal = g,
                   job[q].pc = "outcome" \/ (job[q].pc = "audit" /\ Count(x, o) >= 1)
            PROVE  Leaves(x, o, g)'
        <5>1. CASE q = r
          <6>1. job'[q] = k /\ Count(x, o)' >= 1
            BY <1>1, <1>2, <1>3, <4>3, <5>1 DEF Becomes
          <6>. QED BY <1>2, <4>3, <5>1, <6>1 DEF Leaves, SameTask
        <5>2. CASE q # r
          <6>1. job'[q] = job[q]
            BY <1>2, <5>2 DEF Becomes
          <6>. QED BY <4>1, <4>3, <6>1 DEF Leaves
        <5>. QED BY <5>1, <5>2
      <4>. QED BY <3>2, <4>2, <4>3 DEF Leaves
    <3>3. LeavesConflict(x) => LeavesConflict(x)'
      <4>1. \A q \in Reviewer : job[q].pc = "audit" => job'[q] = job[q]
        BY <1>1, <1>2 DEF Becomes
      <4>. QED BY <1>1, <4>1 DEF LeavesConflict, Audited
    <3>. QED BY <2>0, <3>1, <3>2, <3>3 DEF LeavesTrail, Operation
  <2>. QED BY <2>3, <2>4
<1>. QED BY <1>6 DEF TrailInv

LEMMA AuditKeepsTrail ==
    ASSUME TypeOK, ClaimInv, TrailInv, NEW r \in Reviewer, WriteAudit(r)
    PROVE  TrailInv'
<1>1. /\ UNCHANGED <<promo, outcomes, faults>> /\ job[r].pc = "audit"
      /\ audit' = audit \cup {[promotion |-> job[r].on, action |-> job[r].op, status |-> job[r].goal]}
      /\ Becomes(r, IdleJob)
  BY AuditEffect
<1>2. \A p, o : Count(p, o)' = Count(p, o)
  BY <1>1 DEF Count
<1>3. \A q \in Reviewer : \A p, o : Counting(q, p, o)' <=> Counting(q, p, o)
  BY <1>1 DEF Counting, Becomes, IdleJob
<1>4. \A p, o : Settled(p, o)' <=> Settled(p, o)
  BY <1>2, <1>3 DEF Settled
<1>5. \A q \in Reviewer : q # r => job'[q] = job[q]
  BY <1>1 DEF Becomes
<1>6. \A p, o, g : /\ Audited(p, o, g) => Audited(p, o, g)'
                   /\ job[r].on = p /\ job[r].op = o /\ job[r].goal = g => Audited(p, o, g)'
  BY <1>1 DEF Audited
<1>7. ASSUME NEW p \in Promotion PROVE CountsOnce(p)' /\ (faults' = 0 => LeavesTrail(p)')
  <2>1. CountsOnce(p) /\ promo'[p] = promo[p] /\ (faults' = 0 => LeavesTrail(p))
    BY <1>1 DEF TrailInv
  <2>2. CountsOnce(p)'
    BY <1>2, <1>3, <1>4, <2>1 DEF CountsOnce
  <2>3. \A o, g : Leaves(p, o, g) => Leaves(p, o, g)'
    BY <1>1, <1>2, <1>5, <1>6 DEF Leaves
  <2>4. LeavesConflict(p) => LeavesConflict(p)'
    BY <1>1, <1>5, <1>6 DEF LeavesConflict
  <2>5. LeavesTrail(p) => LeavesTrail(p)'
    BY <2>1, <2>3, <2>4 DEF LeavesTrail
  <2>. QED BY <2>1, <2>2, <2>5
<1>. QED BY <1>7 DEF TrailInv

LEMMA TrailStep ==
    ASSUME RecordedOnce, "merge" \notin BlindRetry
    PROVE  TypeOK /\ ClaimInv /\ ReportInv /\ TrailInv /\ [Next]_vars => TrailInv'
<1>. SUFFICES ASSUME TypeOK, ClaimInv, ReportInv, TrailInv, [Next]_vars PROVE TrailInv'
  OBVIOUS
<1>. DEFINE Reported(q) == job[q].pc \in Reporting
\* A step that changes no promotion and reports nothing.
<1>1. ASSUME UNCHANGED <<promo, outcomes, audit>>, faults' = 0 => faults = 0,
             job' = job \/ \E r \in Reviewer : \E k : Becomes(r, k) /\ k.pc \notin Reporting
                                                   /\ (faults' = 0 => job[r].pc \notin Reporting)
      PROVE  TrailInv'
  BY <1>1, TrailStays DEF TrailInv
<1>2. IdleJob.pc \notin Reporting
  BY DEF IdleJob, Reporting
<1>3. CASE UNCHANGED vars
  BY <1>1, <1>3 DEF vars
<1>4. ASSUME NEW p \in Promotion, RecordPromotion(p) \/ RecordPromotionAgain(p) \/ ExpirePromotion(p)
      PROVE  TrailInv'
  <2>1. PICK n : /\ promo' = [promo EXCEPT ![p] = n]
                 /\ \/ n.status = "expired"
                    \/ promo[p].status = "unrecorded" /\ n.status = "pending"
    <3>1. CASE RecordPromotion(p)
      <4>1. PICK w \in writes : promo' = [promo EXCEPT ![p] = [Missing("pending") EXCEPT !.base = w.version]]
        BY <3>1 DEF RecordPromotion
      <4>2. [Missing("pending") EXCEPT !.base = w.version].status = "pending"
        BY DEF Missing
      <4>. QED BY <3>1, <4>1, <4>2 DEF RecordPromotion
    <3>2. CASE ExpirePromotion(p)
      <4>1. promo' = [promo EXCEPT ![p] = Missing("expired")]
        BY <3>2 DEF ExpirePromotion
      <4>2. Missing("expired").status = "expired"
        BY DEF Missing
      <4>. QED BY <4>1, <4>2
    <3>. QED BY <1>4, <3>1, <3>2 DEF RecordPromotionAgain, RecordedOnce
  <2>2. \A x \in Promotion : promo'[x] = IF x = p THEN n ELSE promo[x]
    BY <2>1 DEF TypeOK
  <2>3. UNCHANGED <<outcomes, audit, job, faults>>
    BY <1>4 DEF RecordPromotion, RecordPromotionAgain, ExpirePromotion, RecordedOnce
  <2>4. ASSUME NEW x \in Promotion PROVE CountsOnce(x)' /\ (faults' = 0 => LeavesTrail(x)')
    BY <2>1, <2>2, <2>3, TrailStays
  <2>. QED BY <2>4 DEF TrailInv
<1>5. ASSUME NEW s \in Selector, NEW l \in Locator, NEW c \in DirectConfidence, DirectUpsert(s, l, c)
      PROVE  TrailInv'
  BY <1>1, <1>5 DEF DirectUpsert
<1>6. ASSUME NEW s \in Selector, DirectDelete(s) PROVE TrailInv'
  BY <1>1, <1>6 DEF DirectDelete
<1>7. ASSUME NEW r \in Reviewer, NEW o \in Operation, NEW p \in Promotion, Load(r, o, p) PROVE TrailInv'
  <2>1. PICK k : Becomes(r, k) /\ k.pc = IF o = "reject" THEN "get" ELSE "read"
    BY <1>7, LoadEffect
  <2>2. k.pc \notin Reporting /\ job[r].pc = "idle"
    BY <1>7, <2>1 DEF Reporting, Load
  <2>. QED BY <1>1, <1>7, <2>1, <2>2, LoadEffect DEF Reporting
<1>8. ASSUME NEW r \in Reviewer, ReadActive(r) PROVE TrailInv'
  BY <1>1, <1>2, <1>8, ReadEffect DEF Reporting
<1>9. ASSUME NEW r \in Reviewer, TransitionGet(r) PROVE TrailInv'
  BY <1>1, <1>2, <1>9, GetEffect DEF Reporting
<1>10. ASSUME NEW r \in Reviewer, TransitionCas(r) PROVE TrailInv'
  BY <1>10, CasKeepsTrail
<1>11. ASSUME NEW r \in Reviewer, UpsertSelector(r) \/ UpsertReplyLost(r) \/ UpsertConflict(r)
       PROVE  TrailInv'
  <2>1. UNCHANGED <<promo, outcomes, audit>> /\ job[r].pc = "write"
    BY <1>11, UpsertEffect
  <2>2. \E k : Becomes(r, k) /\ k.pc = "get"
    BY <1>11, UpsertEffect
  <2>3. faults' = faults \/ faults' = faults + 1
    BY <1>11 DEF UpsertSelector, UpsertReplyLost, UpsertConflict
  <2>. QED BY <1>1, <2>1, <2>2, <2>3 DEF Reporting, TypeOK
<1>12. ASSUME NEW r \in Reviewer, NEW times \in 1..2, RecordOutcome(r, times) PROVE TrailInv'
  BY <1>12, OutcomeKeepsTrail
<1>13. ASSUME NEW r \in Reviewer, WriteAudit(r) PROVE TrailInv'
  BY <1>13, AuditKeepsTrail
<1>14. ASSUME NEW r \in Reviewer, TransitionCasRefused(r) \/ Fail(r) PROVE TrailInv'
  <2>1. TransitionCasRefused(r) => job[r].pc \notin Reporting
    BY DEF TransitionCasRefused, Reporting
  <2>. QED BY <1>1, <1>2, <1>14, <2>1, QuitEffect
<1>. QED
  BY <1>3, <1>4, <1>5, <1>6, <1>7, <1>8, <1>9, <1>10, <1>11, <1>12, <1>13, <1>14 DEF Next, Step

LEMMA InitTrail == Init => TrailInv
<1>. SUFFICES ASSUME Init PROVE TrailInv
  OBVIOUS
<1>1. \A r \in Reviewer : job[r].pc = "idle"
  BY DEF Init, IdleJob
<1>2. \A p \in Promotion, o \in Operation : Count(p, o) = 0 /\ ~Settled(p, o)
  BY <1>1 DEF Init, Count, OutcomeField, Operation, Settled, Counting
<1>3. \A p \in Promotion : promo[p].status = "unrecorded"
  BY DEF Init, Missing
<1>. QED BY <1>1, <1>2, <1>3 DEF TrailInv, CountsOnce, LeavesTrail, Counting, Operation

\* Each operation is counted at most once and none as both applied and rejected,
\* and where nothing has failed an operation that is over has left its status, its
\* counter and its audit record; provided the client re-runs neither the merge of
\* the counters nor the write that records a promotion.
THEOREM TrailsAreComplete ==
    ASSUME "record" \notin BlindRetry, "merge" \notin BlindRetry
    PROVE  Spec => []TrailIsComplete
<1>1. TypeOK /\ TrailInv => TrailIsComplete
  <2>. SUFFICES ASSUME TypeOK, TrailInv PROVE TrailIsComplete
    OBVIOUS
  <2>1. ASSUME NEW p \in Promotion
        PROVE  /\ outcomes[p].promoted + outcomes[p].rejected <= 1
               /\ outcomes[p].rolledBack <= 1
               /\ faults = 0 /\ (\A r \in Reviewer : job[r].on # p) =>
                   /\ promo[p].status = "applied" => outcomes[p].promoted = 1 /\ Audited(p, "approve", "applied")
                   /\ promo[p].status = "rejected" => outcomes[p].rejected = 1 /\ Audited(p, "reject", "rejected")
                   /\ promo[p].status = "rolled_back" => /\ outcomes[p].rolledBack = 1
                                                         /\ Audited(p, "rollback", "rolled_back")
                   /\ promo[p].status = "conflict" =>
                         \E o \in {"approve", "rollback"} : Audited(p, o, "conflict")
    <3>1. CountsOnce(p) /\ (faults = 0 => LeavesTrail(p))
      BY DEF TrailInv
    <3>2. /\ Count(p, "approve") = outcomes[p].promoted
          /\ Count(p, "reject") = outcomes[p].rejected
          /\ Count(p, "rollback") = outcomes[p].rolledBack
      BY DEF Count, OutcomeField
    <3>3. outcomes[p].promoted \in Nat /\ outcomes[p].rejected \in Nat /\ outcomes[p].rolledBack \in Nat
      BY DEF TypeOK, Counters
    <3>4. outcomes[p].promoted <= 1 /\ outcomes[p].rejected <= 1 /\ outcomes[p].rolledBack <= 1
      BY <3>1, <3>2 DEF CountsOnce, Operation
    <3>5. outcomes[p].promoted = 0 \/ outcomes[p].rejected = 0
      BY <3>1, <3>2 DEF CountsOnce, Settled
    <3>6. ASSUME \A r \in Reviewer : job[r].on # p
          PROVE  /\ \A o, g : Leaves(p, o, g) => Count(p, o) >= 1 /\ Audited(p, o, g)
                 /\ LeavesConflict(p) => \E o \in {"approve", "rollback"} : Audited(p, o, "conflict")
      BY <3>6 DEF Leaves, LeavesConflict
    <3>7. ASSUME faults = 0, \A r \in Reviewer : job[r].on # p
          PROVE  /\ promo[p].status = "applied" => Count(p, "approve") >= 1 /\ Audited(p, "approve", "applied")
                 /\ promo[p].status = "rejected" => Count(p, "reject") >= 1 /\ Audited(p, "reject", "rejected")
                 /\ promo[p].status = "rolled_back" => /\ Count(p, "rollback") >= 1
                                                       /\ Audited(p, "rollback", "rolled_back")
                 /\ promo[p].status = "conflict" =>
                       \E o \in {"approve", "rollback"} : Audited(p, o, "conflict")
      BY <3>1, <3>6, <3>7 DEF LeavesTrail
    <3>. QED BY <3>2, <3>3, <3>4, <3>5, <3>7
  <2>. QED BY <2>1 DEF TrailIsComplete, Audited
<1>2. TypeOK /\ TypeOK' /\ ClaimInv /\ ReportInv /\ TrailInv /\ [Next]_vars => ReportInv' /\ TrailInv'
  BY ReportStep, TrailStep DEF RecordedOnce
<1>. QED BY <1>1, <1>2, InitTrail, InitReports, Invariance, PTL DEF Spec
=============================================================================
