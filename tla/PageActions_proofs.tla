--------------------------- MODULE PageActions_proofs ---------------------------
(***************************************************************************)
(* Proofs about PageActions, for any number of overlapping calls, any      *)
(* operations and any self-healing configurations.                         *)
(***************************************************************************)
EXTENDS PageActions, FiniteSetTheorems, TLAPS

-----------------------------------------------------------------------------
(* The inductive invariant, frame by frame.                                *)

Early   == {"idle", "initializing", "acting"}
Healing == {"analysing", "validating", "healing", "observing", "proposing"}
Failing == Healing \cup {"screenshot", "writing"}

\* A ranking names a source at most once.
Ranking(q) == \/ q = <<>>
              \/ \E s \in Source : q = <<s>>
              \/ q \in {<<"registry", "suggested">>, <<"suggested", "registry">>}

Untouched(f) == /\ f.ranked = <<>> /\ f.accepted = NoSource /\ f.heal = "none"
                /\ f.observed = 0 /\ f.promotion = "none"

Retried(f) == f.heal \in {"succeeded", "failed"}

\* What holds of a call from its start to its end and after: nothing is spent on it
\* that its failure was not granted.
Granted(f) ==
    /\ f.sequence > 0 => config.mode # "off"
    /\ f.ranked # <<>> \/ f.heal # "none" \/ f.promotion # "none" => f.sequence > 0 /\ f.decision = "none"
    /\ f.artifact => f.sequence > 0 /\ f.decision # "original_error_only"
    /\ f.promotion \in {"succeeded", "failed"} => f.heal = "succeeded" /\ f.selector /\ f.accepted = "suggested"
    /\ Ranking(f.ranked)

\* What a retry presupposes.
Earned(f) ==
    /\ config.mode = "guarded" /\ f.decision = "none"
    /\ f.error \in {"own", "init"}
    /\ f.accepted \in f.visible
    /\ config.restricted => f.url = "listed"

\* Where a call is, and what it has got by then.
InPlace(f) ==
    /\ f.pc \in Early \cup {"opening"} =>
          Untouched(f) /\ f.sequence = 0 /\ f.decision = "none" /\ ~f.artifact /\ f.error = "none"
    /\ f.pc \in Early => f.status = "running"
    /\ f.pc = "opening" => f.status = "succeeded"
    /\ f.pc \in Failing =>
          /\ f.status = "running" /\ f.error \in {"own", "init"} /\ ~f.artifact
          /\ config.mode # "off" => f.sequence > 0
    /\ f.pc \in Healing => RunsHealing(f)
    /\ f.pc = "writing" => Captures(f)
    /\ f.pc \in {"screenshot", "analysing"} => Untouched(f)
    /\ f.pc \in {"validating", "healing"} =>
          config.mode = "guarded" /\ f.heal = "none" /\ f.observed = 0 /\ f.promotion = "none"
    /\ f.pc = "healing" => Earned(f)
    /\ f.pc \in Failing /\ Retried(f) => Earned(f)
    /\ f.pc \in {"observing", "proposing"} => f.promotion = "none"
    /\ f.pc = "observing" => f.observed < Len(f.ranked)
    /\ f.pc = "writing" /\ f.promotion \in {"succeeded", "failed"} =>
          f.ranked \in {<<"registry", "suggested">>, <<"suggested", "registry">>}
    /\ f.pc = "settled" => (f.status = "self_healed" <=> f.heal = "succeeded")

FrameOK(f) == f \in Frame /\ Granted(f) /\ InPlace(f)

\* A call waits for a run of initialize that exists, and acts after it.
WaitsOK(f) ==
    /\ f.pc \in {"initializing", "opening"} => f.awaits \in DOMAIN inits
    /\ f.pc = "acting" /\ f.op \in NeedsInit => initialized

\* Only the last run of initialize can be other than rejected, and the shared
\* promise stands for it as long as it runs.
InitOnce ==
    /\ promise \in {0, Len(inits)}
    /\ \A k \in DOMAIN inits :
          /\ k < Len(inits) => inits[k] = "rejected"
          /\ inits[k] = "running" => promise = k
          /\ inits[k] = "fulfilled" => initialized

\* Failures are numbered in the order they are counted, and the budget decides on
\* each by its number.
Numbered ==
    /\ budget.healing = budget.artifacts
    /\ \A a \in Action : act[a].sequence <= budget.healing
    /\ \A a, b \in Action : act[a].sequence = act[b].sequence /\ act[a].sequence > 0 => a = b
    /\ \A a \in Action : act[a].sequence > 0 /\ config.budget = "enforce" =>
          /\ act[a].decision = "none" <=>
                act[a].sequence <= config.maxHealing /\ act[a].sequence <= config.maxArtifacts
          /\ act[a].decision = "original_error_only" <=> act[a].sequence > config.maxArtifacts

Shape == /\ \A a \in Action : FrameOK(act[a]) /\ WaitsOK(act[a])
         /\ InitOnce

-----------------------------------------------------------------------------
(* What the steps of a call do to its frame.                               *)

SettledFrame(f) == [f EXCEPT !.pc = "settled", !.awaits = 0, !.url = "listed", !.ranked = <<>>,
                             !.visible = {}, !.healedOn = "listed", !.observed = 0]

\* The verdict on the failure of a call stays with it.
SameVerdict(g, f) == g.sequence = f.sequence /\ g.decision = f.decision

LEMMA SettledFrameOK ==
    ASSUME NEW f \in Frame, Granted(f), f.status = "self_healed" <=> f.heal = "succeeded"
    PROVE  /\ FrameOK(SettledFrame(f)) /\ SettledFrame(f).pc = "settled"
           /\ SettledFrame(f).status = f.status /\ SettledFrame(f).heal = f.heal
           /\ SettledFrame(f).accepted = f.accepted
           /\ SameVerdict(SettledFrame(f), f)
<1>. DEFINE g == SettledFrame(f)
<1>1. g \in Frame
  <2>1. \A q \in Seq(Source) :
           [f EXCEPT !.pc = "settled", !.awaits = 0, !.url = "listed", !.ranked = q,
                     !.visible = {}, !.healedOn = "listed", !.observed = 0] \in Frame
    BY DEF Frame, Host
  <2>2. <<>> \in Seq(Source)
    OBVIOUS
  <2>. QED BY <2>1, <2>2 DEF SettledFrame
<1>2. /\ g.pc = "settled" /\ SameVerdict(g, f) /\ g.ranked = <<>> /\ g.heal = f.heal
      /\ g.promotion = f.promotion /\ g.artifact = f.artifact /\ g.selector = f.selector
      /\ g.accepted = f.accepted /\ g.status = f.status
  BY DEF SettledFrame, Frame, SameVerdict
<1>. HIDE DEF g
<1>3. Granted(g)
  BY <1>2 DEF Granted, Ranking, SameVerdict
<1>4. InPlace(g)
  BY <1>2 DEF InPlace, Early, Failing, Healing
<1>. QED BY <1>1, <1>2, <1>3, <1>4 DEF FrameOK, g

Over == {"settled", "opening"}

\* The history of source s has the retry of a call in it, or will not get it any more.
Observed(f, s) ==
    /\ f.heal = "succeeded" /\ f.accepted = s
    /\ \/ f.pc = "observing" /\ \E i \in 1 .. f.observed : f.ranked[i] = s
       \/ f.pc \in {"proposing", "writing", "settled"}

\* A step takes call a to frame f: what it adds to the budget, to the counters and
\* to the history of the candidates.
Verdicts(a, f) ==
    \/ SameVerdict(f, act[a]) /\ budget' = budget
    \/ /\ act[a].sequence = 0
       /\ f.sequence = Verdict(budget).sequence /\ f.decision = Verdict(budget).decision
       /\ budget' = IF ConsumesBudget(config) THEN Consumed(budget, config) ELSE budget

Counts(a, f) ==
    \/ /\ act[a].pc \notin Over /\ f.pc \in Over /\ Counted(f)
       /\ f.status \in {"succeeded", "self_healed", "failed"}
       /\ f.status = "self_healed" <=> f.heal = "succeeded"
    \/ /\ UNCHANGED counters
       /\ \/ act[a].pc \notin Over /\ (f.pc \notin Over \/ f.status = "refused")
          \/ act[a].pc = "opening" /\ f.pc = "settled" /\ f.status = act[a].status

Records(a, f) ==
    \/ /\ UNCHANGED history
       /\ \A s : Observed(act[a], s) => Observed(f, s)
    \/ /\ act[a].pc = "observing"
       /\ Retried(act[a]) => act[a].accepted \in act[a].visible
       /\ \E s \in Source :
             /\ history' = [history EXCEPT ![s] = Observation(act[a], s, @)]
             /\ ~Observed(act[a], s)
             /\ \A t : Observed(act[a], t) => Observed(f, t)
             /\ act[a].heal = "succeeded" /\ act[a].accepted = s => Observed(f, s)

WaitsNext(f) ==
    /\ f.pc \in {"initializing", "opening"} => f.awaits \in DOMAIN inits'
    /\ f.pc = "acting" /\ f.op \in NeedsInit => initialized'

StepTo(a, f) ==
    /\ act' = [act EXCEPT ![a] = f]
    /\ FrameOK(f) /\ WaitsNext(f)
    /\ Verdicts(a, f) /\ Counts(a, f) /\ Records(a, f)

LEMMA SettleMoves ==
    ASSUME NEW a \in Action, NEW f \in Frame, Granted(f), Settle(a, f),
           f.status \in {"succeeded", "self_healed", "failed"},
           f.status = "self_healed" <=> f.heal = "succeeded",
           act[a].pc \notin Over
    PROVE  \E g : /\ act' = [act EXCEPT ![a] = g]
                  /\ FrameOK(g) /\ SameVerdict(g, f) /\ Counts(a, g) /\ g.pc = "settled"
                  /\ g.heal = f.heal /\ g.accepted = f.accepted
<1>. DEFINE g == SettledFrame(f)
<1>1. /\ FrameOK(g) /\ g.pc = "settled" /\ g.status = f.status /\ g.heal = f.heal
      /\ g.accepted = f.accepted /\ SameVerdict(g, f)
  BY SettledFrameOK
<1>2. act' = [act EXCEPT ![a] = g] /\ Counted(f)
  BY DEF Settle, Goes, SettledFrame
<1>. HIDE DEF g
<1>3. Counted(g)
  BY <1>1, <1>2 DEF Counted
<1>. QED BY <1>1, <1>2, <1>3 DEF Counts, Over

\* Frame g differs from f only in where the call is.
SameSpent(g, f) ==
    /\ SameVerdict(g, f) /\ g.op = f.op /\ g.selector = f.selector /\ g.awaits = f.awaits
    /\ g.error = f.error /\ g.url = f.url /\ g.ranked = f.ranked /\ g.visible = f.visible
    /\ g.accepted = f.accepted /\ g.heal = f.heal /\ g.observed = f.observed
    /\ g.promotion = f.promotion /\ g.artifact = f.artifact /\ g.status = f.status

Pc == {"idle", "initializing", "acting", "opening", "screenshot", "analysing", "validating",
       "healing", "observing", "proposing", "writing", "settled"}

LEMMA PcFrame ==
    ASSUME NEW f \in Frame, NEW x \in Pc
    PROVE  /\ [f EXCEPT !.pc = x] \in Frame
           /\ [f EXCEPT !.pc = x].pc = x
           /\ SameSpent([f EXCEPT !.pc = x], f)
BY DEF Frame, Pc, SameSpent, SameVerdict

\* A failure that was counted, before anything of the healing path was done for it.
FailedFrame(f) ==
    /\ f \in Frame /\ Granted(f) /\ Untouched(f)
    /\ f.status = "running" /\ f.error \in {"own", "init"} /\ ~f.artifact
    /\ config.mode # "off" => f.sequence > 0

LEMMA OnwardMoves ==
    ASSUME NEW a \in Action, NEW f, FailedFrame(f), Onward(a, f), act[a].pc \notin Over
    PROVE  \E g : /\ act' = [act EXCEPT ![a] = g]
                  /\ FrameOK(g) /\ SameVerdict(g, f) /\ Counts(a, g)
                  /\ g.pc \in {"analysing", "writing", "settled"}
<1>1. CASE Reject(a, f, "registry") \/ Reject(a, f, f.error)
  <2>1. PICK e \in {"registry", "own", "init"} : Settle(a, [f EXCEPT !.status = "failed", !.error = e])
    BY <1>1 DEF Reject, FailedFrame
  <2>. DEFINE h == [f EXCEPT !.status = "failed", !.error = e]
  <2>2. /\ h \in Frame /\ h.status = "failed" /\ SameVerdict(h, f) /\ h.heal = f.heal
        /\ h.ranked = f.ranked /\ h.observed = f.observed /\ h.promotion = f.promotion /\ h.artifact = f.artifact
        /\ h.selector = f.selector /\ h.accepted = f.accepted
    BY DEF FailedFrame, Frame, SameVerdict
  <2>3. Settle(a, h)
    BY <2>1
  <2>. HIDE DEF h
  <2>4. Granted(h)
    BY <2>2 DEF FailedFrame, Granted, SameVerdict, Ranking
  <2>5. h.heal = "none"
    BY <2>2 DEF FailedFrame, Untouched
  <2>. QED BY <2>2, <2>3, <2>4, <2>5, SettleMoves DEF SameVerdict
<1>2. ASSUME NEW x \in {"analysing", "writing"}, Goes(a, [f EXCEPT !.pc = x]), UNCHANGED counters,
             x = "analysing" => RunsHealing(f), x = "writing" => Captures(f)
      PROVE  \E g : /\ act' = [act EXCEPT ![a] = g]
                    /\ FrameOK(g) /\ SameVerdict(g, f) /\ Counts(a, g)
                    /\ g.pc = x
  <2>. DEFINE g == [f EXCEPT !.pc = x]
  <2>1. g \in Frame /\ g.pc = x /\ SameSpent(g, f)
    <3>1. f \in Frame /\ x \in Pc
      BY DEF FailedFrame, Pc
    <3>. QED BY <3>1, PcFrame
  <2>2. act' = [act EXCEPT ![a] = g]
    BY <1>2 DEF Goes
  <2>. HIDE DEF g
  <2>3. Granted(g)
    BY <2>1 DEF FailedFrame, Granted, SameSpent, SameVerdict, Ranking
  <2>4. InPlace(g)
    BY <1>2, <2>1 DEF FailedFrame, InPlace, SameSpent, SameVerdict, Untouched, Early, Failing, Healing,
                      RunsHealing, Captures, Retried
  <2>5. Counts(a, g)
    BY <1>2, <2>1 DEF Counts, Over
  <2>. QED BY <2>1, <2>2, <2>3, <2>4, <2>5 DEF FrameOK, SameSpent
<1>3. CASE Goes(a, [f EXCEPT !.pc = "analysing"]) /\ UNCHANGED counters /\ RunsHealing(f)
  BY <1>2, <1>3
<1>4. CASE Goes(a, [f EXCEPT !.pc = "writing"]) /\ UNCHANGED counters /\ Captures(f)
  BY <1>2, <1>4
<1>. QED BY <1>1, <1>3, <1>4 DEF Onward

LEMMA FailsMoves ==
    ASSUME TypeOK, NEW a \in Action, NEW f \in Frame, NEW e \in {"own", "init"}, Fails(a, f, e),
           act[a].pc \notin Over, act[a].sequence = 0, SameVerdict(f, act[a]),
           Granted(f), Untouched(f), f.status = "running", ~f.artifact
    PROVE  \E g : /\ act' = [act EXCEPT ![a] = g]
                  /\ FrameOK(g) /\ Verdicts(a, g) /\ Counts(a, g)
                  /\ g.pc \in {"screenshot", "analysing", "writing", "settled"}
<1>1. CASE Reject(a, f, "config") /\ UNCHANGED budget
  <2>. DEFINE h == [f EXCEPT !.status = "failed", !.error = "config"]
  <2>1. /\ h \in Frame /\ h.status = "failed" /\ SameVerdict(h, f) /\ h.heal = f.heal
        /\ h.ranked = f.ranked /\ h.observed = f.observed /\ h.promotion = f.promotion /\ h.artifact = f.artifact
        /\ h.selector = f.selector /\ h.accepted = f.accepted
    BY DEF Frame, SameVerdict
  <2>2. Settle(a, h)
    BY <1>1 DEF Reject
  <2>. HIDE DEF h
  <2>3. Granted(h)
    BY <2>1 DEF Granted, SameVerdict, Ranking
  <2>4. h.heal = "none"
    BY <2>1 DEF Untouched
  <2>5. PICK g : /\ act' = [act EXCEPT ![a] = g]
                 /\ FrameOK(g) /\ SameVerdict(g, h) /\ Counts(a, g) /\ g.pc = "settled"
    BY <2>1, <2>2, <2>3, <2>4, SettleMoves
  <2>. QED BY <1>1, <2>1, <2>5 DEF Verdicts, SameVerdict
<1>2. CASE ~Reject(a, f, "config") \/ ~UNCHANGED budget
  <2>. DEFINE v == Verdict(budget)
              g == [f EXCEPT !.error = e, !.url = host, !.sequence = v.sequence, !.decision = v.decision]
  <2>1. /\ v.sequence \in Nat /\ v.decision \in Downgrade
        /\ config.mode # "off" => v.sequence > 0
        /\ config.mode = "off" => v.sequence = 0
    BY DEF Verdict, ConsumesBudget, Decision, Downgrade, TypeOK, Budget
  <2>2. /\ budget' = IF ConsumesBudget(config) THEN Consumed(budget, config) ELSE budget
        /\ IF config.screenshot /\ (config.mode = "off" \/ RunsHealing(g))
           THEN Goes(a, [g EXCEPT !.pc = "screenshot"]) /\ UNCHANGED counters
           ELSE Onward(a, g)
    BY <1>2 DEF Fails
  <2>. HIDE DEF v
  <2>3. /\ g \in Frame /\ g.error = e /\ g.sequence = v.sequence /\ g.decision = v.decision
        /\ g.status = f.status /\ g.heal = f.heal /\ g.ranked = f.ranked /\ g.promotion = f.promotion
        /\ g.observed = f.observed
        /\ g.artifact = f.artifact /\ g.selector = f.selector /\ g.accepted = f.accepted
    BY <2>1 DEF Frame, TypeOK
  <2>. HIDE DEF g
  <2>4. Granted(g)
    BY <2>1, <2>3 DEF Granted, Untouched, Ranking
  <2>5. FailedFrame(g)
    BY <2>1, <2>3, <2>4 DEF FailedFrame, Untouched
  <2>6. ASSUME NEW h, SameVerdict(h, g) PROVE Verdicts(a, h)
    BY <2>2, <2>3, <2>6 DEF Verdicts, SameVerdict, v
  <2>7. CASE Onward(a, g)
    BY <2>5, <2>6, <2>7, OnwardMoves
  <2>8. CASE Goes(a, [g EXCEPT !.pc = "screenshot"]) /\ UNCHANGED counters
    <3>. DEFINE h == [g EXCEPT !.pc = "screenshot"]
    <3>1. h \in Frame /\ h.pc = "screenshot" /\ SameSpent(h, g)
      <4>1. "screenshot" \in Pc
        BY DEF Pc
      <4>. QED BY <2>3, <4>1, PcFrame
    <3>2. act' = [act EXCEPT ![a] = h]
      BY <2>8 DEF Goes
    <3>. HIDE DEF h
    <3>3. Granted(h)
      BY <2>4, <3>1 DEF Granted, SameSpent, SameVerdict, Ranking
    <3>4. InPlace(h)
      BY <2>5, <3>1 DEF FailedFrame, InPlace, SameSpent, SameVerdict, Untouched, Early, Failing, Healing,
                        Retried
    <3>5. Counts(a, h)
      BY <2>8, <3>1 DEF Counts, Over
    <3>. QED BY <2>6, <3>1, <3>2, <3>3, <3>4, <3>5 DEF FrameOK, SameSpent
  <2>. QED BY <2>2, <2>7, <2>8
<1>. QED BY <1>1, <1>2 DEF Fails

-----------------------------------------------------------------------------
(* The calls, action by action.                                            *)

\* A field of a frame may take any value of its type.
LEMMA FrameFields ==
    ASSUME NEW f \in Frame
    PROVE  /\ \A x \in Pc : [f EXCEPT !.pc = x] \in Frame
           /\ \A x \in AllOperations : [f EXCEPT !.op = x] \in Frame
           /\ \A x \in {"none", "own", "init", "config", "registry", "input"} : [f EXCEPT !.error = x] \in Frame
           /\ \A x \in Seq(Source) : [f EXCEPT !.ranked = x] \in Frame
           /\ \A x \in SUBSET Source : [f EXCEPT !.visible = x] \in Frame
           /\ \A x \in Source \cup {NoSource} : [f EXCEPT !.accepted = x] \in Frame
           /\ \A x \in {"none", "skipped", "succeeded", "failed"} :
                 [f EXCEPT !.heal = x] \in Frame /\ [f EXCEPT !.promotion = x] \in Frame
           /\ \A x \in Host : [f EXCEPT !.healedOn = x] \in Frame
           /\ \A x \in Nat : [f EXCEPT !.awaits = x] \in Frame /\ [f EXCEPT !.observed = x] \in Frame
           /\ \A x \in BOOLEAN : [f EXCEPT !.artifact = x] \in Frame
           /\ \A x \in {"running", "refused", "succeeded", "self_healed", "failed"} :
                 [f EXCEPT !.status = x] \in Frame
<1>1. \A x \in Pc : [f EXCEPT !.pc = x] \in Frame
  BY DEF Frame, Pc
<1>2. \A x \in AllOperations : [f EXCEPT !.op = x] \in Frame
  BY DEF Frame
<1>3. \A x \in {"none", "own", "init", "config", "registry", "input"} : [f EXCEPT !.error = x] \in Frame
  BY DEF Frame
<1>4. \A x \in Seq(Source) : [f EXCEPT !.ranked = x] \in Frame
  BY DEF Frame
<1>5. \A x \in SUBSET Source : [f EXCEPT !.visible = x] \in Frame
  BY DEF Frame
<1>6. \A x \in Source \cup {NoSource} : [f EXCEPT !.accepted = x] \in Frame
  BY DEF Frame
<1>7. \A x \in {"none", "skipped", "succeeded", "failed"} : [f EXCEPT !.heal = x] \in Frame
  BY DEF Frame
<1>8. \A x \in {"none", "skipped", "succeeded", "failed"} : [f EXCEPT !.promotion = x] \in Frame
  BY DEF Frame
<1>9. \A x \in Host : [f EXCEPT !.healedOn = x] \in Frame
  BY DEF Frame
<1>10. \A x \in Nat : [f EXCEPT !.awaits = x] \in Frame
  BY DEF Frame
<1>11. \A x \in Nat : [f EXCEPT !.observed = x] \in Frame
  BY DEF Frame
<1>12. \A x \in BOOLEAN : [f EXCEPT !.artifact = x] \in Frame
  BY DEF Frame
<1>13. \A x \in {"running", "refused", "succeeded", "self_healed", "failed"} : [f EXCEPT !.status = x] \in Frame
  BY DEF Frame
<1>. QED BY <1>1, <1>2, <1>3, <1>4, <1>5, <1>6, <1>7, <1>8, <1>9, <1>10, <1>11, <1>12, <1>13

LEMMA IdleFrame == Idle \in Frame
<1>1. \A q \in Seq(Source) :
         [pc |-> "idle", op |-> "none", selector |-> FALSE, awaits |-> 0, error |-> "none",
          url |-> "listed", sequence |-> 0, decision |-> "none", ranked |-> q,
          visible |-> {}, accepted |-> NoSource, heal |-> "none", healedOn |-> "listed",
          observed |-> 0, promotion |-> "none", artifact |-> FALSE, status |-> "running"] \in Frame
  BY DEF Frame, Host, Downgrade
<1>2. <<>> \in Seq(Source)
  OBVIOUS
<1>. QED BY <1>1, <1>2 DEF Idle

\* A frame before the first failure of its call.
FreshFrame(f) ==
    /\ f \in Frame /\ Untouched(f) /\ f.sequence = 0 /\ f.decision = "none"
    /\ ~f.artifact /\ f.error = "none"

LEMMA FreshFrameOK ==
    ASSUME NEW f, FreshFrame(f), f.pc \in Early \cup Over,
           f.pc \in Early => f.status = "running",
           f.pc \in Over => f.status = "succeeded"
    PROVE  FrameOK(f)
<1>1. Granted(f)
  BY DEF Granted, FreshFrame, Untouched, Ranking
<1>2. InPlace(f)
  BY DEF InPlace, FreshFrame, Untouched, Early, Failing, Healing, Over, Retried
<1>. QED BY <1>1, <1>2 DEF FrameOK, FreshFrame

\* The call goes on at once, or waits for a run of initialize that exists.
LEMMA EnsureMoves ==
    ASSUME NEW a \in Action, NEW f \in Frame, NEW ready \in Pc, EnsureInitialized(a, f, ready),
           inits \in Seq({"running", "fulfilled", "rejected"}), promise \in 0 .. Len(inits)
    PROVE  \E g \in Frame :
              /\ act' = [act EXCEPT ![a] = g]
              /\ SameVerdict(g, f) /\ g.op = f.op /\ g.selector = f.selector /\ g.error = f.error
              /\ g.ranked = f.ranked /\ g.accepted = f.accepted /\ g.heal = f.heal
              /\ g.observed = f.observed /\ g.promotion = f.promotion /\ g.artifact = f.artifact
              /\ g.status = f.status
              /\ \/ g.pc = ready /\ initialized
                 \/ g.pc = f.pc /\ g.awaits \in DOMAIN inits'
<1>1. CASE initialized /\ Goes(a, [f EXCEPT !.pc = ready])
  <2>. DEFINE g == [f EXCEPT !.pc = ready]
  <2>1. g \in Frame /\ g.pc = ready /\ SameSpent(g, f)
    BY PcFrame
  <2>2. act' = [act EXCEPT ![a] = g]
    BY <1>1 DEF Goes
  <2>. HIDE DEF g
  <2>. QED BY <1>1, <2>1, <2>2 DEF SameSpent
<1>2. ASSUME NEW k \in DOMAIN inits', k \in Nat, Goes(a, [f EXCEPT !.awaits = k])
      PROVE  \E g \in Frame :
                /\ act' = [act EXCEPT ![a] = g]
                /\ SameVerdict(g, f) /\ g.op = f.op /\ g.selector = f.selector /\ g.error = f.error
                /\ g.ranked = f.ranked /\ g.accepted = f.accepted /\ g.heal = f.heal
                /\ g.observed = f.observed /\ g.promotion = f.promotion /\ g.artifact = f.artifact
                /\ g.status = f.status
                /\ g.pc = f.pc /\ g.awaits \in DOMAIN inits'
  <2>. DEFINE g == [f EXCEPT !.awaits = k]
  <2>1. /\ g \in Frame /\ g.pc = f.pc /\ g.awaits = k
        /\ SameVerdict(g, f) /\ g.op = f.op /\ g.selector = f.selector /\ g.error = f.error
        /\ g.ranked = f.ranked /\ g.accepted = f.accepted /\ g.heal = f.heal
        /\ g.observed = f.observed /\ g.promotion = f.promotion /\ g.artifact = f.artifact
        /\ g.status = f.status
    BY <1>2 DEF Frame, SameVerdict
  <2>2. act' = [act EXCEPT ![a] = g]
    BY <1>2 DEF Goes
  <2>. HIDE DEF g
  <2>. QED BY <1>2, <2>1, <2>2
<1>3. CASE promise # 0 /\ Goes(a, [f EXCEPT !.awaits = promise]) /\ UNCHANGED inits
  <2>1. promise \in DOMAIN inits' /\ promise \in Nat
    BY <1>3
  <2>. QED BY <1>2, <1>3, <2>1
<1>4. CASE /\ inits' = Append(inits, "running") /\ promise' = Len(inits')
           /\ Goes(a, [f EXCEPT !.awaits = promise'])
  <2>1. Len(inits') \in DOMAIN inits' /\ Len(inits') \in Nat
    BY <1>4
  <2>. QED BY <1>2, <1>4, <2>1
<1>. QED BY <1>1, <1>3, <1>4 DEF EnsureInitialized

LEMMA StartMoves ==
    ASSUME TypeOK, Shape, NEW a \in Action, Start(a)
    PROVE  \E f : StepTo(a, f)
<1>1. PICK op \in Operations, selector \in BOOLEAN :
         LET f == [Idle EXCEPT !.op = op, !.selector = selector] IN
             \/ op \in NeedsInit /\ EnsureInitialized(a, [f EXCEPT !.pc = "initializing"], "acting")
             \/ op \notin NeedsInit /\ Goes(a, [f EXCEPT !.pc = "acting"])
  BY DEF Start
<1>. DEFINE f == [Idle EXCEPT !.op = op, !.selector = selector]
            h(x) == [f EXCEPT !.pc = x]
<1>2. ASSUME NEW x \in Pc
      PROVE  /\ FreshFrame(h(x)) /\ h(x).pc = x /\ h(x).op = op /\ h(x).status = "running"
  <2>1. op \in AllOperations
    BY ConstantsAssumption
  <2>2. f \in Frame /\ f.op = op
    BY <2>1, IdleFrame DEF Frame
  <2>3. FreshFrame(f) /\ f.status = "running"
    BY <2>2 DEF FreshFrame, Idle, Untouched, NoSource
  <2>. HIDE DEF f
  <2>4. h(x) \in Frame /\ h(x).pc = x /\ SameSpent(h(x), f)
    BY <2>2, PcFrame
  <2>. HIDE DEF h
  <2>. QED BY <2>2, <2>3, <2>4 DEF SameSpent, SameVerdict, FreshFrame, Untouched
<1>3. \/ op \in NeedsInit /\ EnsureInitialized(a, h("initializing"), "acting")
      \/ op \notin NeedsInit /\ Goes(a, h("acting"))
  BY <1>1
<1>4. /\ act[a].pc = "idle" /\ UNCHANGED <<config, initialized, budget, counters, history>>
      /\ \A s : ~Observed(act[a], s)
      /\ act[a].sequence = 0 /\ act[a].decision = "none"
  BY DEF Start, Is, Shape, FrameOK, InPlace, Early, Untouched, Observed
<1>. HIDE DEF h
<1>5. ASSUME NEW g, act' = [act EXCEPT ![a] = g], FreshFrame(g), g.status = "running",
             \/ g.pc = "initializing" /\ g.awaits \in DOMAIN inits'
             \/ g.pc = "acting" /\ (g.op \in NeedsInit => initialized)
      PROVE  StepTo(a, g)
  <2>1. FrameOK(g)
    BY <1>5, FreshFrameOK DEF Early, Over
  <2>2. WaitsNext(g)
    BY <1>4, <1>5 DEF WaitsNext
  <2>3. Verdicts(a, g)
    BY <1>4, <1>5 DEF Verdicts, SameVerdict, FreshFrame
  <2>4. Counts(a, g) /\ Records(a, g)
    BY <1>4, <1>5 DEF Counts, Records, Over
  <2>. QED BY <1>5, <2>1, <2>2, <2>3, <2>4 DEF StepTo
<1>6. "initializing" \in Pc /\ "acting" \in Pc
  BY DEF Pc
<1>7. CASE op \in NeedsInit /\ EnsureInitialized(a, h("initializing"), "acting")
  <2>1. FreshFrame(h("initializing")) /\ h("initializing").pc = "initializing"
        /\ h("initializing").status = "running"
    BY <1>2, <1>6
  <2>2. PICK g \in Frame :
           /\ act' = [act EXCEPT ![a] = g]
           /\ SameVerdict(g, h("initializing")) /\ g.error = h("initializing").error
           /\ g.ranked = h("initializing").ranked /\ g.accepted = h("initializing").accepted
           /\ g.heal = h("initializing").heal /\ g.observed = h("initializing").observed
           /\ g.promotion = h("initializing").promotion /\ g.artifact = h("initializing").artifact
           /\ g.status = h("initializing").status
           /\ \/ g.pc = "acting" /\ initialized
              \/ g.pc = h("initializing").pc /\ g.awaits \in DOMAIN inits'
    BY <1>6, <1>7, <2>1, EnsureMoves DEF TypeOK, FreshFrame
  <2>3. FreshFrame(g) /\ g.status = "running"
    BY <2>1, <2>2 DEF FreshFrame, Untouched, SameVerdict
  <2>. QED BY <1>5, <2>1, <2>2, <2>3
<1>8. CASE op \notin NeedsInit /\ Goes(a, h("acting"))
  <2>1. act' = [act EXCEPT ![a] = h("acting")]
    BY <1>8 DEF Goes
  <2>. QED BY <1>2, <1>5, <1>6, <1>8, <2>1
<1>. QED BY <1>3, <1>7, <1>8

LEMMA RefuseMoves ==
    ASSUME TypeOK, Shape, NEW a \in Action, Refuse(a)
    PROVE  \E f : StepTo(a, f)
<1>1. PICK op \in Operations :
         Goes(a, [Idle EXCEPT !.pc = "settled", !.op = op, !.error = "input", !.status = "refused"])
  BY DEF Refuse
<1>. DEFINE f == [Idle EXCEPT !.pc = "settled", !.op = op, !.error = "input", !.status = "refused"]
<1>2. /\ f \in Frame /\ f.pc = "settled" /\ f.status = "refused" /\ f.heal = "none"
      /\ f.sequence = 0 /\ f.decision = "none" /\ ~f.artifact /\ f.promotion = "none"
      /\ f.ranked = <<>>
  <2>1. op \in AllOperations
    BY ConstantsAssumption
  <2>2. [Idle EXCEPT !.pc = "settled"] \in Frame
    BY IdleFrame, FrameFields DEF Pc
  <2>3. [Idle EXCEPT !.pc = "settled", !.op = op] \in Frame
    BY <2>1, <2>2, FrameFields
  <2>4. [Idle EXCEPT !.pc = "settled", !.op = op, !.error = "input"] \in Frame
    BY <2>3, FrameFields
  <2>5. f \in Frame
    BY <2>4, FrameFields
  <2>. QED BY <2>5 DEF Idle
<1>3. act' = [act EXCEPT ![a] = f]
  BY <1>1 DEF Goes
<1>. HIDE DEF f
<1>4. /\ act[a].pc = "idle" /\ UNCHANGED <<budget, counters, history>>
      /\ \A s : ~Observed(act[a], s)
      /\ act[a].sequence = 0 /\ act[a].decision = "none"
  BY DEF Refuse, Is, Shape, FrameOK, InPlace, Early, Untouched, Observed
<1>5. Granted(f) /\ InPlace(f)
  BY <1>2 DEF Granted, InPlace, Ranking, Early, Failing, Healing, Retried
<1>6. WaitsNext(f) /\ Verdicts(a, f) /\ Counts(a, f) /\ Records(a, f)
  BY <1>2, <1>4 DEF WaitsNext, Verdicts, SameVerdict, Counts, Records, Over
<1>. QED BY <1>2, <1>3, <1>5, <1>6 DEF StepTo, FrameOK

\* Until a retry was made the history holds nothing of the call.
LEMMA QuietRecords ==
    ASSUME NEW a \in Action, NEW f, FrameOK(act[a]), UNCHANGED history,
           act[a].pc \in Early \cup {"opening", "screenshot", "analysing", "validating", "healing"}
    PROVE  Records(a, f)
<1>1. act[a].heal = "none"
  BY DEF FrameOK, InPlace, Untouched, Early
<1>. QED BY <1>1 DEF Records, Observed

LEMMA ResumeMoves ==
    ASSUME TypeOK, Shape, NEW a \in Action, Resume(a)
    PROVE  \E f : StepTo(a, f)
<1>. DEFINE j == act[a]
            f == [j EXCEPT !.awaits = 0]
<1>1. /\ j \in Frame /\ FrameOK(j) /\ j.pc = "initializing" /\ j.awaits \in DOMAIN inits
      /\ FreshFrame(j) /\ j.status = "running"
  BY DEF Resume, Is, Shape, FrameOK, InPlace, Early, WaitsOK, FreshFrame
<1>2. /\ f \in Frame /\ f.status = "running" /\ f.op = j.op /\ SameVerdict(f, j) /\ FreshFrame(f)
  <2>1. f \in Frame
    BY <1>1, FrameFields
  <2>. QED BY <1>1, <2>1 DEF Frame, SameVerdict, FreshFrame, Untouched
<1>3. UNCHANGED <<config, initialized, inits, history>>
  BY DEF Resume
<1>4. \A g : Records(a, g)
  BY <1>1, <1>3, QuietRecords DEF Early
<1>5. \/ inits[j.awaits] = "fulfilled" /\ Goes(a, [f EXCEPT !.pc = "acting"]) /\ UNCHANGED <<budget, counters>>
      \/ Fails(a, f, "init")
  BY DEF Resume
<1>. HIDE DEF f
<1>6. CASE inits[j.awaits] = "fulfilled" /\ Goes(a, [f EXCEPT !.pc = "acting"])
           /\ UNCHANGED <<budget, counters>>
  <2>. DEFINE g == [f EXCEPT !.pc = "acting"]
  <2>1. g \in Frame /\ g.pc = "acting" /\ SameSpent(g, f)
    <3>1. "acting" \in Pc
      BY DEF Pc
    <3>. QED BY <1>2, <3>1, PcFrame
  <2>2. act' = [act EXCEPT ![a] = g]
    BY <1>6 DEF Goes
  <2>. HIDE DEF g
  <2>3. FreshFrame(g) /\ g.status = "running"
    BY <1>2, <2>1 DEF SameSpent, SameVerdict, FreshFrame, Untouched
  <2>4. FrameOK(g)
    BY <2>1, <2>3, FreshFrameOK DEF Early, Over
  <2>5. initialized' /\ WaitsNext(g)
    BY <1>1, <1>3, <1>6, <2>1 DEF Shape, InitOnce, WaitsNext
  <2>6. Verdicts(a, g) /\ Counts(a, g)
    BY <1>1, <1>2, <1>6, <2>1 DEF Verdicts, SameSpent, SameVerdict, Counts, Over
  <2>. QED BY <1>4, <2>2, <2>4, <2>5, <2>6 DEF StepTo
<1>7. CASE Fails(a, f, "init")
  <2>1. Granted(f) /\ ~f.artifact /\ Untouched(f)
    BY <1>2 DEF FreshFrame, Granted, Untouched, Ranking
  <2>2. PICK g : /\ act' = [act EXCEPT ![a] = g]
                 /\ FrameOK(g) /\ Verdicts(a, g) /\ Counts(a, g)
                 /\ g.pc \in {"screenshot", "analysing", "writing", "settled"}
    BY <1>1, <1>2, <1>7, <2>1, FailsMoves DEF Over, FreshFrame
  <2>. QED BY <1>4, <2>2 DEF StepTo, WaitsNext
<1>. QED BY <1>5, <1>6, <1>7

LEMMA ActionFailsMoves ==
    ASSUME TypeOK, Shape, NEW a \in Action, ActionFails(a)
    PROVE  \E f : StepTo(a, f)
<1>. DEFINE f == act[a]
<1>1. /\ f \in Frame /\ FrameOK(f) /\ f.pc = "acting" /\ FreshFrame(f) /\ f.status = "running"
  BY DEF ActionFails, Is, Shape, FrameOK, InPlace, Early, FreshFrame
<1>2. Granted(f) /\ ~f.artifact /\ Untouched(f) /\ SameVerdict(f, act[a])
  BY <1>1 DEF FrameOK, FreshFrame, SameVerdict
<1>3. PICK g : /\ act' = [act EXCEPT ![a] = g]
               /\ FrameOK(g) /\ Verdicts(a, g) /\ Counts(a, g)
               /\ g.pc \in {"screenshot", "analysing", "writing", "settled"}
  BY <1>1, <1>2, FailsMoves DEF Over, FreshFrame, ActionFails
<1>4. Records(a, g)
  BY <1>1, QuietRecords DEF ActionFails, Early
<1>. QED BY <1>3, <1>4 DEF StepTo, WaitsNext

LEMMA ResumeOpenMoves ==
    ASSUME TypeOK, Shape, NEW a \in Action, ResumeOpen(a)
    PROVE  \E f : StepTo(a, f)
<1>. DEFINE j == act[a]
<1>1. /\ j \in Frame /\ FrameOK(j) /\ j.pc = "opening" /\ FreshFrame(j) /\ j.status = "succeeded"
  BY DEF ResumeOpen, Is, Shape, FrameOK, InPlace, FreshFrame
<1>2. PICK g : /\ act' = [act EXCEPT ![a] = g] /\ g \in Frame
               /\ g.pc = "settled" /\ g.status = "succeeded" /\ g.heal = j.heal /\ SameVerdict(g, j)
               /\ g.ranked = j.ranked /\ g.promotion = j.promotion /\ g.artifact = j.artifact
  <2>. DEFINE h == [j EXCEPT !.pc = "settled", !.awaits = 0]
              k == [j EXCEPT !.pc = "settled", !.awaits = 0, !.error = "init"]
  <2>1. act' = [act EXCEPT ![a] = h] \/ act' = [act EXCEPT ![a] = k]
    BY DEF ResumeOpen, Goes
  <2>2. h \in Frame
    <3>1. [j EXCEPT !.pc = "settled"] \in Frame
      BY <1>1, FrameFields DEF Pc
    <3>. QED BY <3>1, FrameFields
  <2>3. k \in Frame
    BY <2>2, FrameFields
  <2>4. /\ h.pc = "settled" /\ h.status = "succeeded" /\ h.heal = j.heal /\ SameVerdict(h, j)
        /\ h.ranked = j.ranked /\ h.promotion = j.promotion /\ h.artifact = j.artifact
    BY <1>1 DEF Frame, SameVerdict
  <2>5. /\ k.pc = "settled" /\ k.status = "succeeded" /\ k.heal = j.heal /\ SameVerdict(k, j)
        /\ k.ranked = j.ranked /\ k.promotion = j.promotion /\ k.artifact = j.artifact
    BY <1>1 DEF Frame, SameVerdict
  <2>. HIDE DEF h, k
  <2>. QED BY <2>1, <2>2, <2>3, <2>4, <2>5
<1>3. Granted(g) /\ InPlace(g)
  BY <1>1, <1>2 DEF FreshFrame, Untouched, SameVerdict, Granted, InPlace, Ranking, Early, Failing, Healing
<1>4. Records(a, g)
  BY <1>1, QuietRecords DEF ResumeOpen
<1>5. Verdicts(a, g) /\ Counts(a, g) /\ WaitsNext(g)
  BY <1>1, <1>2 DEF ResumeOpen, Verdicts, Counts, WaitsNext
<1>. QED BY <1>2, <1>3, <1>4, <1>5 DEF StepTo, FrameOK

LEMMA SucceedsMoves ==
    ASSUME TypeOK, Shape, NEW a \in Action, Succeeds(a)
    PROVE  \E f : StepTo(a, f)
<1>. DEFINE j == act[a]
            f == [j EXCEPT !.status = "succeeded"]
            h == [f EXCEPT !.pc = "opening"]
<1>1. j \in Frame /\ FrameOK(j) /\ j.pc = "acting" /\ FreshFrame(j)
  BY DEF Succeeds, Is, Shape, FrameOK, InPlace, Early, FreshFrame
<1>2. /\ f \in Frame /\ f.status = "succeeded" /\ SameVerdict(f, j) /\ FreshFrame(f)
  <2>1. f \in Frame
    BY <1>1, FrameFields
  <2>. QED BY <1>1, <2>1 DEF Frame, SameVerdict, FreshFrame, Untouched
<1>3. \/ EnsureInitialized(a, h, "settled") /\ Counted(f)
      \/ Settle(a, f)
  BY DEF Succeeds
<1>4. \A g : Records(a, g)
  BY <1>1, QuietRecords DEF Early, Succeeds
<1>5. UNCHANGED <<config, initialized, budget>>
  BY DEF Succeeds
<1>. HIDE DEF f
<1>6. CASE Settle(a, f)
  <2>1. Granted(f) /\ f.heal = "none"
    BY <1>2 DEF FreshFrame, Granted, Untouched, Ranking
  <2>2. PICK g : /\ act' = [act EXCEPT ![a] = g]
                 /\ FrameOK(g) /\ SameVerdict(g, f) /\ Counts(a, g) /\ g.pc = "settled"
    BY <1>1, <1>2, <1>6, <2>1, SettleMoves DEF Over
  <2>3. Verdicts(a, g)
    BY <1>2, <1>5, <2>2 DEF Verdicts, SameVerdict
  <2>. QED BY <1>4, <2>2, <2>3 DEF StepTo, WaitsNext
<1>7. CASE EnsureInitialized(a, h, "settled") /\ Counted(f)
  <2>1. h \in Frame /\ h.pc = "opening" /\ SameSpent(h, f)
    <3>1. "opening" \in Pc
      BY DEF Pc
    <3>. QED BY <1>2, <3>1, PcFrame
  <2>. HIDE DEF h
  <2>2. "settled" \in Pc
    BY DEF Pc
  <2>3. PICK g \in Frame :
           /\ act' = [act EXCEPT ![a] = g]
           /\ SameVerdict(g, h) /\ g.error = h.error
           /\ g.ranked = h.ranked /\ g.accepted = h.accepted /\ g.heal = h.heal
           /\ g.observed = h.observed /\ g.promotion = h.promotion /\ g.artifact = h.artifact
           /\ g.status = h.status
           /\ \/ g.pc = "settled"
              \/ g.pc = h.pc /\ g.awaits \in DOMAIN inits'
    BY <1>7, <2>1, <2>2, EnsureMoves DEF TypeOK
  <2>4. FreshFrame(g) /\ g.status = "succeeded" /\ g.pc \in Over
    BY <1>2, <2>1, <2>3 DEF SameSpent, SameVerdict, FreshFrame, Untouched, Over
  <2>5. FrameOK(g)
    BY <2>4, FreshFrameOK DEF Early, Over
  <2>6. Counted(g) /\ Verdicts(a, g) /\ WaitsNext(g)
    BY <1>2, <1>5, <1>7, <2>1, <2>3 DEF Counted, SameSpent, Verdicts, SameVerdict, WaitsNext
  <2>7. Counts(a, g)
    BY <1>1, <2>4, <2>6 DEF Counts, Over, FreshFrame, Untouched
  <2>. QED BY <1>4, <2>3, <2>5, <2>6, <2>7 DEF StepTo
<1>. QED BY <1>3, <1>6, <1>7

LEMMA ScreenshotMoves ==
    ASSUME TypeOK, Shape, NEW a \in Action, Screenshot(a)
    PROVE  \E f : StepTo(a, f)
<1>. DEFINE f == act[a]
<1>1. f \in Frame /\ FrameOK(f) /\ f.pc = "screenshot"
  BY DEF Screenshot, Is, Shape, FrameOK
<1>2. FailedFrame(f)
  BY <1>1 DEF FrameOK, InPlace, FailedFrame, Failing
<1>3. PICK g : /\ act' = [act EXCEPT ![a] = g]
               /\ FrameOK(g) /\ SameVerdict(g, f) /\ Counts(a, g)
               /\ g.pc \in {"analysing", "writing", "settled"}
  BY <1>1, <1>2, OnwardMoves DEF Screenshot, Over
<1>4. Records(a, g) /\ Verdicts(a, g) /\ WaitsNext(g)
  BY <1>1, <1>3, QuietRecords DEF Screenshot, Verdicts, WaitsNext
<1>. QED BY <1>3, <1>4 DEF StepTo

\* A failure whose analysis, validation and retry are over.
DoneFrame(f) ==
    /\ f \in Frame /\ Granted(f) /\ RunsHealing(f) /\ f.sequence > 0
    /\ f.status = "running" /\ f.error \in {"own", "init"} /\ ~f.artifact
    /\ f.observed = 0 /\ f.promotion = "none"
    /\ Retried(f) => Earned(f)

LEMMA AfterHealingOK ==
    ASSUME NEW f, DoneFrame(f)
    PROVE  LET g == AfterHealing(f)
           IN  FrameOK(g) /\ g.pc \in {"writing", "observing", "proposing"} /\ SameVerdict(g, f)
<1>. DEFINE g == AfterHealing(f)
<1>1. f.pc \in Pc /\ Len(f.ranked) \in Nat /\ (f.ranked # <<>> => Len(f.ranked) > 0)
  BY DEF DoneFrame, Frame, Pc
<1>2. PICK x \in {"writing", "observing", "proposing"}, p \in {"none", "skipped"} :
         /\ g = [f EXCEPT !.pc = x, !.promotion = p]
         /\ x = "observing" => f.ranked # <<>>
         /\ x # "writing" => p = "none"
  <2>1. f = [f EXCEPT !.promotion = "none"]
    BY DEF DoneFrame, Frame
  <2>2. \A x : [f EXCEPT !.pc = x] = [f EXCEPT !.pc = x, !.promotion = "none"]
    BY DEF DoneFrame, Frame
  <2>. QED BY <2>2 DEF AfterHealing, Persisting
<1>3. g \in Frame
  <2>1. [f EXCEPT !.pc = x] \in Frame
    BY FrameFields DEF DoneFrame, Pc
  <2>. QED BY <1>2, <2>1, FrameFields
<1>4. /\ g.pc = x /\ g.promotion = p /\ SameVerdict(g, f) /\ g.selector = f.selector
      /\ g.error = f.error /\ g.url = f.url /\ g.ranked = f.ranked /\ g.visible = f.visible
      /\ g.accepted = f.accepted /\ g.heal = f.heal /\ g.observed = 0
      /\ g.artifact = f.artifact /\ g.status = f.status
  BY <1>2 DEF DoneFrame, Frame, SameVerdict
<1>. HIDE DEF g
<1>5. Granted(g)
  BY <1>2, <1>4 DEF DoneFrame, Granted, SameVerdict, Ranking, RunsHealing
<1>6. InPlace(g)
  BY <1>1, <1>2, <1>4 DEF DoneFrame, InPlace, SameVerdict, Early, Failing, Healing, RunsHealing, Captures,
                          Retried, Earned
<1>. QED BY <1>2, <1>3, <1>4, <1>5, <1>6 DEF FrameOK, g

\* A ranking of what was found names each source once.
LEMMA RankingsOK == \A q \in Rankings : q \in Seq(Source) /\ Ranking(q)
<1>. SUFFICES ASSUME NEW q \in Rankings PROVE q \in Seq(Source) /\ Ranking(q)
  OBVIOUS
<1>1. q = <<>> \/ (\E s \in Source : q = <<s>>)
         \/ \E s, t \in Source : q = <<s, t>> /\ \E found : found = {q[i] : i \in DOMAIN q} /\ Len(q) = Cardinality(found)
  BY DEF Rankings
<1>2. ASSUME NEW s \in Source, NEW t \in Source, q = <<s, t>>, Len(q) = Cardinality({q[i] : i \in DOMAIN q})
      PROVE  s # t
  <2>1. SUFFICES ASSUME s = t PROVE FALSE
    OBVIOUS
  <2>2. {q[i] : i \in DOMAIN q} = {s}
    BY <1>2, <2>1
  <2>3. Len(q) = 2 /\ Cardinality({s}) = 1
    BY <1>2, FS_Singleton
  <2>. QED BY <1>2, <2>2, <2>3
<1>3. Ranking(q)
  BY <1>1, <1>2 DEF Ranking, Source
<1>4. /\ <<>> \in Seq(Source)
      /\ \A s, t \in Source : <<s>> \in Seq(Source) /\ <<s, t>> \in Seq(Source)
  OBVIOUS
<1>. QED BY <1>1, <1>3, <1>4

LEMMA AnalyseMoves ==
    ASSUME TypeOK, Shape, NEW a \in Action, Analyse(a)
    PROVE  \E f : StepTo(a, f)
<1>. DEFINE j == act[a]
<1>1. /\ j \in Frame /\ FrameOK(j) /\ j.pc = "analysing" /\ FailedFrame(j) /\ RunsHealing(j)
      /\ j.sequence > 0
  BY DEF Analyse, Is, Shape, FrameOK, InPlace, FailedFrame, Failing, Healing, RunsHealing
<1>2. PICK q \in Rankings :
         LET f == [j EXCEPT !.ranked = q]
         IN  Goes(a, IF config.mode = "guarded" THEN [f EXCEPT !.pc = "validating"] ELSE AfterHealing(f))
  BY DEF Analyse
<1>. DEFINE f == [j EXCEPT !.ranked = q]
            h == [f EXCEPT !.pc = "validating"]
<1>3. q \in Seq(Source) /\ Ranking(q)
  BY RankingsOK
<1>4. f \in Frame
  BY <1>1, <1>3, FrameFields
<1>5. /\ f.ranked = q /\ SameVerdict(f, j) /\ f.selector = j.selector
      /\ f.error = j.error /\ f.accepted = j.accepted /\ f.heal = j.heal /\ f.observed = j.observed
      /\ f.promotion = j.promotion /\ f.artifact = j.artifact /\ f.status = j.status
  BY <1>1 DEF Frame, SameVerdict
<1>6. h \in Frame /\ h.pc = "validating" /\ SameSpent(h, f)
  <2>1. "validating" \in Pc
    BY DEF Pc
  <2>. QED BY <1>4, <2>1, PcFrame
<1>7. act' = [act EXCEPT ![a] = IF config.mode = "guarded" THEN h ELSE AfterHealing(f)]
  BY <1>2 DEF Goes
<1>. HIDE DEF f, h
<1>8. \A g : Records(a, g)
  BY <1>1, QuietRecords DEF Analyse
<1>9. ASSUME NEW g, act' = [act EXCEPT ![a] = g], FrameOK(g), SameVerdict(g, j), g.pc \in Healing \cup {"writing"}
      PROVE  StepTo(a, g)
  BY <1>1, <1>8, <1>9 DEF StepTo, Analyse, Verdicts, Counts, WaitsNext, Over, Healing
<1>10. CASE config.mode = "guarded"
  <2>1. Granted(h) /\ InPlace(h)
    BY <1>1, <1>3, <1>5, <1>6, <1>10 DEF FailedFrame, Granted, InPlace, SameSpent, SameVerdict, Untouched,
                                  Early, Failing, Healing, RunsHealing, Retried
  <2>. QED BY <1>5, <1>6, <1>7, <1>9, <1>10, <2>1 DEF FrameOK, SameSpent, SameVerdict, Healing
<1>11. CASE config.mode # "guarded"
  <2>1. Granted(f)
    BY <1>1, <1>3, <1>5 DEF FailedFrame, Granted, SameVerdict, Untouched, RunsHealing
  <2>2. DoneFrame(f)
    BY <1>1, <1>4, <1>5, <2>1 DEF FailedFrame, DoneFrame, SameVerdict, Untouched, RunsHealing, Retried
  <2>3. FrameOK(AfterHealing(f)) /\ SameVerdict(AfterHealing(f), f)
        /\ AfterHealing(f).pc \in Healing \cup {"writing"}
    BY <2>2, AfterHealingOK DEF Healing
  <2>. QED BY <1>5, <1>7, <1>9, <1>11, <2>3 DEF SameVerdict
<1>. QED BY <1>10, <1>11

\* Validation accepts only a candidate that it saw.
LEMMA FirstVisibleOK ==
    ASSUME NEW offered, Ranking(offered), NEW visible \in SUBSET Source
    PROVE  LET s == FirstVisible(offered, visible)
           IN  s = NoSource \/ (s \in visible /\ offered # <<>>)
<1>1. CASE ~\E i \in DOMAIN offered : offered[i] \in visible
  BY <1>1 DEF FirstVisible
<1>2. CASE \E i \in DOMAIN offered : offered[i] \in visible
  <2>. DEFINE first(i) == offered[i] \in visible /\ \A k \in 1 .. i - 1 : offered[k] \notin visible
  <2>1. \/ DOMAIN offered = 1 .. 1
        \/ DOMAIN offered = 1 .. 2
    BY <1>2 DEF Ranking
  <2>2. \E i \in DOMAIN offered : first(i)
    <3>1. CASE offered[1] \in visible
      BY <2>1, <3>1
    <3>2. CASE offered[1] \notin visible
      <4>1. 2 \in DOMAIN offered /\ offered[2] \in visible
        BY <1>2, <2>1, <3>2
      <4>2. \A k \in 1 .. 2 - 1 : k = 1
        OBVIOUS
      <4>. QED BY <3>2, <4>1, <4>2
    <3>. QED BY <3>1, <3>2
  <2>3. first(CHOOSE i \in DOMAIN offered : first(i))
    <3>. HIDE DEF first
    <3>. QED BY <2>2
  <2>4. offered # <<>>
    BY <1>2
  <2>. QED BY <1>2, <2>3, <2>4 DEF FirstVisible
<1>. QED BY <1>1, <1>2

LEMMA ValidateMoves ==
    ASSUME TypeOK, Shape, NEW a \in Action, Validate(a)
    PROVE  \E f : StepTo(a, f)
<1>. DEFINE j == act[a]
<1>1. /\ j \in Frame /\ FrameOK(j) /\ j.pc = "validating" /\ Granted(j) /\ RunsHealing(j)
      /\ j.sequence > 0 /\ j.status = "running" /\ j.error \in {"own", "init"} /\ ~j.artifact
      /\ config.mode = "guarded" /\ j.heal = "none" /\ j.observed = 0 /\ j.promotion = "none"
  BY DEF Validate, Is, Shape, FrameOK, InPlace, Failing, Healing, RunsHealing
<1>0a. PICK offered \in (IF PolicyAllows(j) THEN Offered(j) ELSE {<<>>}) :
         \E eligible \in 0 .. Len(offered) : \E visible \in SUBSET {offered[i] : i \in 1 .. eligible} :
            Goes(a, AfterValidation(j, offered, visible))
  BY DEF Validate
<1>0b. PICK eligible \in 0 .. Len(offered) : \E visible \in SUBSET {offered[i] : i \in 1 .. eligible} :
         Goes(a, AfterValidation(j, offered, visible))
  BY <1>0a
<1>2. PICK visible \in SUBSET {offered[i] : i \in 1 .. eligible} : Goes(a, AfterValidation(j, offered, visible))
  BY <1>0b
<1>3. Ranking(offered) /\ (offered # <<>> => PolicyAllows(j))
  BY <1>1, <1>0a DEF Offered, Granted, Ranking, Source
<1>4. visible \in SUBSET Source
  <2>1. \A i \in 1 .. Len(offered) : offered[i] \in Source
    BY <1>3 DEF Ranking, Source
  <2>2. Len(offered) \in Nat
    BY <1>3 DEF Ranking
  <2>. QED BY <1>0b, <1>2, <2>1, <2>2
<1>. DEFINE s == FirstVisible(offered, visible)
            g == [j EXCEPT !.visible = visible, !.accepted = s]
            skip == IF s # NoSource \/ j.op \in Heals THEN "skipped" ELSE "none"
            d == [g EXCEPT !.heal = skip]
            h == [g EXCEPT !.pc = "healing"]
<1>5. /\ s \in Source \cup {NoSource}
      /\ s # NoSource => s \in visible /\ (config.restricted => j.url = "listed")
  <2>1. s = NoSource \/ (s \in visible /\ offered # <<>>)
    BY <1>3, <1>4, FirstVisibleOK
  <2>. HIDE DEF s
  <2>. QED BY <1>3, <1>4, <2>1 DEF PolicyAllows
<1>. HIDE DEF s
<1>6. g \in Frame
  <2>1. [j EXCEPT !.visible = visible] \in Frame
    BY <1>1, <1>4, FrameFields
  <2>. QED BY <1>5, <2>1, FrameFields
<1>7. /\ g.visible = visible /\ g.accepted = s /\ SameVerdict(g, j) /\ g.selector = j.selector
      /\ g.error = j.error /\ g.url = j.url /\ g.heal = j.heal /\ g.observed = j.observed
      /\ g.ranked = j.ranked /\ g.promotion = j.promotion /\ g.artifact = j.artifact /\ g.status = j.status
  BY <1>1 DEF Frame, SameVerdict
<1>8. act' = [act EXCEPT ![a] = IF s # NoSource /\ j.op \in Heals THEN h ELSE AfterHealing(d)]
  BY <1>2 DEF Goes, AfterValidation, s
<1>. HIDE DEF g
<1>9. \A k : Records(a, k)
  BY <1>1, QuietRecords DEF Validate
<1>10. ASSUME NEW k, act' = [act EXCEPT ![a] = k], FrameOK(k), SameVerdict(k, j), k.pc \in Healing \cup {"writing"}
       PROVE  StepTo(a, k)
  BY <1>1, <1>9, <1>10 DEF StepTo, Validate, Verdicts, Counts, WaitsNext, Over, Healing
<1>11. CASE s # NoSource /\ j.op \in Heals
  <2>1. h \in Frame /\ h.pc = "healing" /\ SameSpent(h, g)
    <3>1. "healing" \in Pc
      BY DEF Pc
    <3>. QED BY <1>6, <3>1, PcFrame
  <2>2. act' = [act EXCEPT ![a] = h]
    BY <1>8, <1>11
  <2>. HIDE DEF h
  <2>3. Granted(h)
    BY <1>1, <1>7, <2>1 DEF Granted, SameSpent, SameVerdict, Ranking
  <2>4. InPlace(h)
    BY <1>1, <1>5, <1>7, <1>11, <2>1 DEF InPlace, SameSpent, SameVerdict, Early, Failing, Healing,
                                        RunsHealing, Retried, Earned
  <2>. QED BY <1>7, <1>10, <2>1, <2>2, <2>3, <2>4 DEF FrameOK, SameSpent, SameVerdict, Healing
<1>12. CASE ~(s # NoSource /\ j.op \in Heals)
  <2>1. skip \in {"none", "skipped"}
    OBVIOUS
  <2>2. act' = [act EXCEPT ![a] = AfterHealing(d)]
    BY <1>8, <1>12
  <2>. HIDE DEF skip
  <2>3. d \in Frame
    BY <1>6, <2>1, FrameFields
  <2>4. /\ d.heal = skip /\ SameVerdict(d, g) /\ d.selector = g.selector
        /\ d.error = g.error /\ d.observed = g.observed
        /\ d.ranked = g.ranked /\ d.promotion = g.promotion /\ d.artifact = g.artifact /\ d.status = g.status
    BY <1>6 DEF Frame, SameVerdict
  <2>. HIDE DEF d
  <2>5. Granted(d)
    BY <1>1, <1>7, <2>1, <2>4 DEF Granted, SameVerdict, RunsHealing
  <2>6. DoneFrame(d)
    BY <1>1, <1>7, <2>1, <2>3, <2>4, <2>5 DEF DoneFrame, SameVerdict, RunsHealing, Retried
  <2>7. FrameOK(AfterHealing(d)) /\ SameVerdict(AfterHealing(d), d)
        /\ AfterHealing(d).pc \in Healing \cup {"writing"}
    BY <2>6, AfterHealingOK DEF Healing
  <2>. QED BY <1>7, <1>10, <2>2, <2>4, <2>7 DEF SameVerdict
<1>. QED BY <1>11, <1>12

LEMMA HealMoves ==
    ASSUME TypeOK, Shape, NEW a \in Action, Heal(a)
    PROVE  \E f : StepTo(a, f)
<1>. DEFINE j == act[a]
<1>1. /\ j \in Frame /\ FrameOK(j) /\ j.pc = "healing" /\ Granted(j) /\ RunsHealing(j) /\ Earned(j)
      /\ j.sequence > 0 /\ j.status = "running" /\ j.error \in {"own", "init"} /\ ~j.artifact
      /\ j.heal = "none" /\ j.observed = 0 /\ j.promotion = "none"
  BY DEF Heal, Is, Shape, FrameOK, InPlace, Failing, Healing, RunsHealing
<1>2. PICK result \in {"succeeded", "failed"} :
         Goes(a, AfterHealing([j EXCEPT !.heal = result, !.healedOn = host]))
  BY DEF Heal
<1>. DEFINE d == [j EXCEPT !.heal = result, !.healedOn = host]
<1>3. d \in Frame
  <2>1. [j EXCEPT !.heal = result] \in Frame
    BY <1>1, FrameFields
  <2>. QED BY <2>1, FrameFields DEF TypeOK
<1>4. /\ d.heal = result /\ SameVerdict(d, j) /\ d.selector = j.selector /\ d.url = j.url
      /\ d.error = j.error /\ d.visible = j.visible /\ d.accepted = j.accepted /\ d.observed = j.observed
      /\ d.ranked = j.ranked /\ d.promotion = j.promotion /\ d.artifact = j.artifact /\ d.status = j.status
  BY <1>1 DEF Frame, SameVerdict
<1>5. act' = [act EXCEPT ![a] = AfterHealing(d)]
  BY <1>2 DEF Goes
<1>. HIDE DEF d
<1>6. Granted(d)
  BY <1>1, <1>4 DEF Granted, SameVerdict, RunsHealing
<1>7. DoneFrame(d)
  BY <1>1, <1>3, <1>4, <1>6 DEF DoneFrame, SameVerdict, RunsHealing, Earned
<1>8. PICK g : /\ act' = [act EXCEPT ![a] = g] /\ FrameOK(g) /\ SameVerdict(g, d)
               /\ g.pc \in {"writing", "observing", "proposing"}
  BY <1>5, <1>7, AfterHealingOK
<1>9. Records(a, g)
  BY <1>1, QuietRecords DEF Heal
<1>10. Verdicts(a, g) /\ Counts(a, g) /\ WaitsNext(g)
  BY <1>1, <1>4, <1>8 DEF Heal, Verdicts, SameVerdict, Counts, WaitsNext, Over
<1>. QED BY <1>8, <1>9, <1>10 DEF StepTo

LEMMA ObserveMoves ==
    ASSUME TypeOK, Shape, NEW a \in Action, Observe(a)
    PROVE  \E f : StepTo(a, f)
<1>. DEFINE j == act[a]
            n == j.observed + 1
            s == j.ranked[n]
            x == IF n = Len(j.ranked) THEN "proposing" ELSE j.pc
            f == [j EXCEPT !.observed = n, !.pc = x]
<1>1. /\ j \in Frame /\ Granted(j) /\ InPlace(j) /\ j.pc = "observing" /\ j.observed < Len(j.ranked)
      /\ RunsHealing(j) /\ j.sequence > 0
      /\ j.observed \in Nat /\ j.ranked \in Seq(Source) /\ Ranking(j.ranked)
      /\ j.heal \in {"none", "skipped", "succeeded", "failed"}
  <2>1. j \in Frame /\ FrameOK(j) /\ j.pc = "observing"
    BY DEF Observe, Is, Shape, FrameOK
  <2>2. j.observed \in Nat /\ j.ranked \in Seq(Source) /\ j.heal \in {"none", "skipped", "succeeded", "failed"}
    BY <2>1 DEF Frame
  <2>. QED BY <2>1, <2>2 DEF FrameOK, Granted, InPlace, Failing, Healing, RunsHealing
<1>2. /\ act' = [act EXCEPT ![a] = f]
      /\ history' = [history EXCEPT ![s] = Observation(j, s, @)] \/ UNCHANGED history
  <2>1. act' = [act EXCEPT ![a] = [j EXCEPT !.observed = n, !.pc = IF n = Len(j.ranked) THEN "proposing" ELSE @]]
    BY DEF Observe, Goes
  <2>. QED BY <1>1, <2>1 DEF Observe
<1>3. x \in {"observing", "proposing"} /\ (x = "observing" => n < Len(j.ranked))
  BY <1>1
<1>4. n \in Nat /\ n \in DOMAIN j.ranked /\ s \in Source
  BY <1>1
<1>. HIDE DEF n, x
<1>5. f \in Frame
  <2>1. [j EXCEPT !.observed = n] \in Frame
    BY <1>1, <1>4, FrameFields
  <2>. QED BY <1>3, <2>1, FrameFields DEF Pc
<1>6. /\ f.pc = x /\ f.observed = n /\ SameVerdict(f, j) /\ f.selector = j.selector
      /\ f.error = j.error /\ f.url = j.url /\ f.ranked = j.ranked /\ f.visible = j.visible
      /\ f.accepted = j.accepted /\ f.heal = j.heal /\ f.promotion = j.promotion
      /\ f.artifact = j.artifact /\ f.status = j.status
  BY <1>1 DEF Frame, SameVerdict
<1>. HIDE DEF f
<1>7. Granted(f)
  BY <1>1, <1>6 DEF Granted, SameVerdict, Ranking
<1>8. InPlace(f)
  BY <1>1, <1>3, <1>6 DEF InPlace, SameVerdict, Early, Failing, Healing, RunsHealing, Retried, Earned
<1>9. ~Observed(j, s)
  <2>1. \A i \in DOMAIN j.ranked : i # n => j.ranked[i] # s
    BY <1>1, <1>4 DEF Ranking
  <2>2. \A i \in 1 .. j.observed : i # n /\ i \in DOMAIN j.ranked
    BY <1>1 DEF n
  <2>. QED BY <1>1, <2>1, <2>2 DEF Observed
<1>10. /\ \A t : Observed(j, t) => Observed(f, t)
       /\ j.heal = "succeeded" /\ j.accepted = s => Observed(f, s)
  <2>1. n \in 1 .. n /\ \A i \in 1 .. j.observed : i \in 1 .. n
    BY <1>1 DEF n
  <2>. QED BY <1>1, <1>3, <1>6, <2>1 DEF Observed
<1>11. Retried(j) => j.accepted \in j.visible
  BY <1>1 DEF InPlace, Failing, Healing, Earned
<1>12. Records(a, f)
  BY <1>1, <1>2, <1>4, <1>9, <1>10, <1>11 DEF Records
<1>13. Verdicts(a, f) /\ Counts(a, f) /\ WaitsNext(f)
  BY <1>1, <1>3, <1>6 DEF Observe, Verdicts, Counts, WaitsNext, Over
<1>. QED BY <1>2, <1>5, <1>7, <1>8, <1>12, <1>13 DEF StepTo, FrameOK

LEMMA ProposeMoves ==
    ASSUME TypeOK, Shape, NEW a \in Action, Propose(a)
    PROVE  \E f : StepTo(a, f)
<1>. DEFINE j == act[a]
<1>1. /\ j \in Frame /\ Granted(j) /\ InPlace(j) /\ j.pc = "proposing" /\ RunsHealing(j) /\ j.sequence > 0
  BY DEF Propose, Is, Shape, FrameOK, InPlace, Failing, Healing, RunsHealing
<1>2. PICK result \in {"succeeded", "failed", "skipped"} :
         /\ Goes(a, [j EXCEPT !.pc = "writing", !.promotion = result])
         /\ result # "skipped" => Proposes(j)
  BY DEF Propose
<1>. DEFINE f == [j EXCEPT !.pc = "writing", !.promotion = result]
<1>3. f \in Frame
  <2>1. [j EXCEPT !.pc = "writing"] \in Frame
    BY <1>1, FrameFields DEF Pc
  <2>. QED BY <2>1, FrameFields
<1>4. /\ f.pc = "writing" /\ f.promotion = result /\ SameVerdict(f, j) /\ f.selector = j.selector
      /\ f.error = j.error /\ f.url = j.url /\ f.ranked = j.ranked /\ f.visible = j.visible
      /\ f.accepted = j.accepted /\ f.heal = j.heal /\ f.artifact = j.artifact /\ f.status = j.status
  BY <1>1 DEF Frame, SameVerdict
<1>5. act' = [act EXCEPT ![a] = f]
  BY <1>2 DEF Goes
<1>. HIDE DEF f
\* Two sources are ranked, and the one that healed is not the registry's.
<1>6. Proposes(j) => /\ j.heal = "succeeded" /\ j.selector /\ j.accepted = "suggested"
                     /\ j.ranked \in {<<"registry", "suggested">>, <<"suggested", "registry">>}
  <2>1. SUFFICES ASSUME Proposes(j)
                 PROVE  /\ j.heal = "succeeded" /\ j.selector /\ j.accepted = "suggested"
                        /\ j.ranked \in {<<"registry", "suggested">>, <<"suggested", "registry">>}
    OBVIOUS
  <2>2. PICK i \in DOMAIN j.ranked, k \in DOMAIN j.ranked :
           j.ranked[i] = j.accepted /\ j.ranked[k] = "registry" /\ j.accepted # "registry"
    BY <2>1 DEF Proposes
  <2>3. Ranking(j.ranked)
    BY <1>1 DEF Granted
  <2>4. j.ranked \in {<<"registry", "suggested">>, <<"suggested", "registry">>}
    BY <2>2, <2>3 DEF Ranking
  <2>. QED BY <2>1, <2>2, <2>4 DEF Proposes
<1>7. Granted(f)
  BY <1>1, <1>2, <1>4, <1>6 DEF Granted, SameVerdict, RunsHealing
<1>8. InPlace(f)
  BY <1>1, <1>2, <1>4, <1>6 DEF InPlace, SameVerdict, Early, Failing, Healing, RunsHealing, Captures,
                                Retried, Earned
<1>9. Records(a, f)
  BY <1>1, <1>4 DEF Propose, Records, Observed
<1>10. Verdicts(a, f) /\ Counts(a, f) /\ WaitsNext(f)
  BY <1>1, <1>4 DEF Propose, Verdicts, Counts, WaitsNext, Over
<1>. QED BY <1>3, <1>5, <1>7, <1>8, <1>9, <1>10 DEF StepTo, FrameOK

LEMMA WriteArtifactMoves ==
    ASSUME TypeOK, Shape, NEW a \in Action, WriteArtifact(a)
    PROVE  \E f : StepTo(a, f)
<1>. DEFINE j == act[a]
<1>1. /\ j \in Frame /\ Granted(j) /\ InPlace(j) /\ j.pc = "writing" /\ Captures(j) /\ j.sequence > 0
      /\ j.error \in {"own", "init"} /\ j.status = "running"
  BY DEF WriteArtifact, Is, Shape, FrameOK, InPlace, Failing, Captures
<1>2. PICK written \in BOOLEAN : Conclude(a, [j EXCEPT !.artifact = written])
  BY DEF WriteArtifact
<1>. DEFINE f == [j EXCEPT !.artifact = written]
<1>3. f \in Frame
  BY <1>1, FrameFields
<1>4. /\ SameVerdict(f, j) /\ f.selector = j.selector /\ f.error = j.error /\ f.ranked = j.ranked
      /\ f.accepted = j.accepted /\ f.heal = j.heal /\ f.promotion = j.promotion
  BY <1>1 DEF Frame, SameVerdict
<1>5. Granted(f)
  BY <1>1, <1>4 DEF Granted, SameVerdict, Captures
<1>6. Conclude(a, f)
  BY <1>2
<1>. HIDE DEF f
<1>7. PICK status \in {"self_healed", "failed"} :
         /\ Settle(a, [f EXCEPT !.status = status, !.error = f.error])
         /\ status = "self_healed" <=> f.heal = "succeeded"
  <2>1. \A z : [f EXCEPT !.status = z] = [f EXCEPT !.status = z, !.error = f.error]
    BY <1>3 DEF Frame
  <2>. QED BY <1>6, <2>1 DEF Conclude, Reject
<1>. DEFINE h == [f EXCEPT !.status = status, !.error = f.error]
<1>8. h \in Frame
  <2>1. [f EXCEPT !.status = status] \in Frame
    BY <1>3, FrameFields
  <2>2. f.error \in {"none", "own", "init", "config", "registry", "input"}
    BY <1>3 DEF Frame
  <2>. QED BY <2>1, <2>2, FrameFields
<1>9. /\ h.status = status /\ SameVerdict(h, f) /\ h.selector = f.selector /\ h.ranked = f.ranked
      /\ h.accepted = f.accepted /\ h.heal = f.heal /\ h.promotion = f.promotion /\ h.artifact = f.artifact
  BY <1>3 DEF Frame, SameVerdict
<1>. HIDE DEF h
<1>10. Granted(h)
  BY <1>5, <1>9 DEF Granted, SameVerdict
<1>11. PICK g : /\ act' = [act EXCEPT ![a] = g]
                /\ FrameOK(g) /\ SameVerdict(g, h) /\ Counts(a, g) /\ g.pc = "settled"
                /\ g.heal = h.heal /\ g.accepted = h.accepted
  <2>1. Settle(a, h)
    BY <1>7 DEF h
  <2>. QED BY <1>1, <1>7, <1>8, <1>9, <1>10, <2>1, SettleMoves DEF Over
<1>12. Records(a, g)
  BY <1>1, <1>4, <1>9, <1>11 DEF WriteArtifact, Records, Observed
<1>13. Verdicts(a, g) /\ WaitsNext(g)
  BY <1>4, <1>9, <1>11 DEF WriteArtifact, Verdicts, SameVerdict, WaitsNext
<1>. QED BY <1>11, <1>12, <1>13 DEF StepTo

LEMMA CallMoves ==
    ASSUME TypeOK, Shape, NEW a \in Action, Start(a) \/ Refuse(a) \/ Progress(a)
    PROVE  (\E f : StepTo(a, f)) /\ config' = config
<1>1. \E f : StepTo(a, f)
  BY StartMoves, RefuseMoves, ResumeMoves, ResumeOpenMoves, SucceedsMoves, ActionFailsMoves,
     ScreenshotMoves, AnalyseMoves, ValidateMoves, HealMoves, ObserveMoves, ProposeMoves,
     WriteArtifactMoves DEF Progress
<1>2. config' = config
  BY DEF Start, Refuse, Progress, Resume, ResumeOpen, Succeeds, ActionFails, Screenshot, Analyse,
         Validate, Heal, Observe, Propose, WriteArtifact
<1>. QED BY <1>1, <1>2

-----------------------------------------------------------------------------
(* The invariant.                                                          *)

Run == {"running", "fulfilled", "rejected"}

\* A step leaves the runs of initialize alone, starts one or ends one.
LEMMA RunsMove ==
    ASSUME TypeOK, InitOnce, [Next]_vars
    PROVE  \/ UNCHANGED <<inits, initialized>> /\ (promise' = promise \/ (promise' = 0 /\ promise # 0
                                                                        /\ inits[promise] # "running"))
           \/ UNCHANGED <<inits, promise, initialized>>
           \/ ~initialized /\ promise = 0 /\ inits' = Append(inits, "running") /\ promise' = Len(inits')
              /\ UNCHANGED initialized
           \/ /\ UNCHANGED promise
              /\ \E k \in DOMAIN inits : /\ inits[k] = "running"
                                         /\ \/ inits' = [inits EXCEPT ![k] = "fulfilled"] /\ initialized'
                                            \/ inits' = [inits EXCEPT ![k] = "rejected"] /\ UNCHANGED initialized
<1>1. ASSUME NEW a \in Action, NEW f, NEW ready, EnsureInitialized(a, f, ready)
      PROVE  \/ UNCHANGED <<inits, promise>>
             \/ ~initialized /\ promise = 0 /\ inits' = Append(inits, "running") /\ promise' = Len(inits')
  BY <1>1 DEF EnsureInitialized
<1>2. ASSUME NEW a \in Action, Start(a) \/ Succeeds(a)
      PROVE  /\ UNCHANGED initialized
             /\ \/ UNCHANGED <<inits, promise>>
                \/ ~initialized /\ promise = 0 /\ inits' = Append(inits, "running") /\ promise' = Len(inits')
  BY <1>1, <1>2 DEF Start, Succeeds
<1>3. ASSUME NEW a \in Action, Refuse(a) \/ Progress(a), ~Succeeds(a)
      PROVE  UNCHANGED <<inits, promise, initialized>>
  BY <1>3 DEF Refuse, Progress, Resume, ResumeOpen, ActionFails, Screenshot, Analyse, Validate, Heal,
              Observe, Propose, WriteArtifact
<1>4. CASE Initializes
  BY <1>4 DEF Initializes, InitializeEnds, ForgetPromise
<1>5. CASE Browse
  BY <1>5 DEF Browse
<1>6. CASE UNCHANGED vars
  BY <1>6 DEF vars
<1>. QED BY <1>2, <1>3, <1>4, <1>5, <1>6 DEF Next, Progress

LEMMA RunsStep ==
    ASSUME TypeOK, InitOnce, [Next]_vars
    PROVE  /\ InitOnce' /\ initialized' \in BOOLEAN /\ promise' \in 0 .. Len(inits') /\ inits' \in Seq(Run)
           /\ initialized => initialized'
           /\ DOMAIN inits \subseteq DOMAIN inits'
<1>. /\ inits \in Seq(Run) /\ promise \in 0 .. Len(inits) /\ initialized \in BOOLEAN
     /\ Len(inits) \in Nat
  BY DEF TypeOK, Run
<1>1. CASE /\ UNCHANGED <<inits, initialized>>
           /\ promise' = promise \/ (promise' = 0 /\ promise # 0 /\ inits[promise] # "running")
  BY <1>1 DEF InitOnce
<1>2. CASE /\ ~initialized /\ promise = 0 /\ inits' = Append(inits, "running") /\ promise' = Len(inits')
           /\ UNCHANGED initialized
  <2>1. /\ inits' \in Seq(Run) /\ Len(inits') = Len(inits) + 1
        /\ \A k \in DOMAIN inits : inits'[k] = inits[k] /\ k < Len(inits')
        /\ inits'[Len(inits')] = "running"
        /\ \A k \in DOMAIN inits' : k \in DOMAIN inits \/ k = Len(inits')
    BY <1>2 DEF Run
  <2>2. \A k \in DOMAIN inits : inits[k] = "rejected"
    <3>1. \A k \in DOMAIN inits : inits[k] \in Run /\ inits[k] # "fulfilled" /\ inits[k] # "running"
      BY <1>2 DEF InitOnce
    <3>. QED BY <3>1 DEF Run
  <2>3. InitOnce'
    BY <1>2, <2>1, <2>2 DEF InitOnce
  <2>. QED BY <1>2, <2>1, <2>3
<1>3. CASE /\ UNCHANGED promise
           /\ \E k \in DOMAIN inits : /\ inits[k] = "running"
                                      /\ \/ inits' = [inits EXCEPT ![k] = "fulfilled"] /\ initialized'
                                         \/ inits' = [inits EXCEPT ![k] = "rejected"] /\ UNCHANGED initialized
  <2>1. PICK k \in DOMAIN inits, v \in {"fulfilled", "rejected"} :
           /\ inits[k] = "running" /\ inits' = [inits EXCEPT ![k] = v]
           /\ v = "fulfilled" => initialized'
           /\ initialized => initialized'
    BY <1>3
  <2>2. inits' \in Seq(Run) /\ Len(inits') = Len(inits) /\ DOMAIN inits' = DOMAIN inits
    BY <2>1 DEF Run
  <2>3. \A i \in DOMAIN inits : inits'[i] = IF i = k THEN v ELSE inits[i]
    BY <2>1
  <2>4. k = Len(inits)
    BY <2>1 DEF InitOnce
  <2>5. initialized' \in BOOLEAN
    BY <1>3, RunsMove DEF Next, Initializes, InitializeEnds
  <2>6. InitOnce'
    BY <1>3, <2>1, <2>2, <2>3, <2>4 DEF InitOnce
  <2>. QED BY <1>3, <2>1, <2>2, <2>5, <2>6
<1>. QED BY <1>1, <1>2, <1>3, RunsMove

\* A step moves one call, or none.
LEMMA NextMoves ==
    ASSUME TypeOK, Shape, [Next]_vars
    PROVE  /\ config' = config
           /\ \/ \E a \in Action : \E f : StepTo(a, f)
              \/ UNCHANGED <<act, budget, counters, history>>
<1>1. CASE Initializes \/ Browse \/ UNCHANGED vars
  BY <1>1 DEF Initializes, InitializeEnds, ForgetPromise, Browse, vars
<1>. QED BY <1>1, CallMoves DEF Next

LEMMA ShapeStep == TypeOK /\ Shape /\ [Next]_vars => Shape'
<1>. SUFFICES ASSUME TypeOK, Shape, [Next]_vars PROVE Shape'
  OBVIOUS
<1>1. InitOnce' /\ (initialized => initialized') /\ DOMAIN inits \subseteq DOMAIN inits'
  BY RunsStep DEF Shape
<1>2. config' = config
  BY NextMoves
<1>3. ASSUME NEW b \in Action, NEW g, g = act'[b], FrameOK(g), WaitsNext(g)
      PROVE  FrameOK(act[b])' /\ WaitsOK(act[b])'
  BY <1>2, <1>3 DEF FrameOK, Granted, InPlace, RunsHealing, Captures, Earned, WaitsOK, WaitsNext
<1>4. ASSUME NEW b \in Action PROVE FrameOK(act[b]) /\ WaitsNext(act[b])
  BY <1>1 DEF Shape, WaitsOK, WaitsNext
<1>5. CASE UNCHANGED act
  BY <1>1, <1>3, <1>4, <1>5 DEF Shape
<1>6. ASSUME NEW a \in Action, NEW f, StepTo(a, f) PROVE Shape'
  <2>1. \A b \in Action : act'[b] = IF b = a THEN f ELSE act[b]
    BY <1>6 DEF StepTo, TypeOK
  <2>2. FrameOK(f) /\ WaitsNext(f)
    BY <1>6 DEF StepTo
  <2>3. ASSUME NEW b \in Action PROVE FrameOK(act[b])' /\ WaitsOK(act[b])'
    BY <1>3, <1>4, <2>1, <2>2
  <2>. QED BY <1>1, <2>3 DEF Shape
<1>. QED BY <1>5, <1>6, NextMoves

CountsType == [DOMAIN NoCounts -> Nat]

\* What the end of a call adds to the counters.
LEMMA CountedStep ==
    ASSUME TypeOK, NEW f, Counted(f), f.status \in {"succeeded", "self_healed", "failed"},
           f.status = "self_healed" <=> f.heal = "succeeded"
    PROVE  /\ counters' \in CountsType
           /\ \A st \in {"succeeded", "self_healed", "failed"} :
                 counters'[st] = counters[st] + (IF f.status = st THEN 1 ELSE 0)
           /\ counters'.failures = counters.failures + (IF f.status = "failed" THEN 1 ELSE 0)
           /\ counters'.applied = counters.applied + (IF f.status = "self_healed" THEN 1 ELSE 0)
<1>1. DOMAIN NoCounts = {"succeeded", "self_healed", "failed", "failures", "applied", "notApplied"}
  BY DEF NoCounts
<1>2. counters \in CountsType /\ \A x \in DOMAIN NoCounts : counters[x] \in Nat
  BY DEF TypeOK, CountsType
<1>3. /\ counters' \in CountsType
      /\ \A x \in {"succeeded", "self_healed", "failed"} :
            counters'[x] = counters[x] + (IF f.status = x THEN 1 ELSE 0)
      /\ counters'.failures = counters.failures + (IF f.status = "failed" THEN 1 ELSE 0)
      /\ counters'.applied = counters.applied + (IF f.status = "self_healed" THEN 1 ELSE 0)
  <2>. DEFINE st == f.status
              d == IF f.heal \in {"skipped", "failed"} THEN 1 ELSE 0
  <2>1. counters' = [counters EXCEPT
           ![st] = @ + 1,
           !.failures  = @ + (IF st = "failed" THEN 1 ELSE 0),
           !.applied   = @ + (IF f.heal = "succeeded" THEN 1 ELSE 0),
           !.notApplied = @ + (IF f.heal \in {"skipped", "failed"} THEN 1 ELSE 0)]
    BY DEF Counted
  <2>2. st \in DOMAIN NoCounts
    BY <1>1
  <2>. HIDE DEF st
  <2>3. \A x \in DOMAIN NoCounts :
           counters'[x] = CASE x = "failures"   -> counters[x] + (IF st = "failed" THEN 1 ELSE 0)
                            [] x = "applied"    -> counters[x] + (IF f.heal = "succeeded" THEN 1 ELSE 0)
                            [] x = "notApplied" -> counters[x] + d
                            [] OTHER -> IF x = st THEN counters[x] + 1 ELSE counters[x]
    BY <1>1, <1>2, <2>1, <2>2 DEF CountsType, st
  <2>4. DOMAIN counters' = DOMAIN NoCounts /\ counters' = [x \in DOMAIN NoCounts |-> counters'[x]]
    BY <1>2, <2>1 DEF CountsType
  <2>5. \A x \in DOMAIN NoCounts : counters'[x] \in Nat
    BY <1>1, <1>2, <2>3
  <2>6. counters' \in CountsType
    BY <2>4, <2>5 DEF CountsType
  <2>7. \A x \in {"succeeded", "self_healed", "failed"} :
           counters'[x] = counters[x] + (IF st = x THEN 1 ELSE 0)
    <3>1. \A x \in {"succeeded", "self_healed", "failed"} :
             x \in DOMAIN NoCounts /\ x # "failures" /\ x # "applied" /\ x # "notApplied"
      BY <1>1
    <3>. QED BY <1>2, <2>3, <3>1
  <2>8. /\ counters'.failures = counters.failures + (IF st = "failed" THEN 1 ELSE 0)
        /\ counters'.applied = counters.applied + (IF f.heal = "succeeded" THEN 1 ELSE 0)
    BY <1>1, <2>3
  <2>9. f.heal = "succeeded" <=> st = "self_healed"
    BY DEF st
  <2>. QED BY <2>6, <2>7, <2>8, <2>9 DEF st
<1>. QED BY <1>3

LEMMA CountersStep ==
    ASSUME TypeOK, NEW a \in Action, NEW f, Counts(a, f)
    PROVE  /\ counters' \in CountsType
           /\ counters.failures = counters.failed => counters'.failures = counters'.failed
           /\ counters.applied = counters.self_healed => counters'.applied = counters'.self_healed
<1>1. CASE UNCHANGED counters
  BY <1>1 DEF TypeOK, CountsType
<1>2. CASE ~UNCHANGED counters
  BY <1>2, CountedStep DEF Counts
<1>. QED BY <1>1, <1>2

LEMMA HistoryStep ==
    ASSUME TypeOK, NEW f, NEW s \in Source, history' = [history EXCEPT ![s] = Observation(f, s, @)]
    PROVE  /\ history' \in [Source -> [DOMAIN NoHistory -> Nat]]
           /\ \A t \in Source : t # s => history'[t] = history[t]
           /\ history'[s] = Observation(f, s, history[s])
           /\ \A t \in Source : /\ history[t].attempts \in Nat /\ history[t].validated \in Nat
                                /\ history[t].applied \in Nat /\ history[t].notApplied \in Nat
<1>1. DOMAIN NoHistory = {"attempts", "validated", "applied", "notApplied"}
  BY DEF NoHistory
<1>2. \A t \in Source : /\ history[t].attempts \in Nat /\ history[t].validated \in Nat
                        /\ history[t].applied \in Nat /\ history[t].notApplied \in Nat
  BY <1>1 DEF TypeOK
<1>3. Observation(f, s, history[s]) \in [DOMAIN NoHistory -> Nat]
  BY <1>1, <1>2 DEF Observation
<1>. QED BY <1>2, <1>3 DEF TypeOK

LEMMA TypeStep == TypeOK /\ Shape /\ [Next]_vars => TypeOK'
<1>. SUFFICES ASSUME TypeOK, Shape, [Next]_vars PROVE TypeOK'
  OBVIOUS
<1>1. initialized' \in BOOLEAN /\ promise' \in 0 .. Len(inits') /\ inits' \in Seq(Run)
  BY RunsStep DEF Shape
<1>2. config' \in Configs
  BY NextMoves DEF TypeOK
<1>3. host' \in Host
  <2>1. Hosts \subseteq Host
    BY DEF Hosts, Host
  <2>. QED BY <2>1 DEF TypeOK, Next, Start, Refuse, Progress, Resume, ResumeOpen, Succeeds, ActionFails,
                       Screenshot, Analyse, Validate, Heal, Observe, Propose, WriteArtifact, Initializes,
                       InitializeEnds, ForgetPromise, Browse, vars
<1>4. /\ budget' \in Budget /\ act' \in [Action -> Frame] /\ counters' \in CountsType
      /\ history' \in [Source -> [DOMAIN NoHistory -> Nat]]
  <2>1. CASE UNCHANGED <<act, budget, counters, history>>
    BY <2>1 DEF TypeOK, CountsType
  <2>2. ASSUME NEW a \in Action, NEW f, StepTo(a, f)
        PROVE  /\ budget' \in Budget /\ act' \in [Action -> Frame] /\ counters' \in CountsType
               /\ history' \in [Source -> [DOMAIN NoHistory -> Nat]]
    <3>1. act' \in [Action -> Frame] /\ FrameOK(f)
      BY <2>2 DEF StepTo, FrameOK, TypeOK
    <3>2. budget' = budget \/ budget' = Consumed(budget, config)
      BY <2>2 DEF StepTo, Verdicts
    <3>3. budget' \in Budget
      <4>1. budget.healing + 1 \in Nat /\ budget.artifacts + 1 \in Nat
        BY DEF TypeOK, Budget
      <4>2. Consumed(budget, config).warned \in BOOLEAN
        BY DEF Consumed
      <4>3. Consumed(budget, config) \in Budget
        BY <4>1, <4>2 DEF Consumed, Budget
      <4>. QED BY <3>2, <4>3 DEF TypeOK
    <3>4. counters' \in CountsType
      BY <2>2, <3>1, CountersStep DEF StepTo
    <3>5. history' \in [Source -> [DOMAIN NoHistory -> Nat]]
      BY <2>2, HistoryStep DEF StepTo, Records, TypeOK
    <3>. QED BY <3>1, <3>3, <3>4, <3>5
  <2>. QED BY <2>1, <2>2, NextMoves
<1>. QED BY <1>1, <1>2, <1>3, <1>4 DEF TypeOK, Run, CountsType

LEMMA InitShape == Init => TypeOK /\ Shape /\ Numbered
<1>. SUFFICES ASSUME Init PROVE TypeOK /\ Shape /\ Numbered
  OBVIOUS
<1>1. inits = <<>> /\ inits \in Seq(Run) /\ Len(inits) = 0 /\ DOMAIN inits = {}
  BY DEF Init
<1>2. \A a \in Action : act[a] = Idle
  BY DEF Init
<1>3. FreshFrame(Idle) /\ Idle.pc = "idle" /\ Idle.status = "running"
  BY IdleFrame DEF Idle, FreshFrame, Untouched, NoSource
<1>4. FrameOK(Idle) /\ WaitsOK(Idle)
  BY <1>3, FreshFrameOK DEF Early, Over, WaitsOK
<1>5. Shape
  BY <1>1, <1>2, <1>4 DEF Shape, InitOnce, Init
<1>6. NoFailures \in Budget /\ NoFailures.healing = 0 /\ NoFailures.artifacts = 0
  BY DEF NoFailures, Budget
<1>7. NoCounts \in [DOMAIN NoCounts -> Nat] /\ NoHistory \in [DOMAIN NoHistory -> Nat]
  BY DEF NoCounts, NoHistory
<1>8. TypeOK
  <2>1. act \in [Action -> Frame]
    BY IdleFrame DEF Init
  <2>2. counters \in [DOMAIN NoCounts -> Nat] /\ history \in [Source -> [DOMAIN NoHistory -> Nat]]
    BY <1>7 DEF Init
  <2>3. config \in Configs /\ host \in Host /\ initialized \in BOOLEAN /\ promise = 0 /\ budget \in Budget
    BY <1>6 DEF Init, Host
  <2>. QED BY <1>1, <2>1, <2>2, <2>3 DEF TypeOK, Run
<1>9. \A a \in Action : act[a].sequence = 0
  BY <1>2 DEF Idle
<1>10. Numbered
  BY <1>6, <1>9 DEF Numbered, Init
<1>. QED BY <1>5, <1>8, <1>10

\* The invariant holds for any number of calls, however they overlap.
THEOREM Invariance == Spec => [](TypeOK /\ Shape)
<1>1. Init => TypeOK /\ Shape
  BY InitShape
<1>. QED BY <1>1, TypeStep, ShapeStep, PTL DEF Spec

\* No operation that needs the page object initialized acts before it is, and the
\* calls that need it at once share one run of initialize.
THEOREM ActionsWaitForInitialize == Spec => []ReadyBeforeActing
<1>1. TypeOK /\ Shape => ReadyBeforeActing
  <2>. SUFFICES ASSUME TypeOK, Shape PROVE ReadyBeforeActing
    OBVIOUS
  <2>1. \A a \in Action : Is(a, "acting") /\ act[a].op \in NeedsInit => initialized
    BY DEF Shape, WaitsOK, Is
  <2>2. ASSUME NEW j \in DOMAIN inits, NEW k \in DOMAIN inits, j < k PROVE inits[j] = "rejected"
    <3>1. j < Len(inits)
      BY <2>2 DEF TypeOK
    <3>. QED BY <3>1 DEF Shape, InitOnce
  <2>. QED BY <2>1, <2>2 DEF ReadyBeforeActing
<1>. QED BY <1>1, Invariance, PTL

\* A retry is made only for a failure of the call itself, in guarded mode, within
\* the budget and the policy, on a locator that was seen for that failure; and only
\* a retry that succeeded makes a failed call a success.
THEOREM RetriesAreEarned == Spec => []RetryIsEarned
<1>1. TypeOK /\ Shape => RetryIsEarned
  <2>. SUFFICES ASSUME TypeOK, Shape, NEW a \in Action
                PROVE  /\ act[a].heal \in {"succeeded", "failed"} /\ ~Is(a, "settled") => Earned(act[a])
                       /\ Is(a, "settled") => (act[a].status = "self_healed" <=> act[a].heal = "succeeded")
    BY DEF RetryIsEarned, Earned
  <2>1. FrameOK(act[a]) /\ act[a].pc \in Pc
    BY DEF Shape, FrameOK, Frame, Pc
  <2>. QED BY <2>1 DEF FrameOK, InPlace, Is, Pc, Early, Failing, Healing, Retried, Untouched
<1>. QED BY <1>1, Invariance, PTL

\* A promotion is proposed only by a call that healed itself on a locator other than
\* the registry's, for a selector it named and whose version it read.
THEOREM ProposalsAreEarned == Spec => []ProposalIsEarned
<1>1. Shape => ProposalIsEarned
  <2>. SUFFICES ASSUME Shape, NEW a \in Action, act[a].promotion \in {"succeeded", "failed"}
                PROVE  /\ act[a].heal = "succeeded" /\ a \in Diagnosed
                       /\ act[a].selector /\ act[a].accepted = "suggested"
                       /\ Is(a, "settled") => act[a].status = "self_healed"
                       /\ Is(a, "writing") =>
                             act[a].ranked \in {<<"registry", "suggested">>, <<"suggested", "registry">>}
    BY DEF ProposalIsEarned
  <2>1. Granted(act[a]) /\ InPlace(act[a])
    BY DEF Shape, FrameOK
  <2>. QED BY <2>1 DEF Granted, InPlace, Is, Diagnosed, Failing
<1>. QED BY <1>1, Invariance, PTL

-----------------------------------------------------------------------------
(* The failure storm.                                                      *)

LEMMA NumberedStep == TypeOK /\ Shape /\ Numbered /\ [Next]_vars => Numbered'
<1>. SUFFICES ASSUME TypeOK, Shape, Numbered, [Next]_vars PROVE Numbered'
  OBVIOUS
<1>1. config' = config /\ config \in Config
  BY NextMoves, ConstantsAssumption DEF TypeOK
<1>2. budget.healing \in Nat /\ budget.artifacts = budget.healing
  BY DEF TypeOK, Budget, Numbered
<1>3. \A a \in Action : act[a].sequence \in Nat
  BY DEF TypeOK, Frame
<1>4. CASE UNCHANGED <<act, budget>>
  BY <1>1, <1>4 DEF Numbered
<1>5. ASSUME NEW a \in Action, NEW f, StepTo(a, f) PROVE Numbered'
  <2>1. \A b \in Action : act'[b] = IF b = a THEN f ELSE act[b]
    BY <1>5 DEF StepTo, TypeOK
  <2>2. CASE SameVerdict(f, act[a]) /\ budget' = budget
    BY <1>1, <2>1, <2>2 DEF Numbered, SameVerdict
  <2>3. CASE ~ConsumesBudget(config) /\ act[a].sequence = 0 /\ f.sequence = 0 /\ budget' = budget
    BY <1>1, <1>3, <2>1, <2>3 DEF Numbered
  <2>4. CASE /\ ConsumesBudget(config) /\ act[a].sequence = 0
             /\ f.sequence = budget.healing + 1 /\ f.decision = Decision(Consumed(budget, config), config)
             /\ budget' = Consumed(budget, config)
    <3>1. budget'.healing = budget.healing + 1 /\ budget'.artifacts = budget.healing + 1
      BY <1>2, <2>4 DEF Consumed
    <3>2. config.maxHealing \in Nat /\ config.maxArtifacts \in Nat
      BY <1>1 DEF Config
    <3>3. config.budget = "enforce" =>
             /\ f.decision = "none" <=> f.sequence <= config.maxHealing /\ f.sequence <= config.maxArtifacts
             /\ f.decision = "original_error_only" <=> f.sequence > config.maxArtifacts
      BY <1>2, <2>4, <3>1, <3>2 DEF Decision
    <3>4. \A b \in Action : b # a => act[b].sequence <= budget.healing
      BY DEF Numbered
    <3>5. \A b, c \in Action : act'[b].sequence = act'[c].sequence /\ act'[b].sequence > 0 => b = c
      BY <1>2, <1>3, <2>1, <2>4, <3>4 DEF Numbered
    <3>6. \A b \in Action : act'[b].sequence <= budget'.healing
      BY <1>2, <1>3, <2>1, <2>4, <3>1, <3>4
    <3>7. \A b \in Action : act'[b].sequence > 0 /\ config.budget = "enforce" =>
             /\ act'[b].decision = "none" <=>
                   act'[b].sequence <= config.maxHealing /\ act'[b].sequence <= config.maxArtifacts
             /\ act'[b].decision = "original_error_only" <=> act'[b].sequence > config.maxArtifacts
      BY <2>1, <3>3 DEF Numbered
    <3>. QED BY <1>1, <3>1, <3>5, <3>6, <3>7 DEF Numbered
  <2>5. Verdicts(a, f)
    BY <1>5 DEF StepTo
  <2>. QED BY <2>2, <2>3, <2>4, <2>5 DEF Verdicts, Verdict
<1>. QED BY <1>4, <1>5, NextMoves

\* Calls whose failures have different numbers from 1 to n are at most n.
LEMMA NumbersBound ==
    ASSUME TypeOK, Numbered, NEW n \in Nat, NEW S \in SUBSET Action,
           \A a \in S : act[a].sequence > 0 /\ act[a].sequence <= n
    PROVE  Cardinality(S) <= n
<1>. DEFINE number == [a \in S |-> act[a].sequence]
<1>1. \A a \in S : act[a].sequence \in 1 .. n
  BY DEF TypeOK, Frame
<1>2. number \in Injection(S, 1 .. n)
  BY <1>1 DEF Injection, IsInjective, Numbered
<1>3. IsFiniteSet(1 .. n) /\ Cardinality(1 .. n) = n
  BY FS_Interval
<1>4. Cardinality(S) <= Cardinality(1 .. n)
  <2>. HIDE DEF number
  <2>. QED BY <1>2, <1>3, FS_Injection
<1>. QED BY <1>3, <1>4

\* The enforced budget bounds a failure storm: what is spent on diagnosis, retries
\* and artifacts goes to the first failures counted and stays within both limits,
\* however many calls fail at once.
THEOREM StormsAreBounded == Spec => []StormIsBounded
<1>1. TypeOK /\ Shape /\ Numbered => StormIsBounded
  <2>. SUFFICES ASSUME TypeOK, Shape, Numbered, config.budget = "enforce"
                PROVE  /\ Cardinality(Diagnosed) <= config.maxHealing
                       /\ Cardinality(Diagnosed) <= config.maxArtifacts
                       /\ Cardinality(Captured) <= config.maxArtifacts
                       /\ \A a, b \in Action :
                             act[a].sequence \in 1 .. act[b].sequence /\ b \in Diagnosed => a \in Diagnosed
    BY DEF StormIsBounded
  <2>1. config.maxHealing \in Nat /\ config.maxArtifacts \in Nat
    BY ConstantsAssumption DEF TypeOK, Config
  <2>2. \A a \in Action : act[a].sequence \in Nat
    BY DEF TypeOK, Frame
  <2>3. \A a \in Action : Granted(act[a]) /\ InPlace(act[a])
    BY DEF Shape, FrameOK
  <2>4. \A a \in Action : a \in Diagnosed <=> act[a].sequence > 0 /\ act[a].decision = "none"
    BY <2>3 DEF Diagnosed, Granted
  <2>5. \A a \in Captured : act[a].sequence > 0 /\ act[a].decision # "original_error_only"
    BY <2>3 DEF Captured, Granted, InPlace, Is, Failing, Captures
  <2>6. Diagnosed \in SUBSET Action /\ Captured \in SUBSET Action
    BY DEF Diagnosed, Captured
  <2>7. \A a \in Diagnosed : /\ act[a].sequence > 0
                             /\ act[a].sequence <= config.maxHealing /\ act[a].sequence <= config.maxArtifacts
    BY <2>4, <2>6 DEF Numbered
  <2>8. \A a \in Captured : act[a].sequence > 0 /\ act[a].sequence <= config.maxArtifacts
    BY <2>1, <2>2, <2>5, <2>6 DEF Numbered
  <2>9. ASSUME NEW a \in Action, NEW b \in Action, act[a].sequence \in 1 .. act[b].sequence, b \in Diagnosed
        PROVE  a \in Diagnosed
    <3>1. act[a].sequence > 0 /\ act[a].sequence <= config.maxHealing /\ act[a].sequence <= config.maxArtifacts
      BY <2>1, <2>2, <2>7, <2>9
    <3>. QED BY <2>4, <3>1 DEF Numbered
  <2>. QED BY <2>1, <2>6, <2>7, <2>8, <2>9, NumbersBound
<1>2. TypeOK /\ Shape /\ Numbered /\ [Next]_vars => TypeOK' /\ Shape' /\ Numbered'
  BY TypeStep, ShapeStep, NumberedStep
<1>. QED BY <1>1, <1>2, InitShape, PTL DEF Spec

-----------------------------------------------------------------------------
(* The telemetry.                                                          *)

ObservedBy(s) == {a \in Action : Observed(act[a], s)}

Tally ==
    /\ \A st \in {"succeeded", "self_healed", "failed"} : counters[st] = Cardinality(Ended(st))
    /\ counters.failures = counters.failed
    /\ counters.applied = counters.self_healed
    /\ \A s \in Source :
          /\ history[s].applied + history[s].notApplied <= history[s].validated
          /\ history[s].validated <= history[s].attempts
          /\ history[s].applied <= Cardinality(ObservedBy(s))

LEMMA ActionFinite == IsFiniteSet(Action) /\ \A S \in SUBSET Action : IsFiniteSet(S) /\ Cardinality(S) \in Nat
<1>1. IsFiniteSet(Action)
  BY FS_Interval, ConstantsAssumption DEF Action
<1>. QED BY <1>1, FS_Subset, FS_CardinalityType

\* The calls that ended in a status are one more exactly if that status was counted.
LEMMA EndedStep ==
    ASSUME TypeOK, NEW a \in Action, NEW f, StepTo(a, f), NEW st \in {"succeeded", "self_healed", "failed"},
           counters[st] = Cardinality(Ended(st))
    PROVE  counters'[st] = Cardinality(Ended(st)')
<1>1. \A b \in Action : act'[b] = IF b = a THEN f ELSE act[b]
  BY DEF StepTo, TypeOK
<1>2. \A b : b \in Ended(st) <=> b \in Action /\ act[b].pc \in Over /\ act[b].status = st
  BY DEF Ended, Over
<1>3. \A b : b \in Ended(st)' <=> b \in Action /\ act'[b].pc \in Over /\ act'[b].status = st
  BY DEF Ended, Over
<1>4. Ended(st) \in SUBSET Action /\ IsFiniteSet(Ended(st)) /\ Cardinality(Ended(st)) \in Nat
  BY <1>2, ActionFinite
<1>5. CASE /\ act[a].pc \notin Over /\ f.pc \in Over /\ Counted(f)
           /\ f.status \in {"succeeded", "self_healed", "failed"}
           /\ f.status = "self_healed" <=> f.heal = "succeeded"
  <2>1. counters'[st] = counters[st] + (IF f.status = st THEN 1 ELSE 0)
    BY <1>5, CountedStep
  <2>2. CASE f.status = st
    <3>1. Ended(st)' = Ended(st) \cup {a} /\ a \notin Ended(st)
      BY <1>1, <1>2, <1>3, <1>5, <2>2
    <3>2. Cardinality(Ended(st) \cup {a}) = Cardinality(Ended(st)) + 1
      BY <1>4, <3>1, FS_AddElement
    <3>. QED BY <2>1, <2>2, <3>1, <3>2
  <2>3. CASE f.status # st
    <3>0. \A b : b \in Ended(st)' <=> b \in Ended(st)
      BY <1>1, <1>2, <1>3, <1>5, <2>3
    <3>1. Ended(st)' = Ended(st)
      BY <3>0, Zenon
    <3>. QED BY <1>4, <2>1, <2>3, <3>1
  <2>. QED BY <2>2, <2>3
<1>6. CASE /\ UNCHANGED counters
           /\ \/ act[a].pc \notin Over /\ (f.pc \notin Over \/ f.status = "refused")
              \/ act[a].pc = "opening" /\ f.pc = "settled" /\ f.status = act[a].status
  <2>0. \A b : b \in Ended(st)' <=> b \in Ended(st)
    BY <1>1, <1>2, <1>3, <1>6 DEF Over
  <2>1. Ended(st)' = Ended(st)
    BY <2>0, Zenon
  <2>. QED BY <1>6, <2>1
<1>. QED BY <1>5, <1>6 DEF StepTo, Counts

\* The history of a candidate grows only by what its calls did.
LEMMA RecordsStep ==
    ASSUME TypeOK, Tally, NEW a \in Action, NEW f, StepTo(a, f), NEW t \in Source
    PROVE  /\ history'[t].applied + history'[t].notApplied <= history'[t].validated
           /\ history'[t].validated <= history'[t].attempts
           /\ history'[t].applied <= Cardinality(ObservedBy(t)')
<1>1. \A b \in Action : act'[b] = IF b = a THEN f ELSE act[b]
  BY DEF StepTo, TypeOK
<1>2. \A x : /\ x \in ObservedBy(t) <=> x \in Action /\ Observed(act[x], t)
             /\ x \in ObservedBy(t)' <=> x \in Action /\ Observed(act'[x], t)
  BY DEF ObservedBy, Observed
<1>3. /\ IsFiniteSet(ObservedBy(t)) /\ Cardinality(ObservedBy(t)) \in Nat
      /\ IsFiniteSet(ObservedBy(t)') /\ Cardinality(ObservedBy(t)') \in Nat
  <2>1. ObservedBy(t) \in SUBSET Action /\ ObservedBy(t)' \in SUBSET Action
    BY <1>2
  <2>. HIDE DEF ObservedBy
  <2>. QED BY <2>1, ActionFinite
<1>4. /\ history[t].attempts \in Nat /\ history[t].validated \in Nat
      /\ history[t].applied \in Nat /\ history[t].notApplied \in Nat
  BY DEF TypeOK, NoHistory
<1>5. ASSUME \A x : Observed(act[a], x) => Observed(f, x)
      PROVE  Cardinality(ObservedBy(t)) <= Cardinality(ObservedBy(t)')
  <2>1. ObservedBy(t) \in SUBSET (ObservedBy(t)')
    BY <1>1, <1>2, <1>5
  <2>. QED BY <1>3, <2>1, FS_Subset
<1>6. CASE UNCHANGED history /\ \A x : Observed(act[a], x) => Observed(f, x)
  BY <1>3, <1>4, <1>5, <1>6 DEF Tally
<1>7. ASSUME NEW s \in Source, Retried(act[a]) => act[a].accepted \in act[a].visible,
             history' = [history EXCEPT ![s] = Observation(act[a], s, @)],
             ~Observed(act[a], s), \A x : Observed(act[a], x) => Observed(f, x),
             act[a].heal = "succeeded" /\ act[a].accepted = s => Observed(f, s)
      PROVE  /\ history'[t].applied + history'[t].notApplied <= history'[t].validated
             /\ history'[t].validated <= history'[t].attempts
             /\ history'[t].applied <= Cardinality(ObservedBy(t)')
  <2>1. CASE t # s
    <3>1. history'[t] = history[t]
      BY <1>7, <2>1, HistoryStep
    <3>. QED BY <1>3, <1>4, <1>5, <1>7, <3>1 DEF Tally
  <2>2. CASE t = s
    <3>1. history'[t] = Observation(act[a], t, history[t])
      BY <1>7, <2>2, HistoryStep
    <3>2. /\ history'[t].attempts = history[t].attempts + 1
          /\ history'[t].validated = history[t].validated + (IF t \in act[a].visible THEN 1 ELSE 0)
          /\ history'[t].applied = history[t].applied
                + (IF t = act[a].accepted /\ act[a].heal = "succeeded" THEN 1 ELSE 0)
          /\ history'[t].notApplied = history[t].notApplied
                + (IF t = act[a].accepted /\ act[a].heal = "failed" THEN 1 ELSE 0)
      BY <3>1 DEF Observation
    <3>3. /\ history[t].applied + history[t].notApplied <= history[t].validated
          /\ history[t].validated <= history[t].attempts
          /\ history[t].applied <= Cardinality(ObservedBy(t))
      BY DEF Tally
    <3>4. t = act[a].accepted /\ act[a].heal \in {"succeeded", "failed"} => t \in act[a].visible
      BY <1>7 DEF Retried
    <3>5. CASE t = act[a].accepted /\ act[a].heal = "succeeded"
      <4>1. a \notin ObservedBy(t) /\ ObservedBy(t) \cup {a} \in SUBSET (ObservedBy(t)')
        BY <1>1, <1>2, <1>7, <2>2, <3>5
      <4>2. /\ IsFiniteSet(ObservedBy(t) \cup {a})
            /\ Cardinality(ObservedBy(t) \cup {a}) = Cardinality(ObservedBy(t)) + 1
        BY <1>3, <4>1, FS_AddElement
      <4>3. Cardinality(ObservedBy(t) \cup {a}) <= Cardinality(ObservedBy(t)')
        BY <1>3, <4>1, FS_Subset
      <4>. QED BY <1>3, <1>4, <3>2, <3>3, <3>4, <3>5, <4>2, <4>3
    <3>6. CASE ~(t = act[a].accepted /\ act[a].heal = "succeeded")
      <4>1. Cardinality(ObservedBy(t)) <= Cardinality(ObservedBy(t)')
        BY <1>5, <1>7
      <4>. QED BY <1>3, <1>4, <3>2, <3>3, <3>4, <3>6, <4>1
    <3>. QED BY <3>5, <3>6
  <2>. QED BY <2>1, <2>2
<1>. QED BY <1>6, <1>7 DEF StepTo, Records

LEMMA TallyStep == TypeOK /\ Shape /\ Tally /\ [Next]_vars => Tally'
<1>. SUFFICES ASSUME TypeOK, Shape, Tally, [Next]_vars PROVE Tally'
  OBVIOUS
<1>1. CASE UNCHANGED <<act, budget, counters, history>>
  BY <1>1 DEF Tally, Ended, ObservedBy
<1>2. ASSUME NEW a \in Action, NEW f, StepTo(a, f) PROVE Tally'
  <2>1. \A st \in {"succeeded", "self_healed", "failed"} : counters'[st] = Cardinality(Ended(st)')
    BY <1>2, EndedStep DEF Tally
  <2>2. counters'.failures = counters'.failed /\ counters'.applied = counters'.self_healed
    <3>1. FrameOK(f) /\ Counts(a, f)
      BY <1>2 DEF StepTo
    <3>. QED BY <3>1, CountersStep DEF Tally
  <2>. QED BY <1>2, <2>1, <2>2, RecordsStep DEF Tally
<1>. QED BY <1>1, <1>2, NextMoves

\* The counters of the telemetry say how every call ended, and the history of a
\* candidate counts each retry once, for the candidate it was made on and after its
\* validation, however many calls overlap.
THEOREM TelemetryIsTrue == Spec => []TelemetryAddsUp
<1>1. Init => Tally
  <2>. SUFFICES ASSUME Init PROVE Tally
    OBVIOUS
  <2>1. \A a \in Action : act[a].pc = "idle" /\ act[a].heal = "none"
    BY DEF Init, Idle
  <2>2. /\ \A st \in {"succeeded", "self_healed", "failed"} : Ended(st) = {}
        /\ \A s \in Source : ObservedBy(s) = {}
    BY <2>1 DEF Ended, ObservedBy, Observed
  <2>3. Cardinality({}) = 0
    BY FS_EmptySet
  <2>4. /\ counters = NoCounts /\ \A s \in Source : history[s] = NoHistory
    BY DEF Init
  <2>. QED BY <2>2, <2>3, <2>4 DEF Tally, NoCounts, NoHistory
<1>2. TypeOK /\ Tally => TelemetryAddsUp
  <2>. SUFFICES ASSUME TypeOK, Tally PROVE TelemetryAddsUp
    OBVIOUS
  <2>1. ASSUME NEW s \in Source
        PROVE  history[s].applied <= Cardinality({a \in Action : act[a].heal = "succeeded" /\ act[a].accepted = s})
    <3>. DEFINE H == {a \in Action : act[a].heal = "succeeded" /\ act[a].accepted = s}
    <3>1. ObservedBy(s) \in SUBSET H /\ H \in SUBSET Action /\ ObservedBy(s) \in SUBSET Action
      BY DEF ObservedBy, Observed
    <3>. HIDE DEF H
    <3>2. Cardinality(ObservedBy(s)) <= Cardinality(H) /\ Cardinality(H) \in Nat
          /\ Cardinality(ObservedBy(s)) \in Nat
      BY <3>1, ActionFinite, FS_Subset
    <3>3. history[s].applied \in Nat /\ history[s].applied <= Cardinality(ObservedBy(s))
      BY DEF TypeOK, NoHistory, Tally
    <3>4. history[s].applied <= Cardinality(H)
      BY <3>2, <3>3
    <3>. QED BY <3>4 DEF H
  <2>. QED BY <2>1 DEF Tally, TelemetryAddsUp
<1>. QED BY <1>1, <1>2, TallyStep, Invariance, PTL DEF Spec
=============================================================================
