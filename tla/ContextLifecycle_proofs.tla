------------------------ MODULE ContextLifecycle_proofs ------------------------
(***************************************************************************)
(* Proofs about ContextLifecycle, for any disposers, any number of callers *)
(* and any bound on runs.                                                  *)
(***************************************************************************)
EXTENDS ContextLifecycle, TLAPS

-----------------------------------------------------------------------------
(* Type correctness.                                                       *)

\* The runs inside the synchronous stretch of a disposer are those on the stack,
\* each once.
StackOK ==
    /\ \A i \in 1 .. Len(stack) : run[stack[i]].pc = "calling"
    /\ \A i, k \in 1 .. Len(stack) : stack[i] = stack[k] => i = k

\* A run that has called a disposer knows which, and has not counted it off yet.
FrameOK(f) == f.pc \in {"calling", "awaiting"} => f.registered \in Disposer /\ f.index > 0

Shape == StackOK /\ \A r \in Run : FrameOK(run[r])

LEMMA TopAndBelow ==
    ASSUME TypeOK, ~EventLoop
    PROVE  /\ Top \in Run /\ Len(stack) \in Nat /\ Len(stack) > 0
           /\ Below \in Seq(Run) /\ Len(Below) = Len(stack) - 1
           /\ \A i \in 1 .. Len(Below) : Below[i] = stack[i]
<1>1. stack \in Seq(Run) /\ stack # <<>>
  BY DEF TypeOK, EventLoop
<1>2. Len(stack) \in Nat /\ Len(stack) > 0 /\ Top \in Run
  BY <1>1 DEF Top
<1>3. \A i \in 1 .. Len(stack) - 1 : stack[i] \in Run
  BY <1>1, <1>2
<1>4. Below = [i \in 1 .. Len(stack) - 1 |-> stack[i]]
  BY <1>1, <1>2 DEF Below
<1>. QED BY <1>2, <1>3, <1>4

\* Run r ends its synchronous stretch or calls the next disposer.
LEMMA LoopEffect ==
    ASSUME TypeOK, NEW r \in Run, NEW f \in Frame, NEW below, Loop(r, f, below)
    PROVE  \E g \in Frame :
              /\ run' = [run EXCEPT ![r] = g] /\ FrameOK(g)
              /\ \/ /\ f.index = 0 /\ g.pc = "finally" /\ ~g.first
                    /\ closing' = IF f.first THEN r ELSE closing
                    /\ stack' = below /\ disposers' = <<>> /\ ran' = ran
                 \/ /\ f.index > Len(disposers) /\ g.pc = "finally" /\ ~g.first
                    /\ closing' = IF f.first THEN r ELSE closing
                    /\ stack' = below /\ disposers' = disposers /\ ran' = ran
                 \/ /\ f.index \in 1 .. Len(disposers) /\ g.pc = "calling"
                    /\ g.index = f.index /\ g.first = f.first
                    /\ closing' = closing /\ stack' = Append(below, r)
                    /\ disposers' = disposers /\ ran' = Append(ran, disposers[f.index])
<1>. DEFINE g1 == [[f EXCEPT !.pc = "finally"] EXCEPT !.first = FALSE]
            g2 == [[f EXCEPT !.pc = "finally", !.failures = @ \cup {Crash}] EXCEPT !.first = FALSE]
            d == disposers[f.index]
            g3 == [f EXCEPT !.pc = "calling", !.registered = d]
<1>1. g1 \in Frame /\ g1.pc = "finally" /\ g1.first = FALSE
  BY DEF Frame
<1>2. g2 \in Frame /\ g2.pc = "finally" /\ g2.first = FALSE
  BY DEF Frame
<1>3. f.index \in Nat
  BY DEF Frame
<1>4. f.index \in 1 .. Len(disposers) =>
         /\ g3 \in Frame /\ g3.pc = "calling" /\ g3.index = f.index /\ g3.first = f.first
         /\ g3.registered \in Disposer /\ g3.index > 0
  <2>1. SUFFICES ASSUME f.index \in 1 .. Len(disposers)
                 PROVE  /\ g3 \in Frame /\ g3.pc = "calling" /\ g3.index = f.index /\ g3.first = f.first
                        /\ g3.registered \in Disposer /\ g3.index > 0
    OBVIOUS
  <2>2. d \in Disposer
    BY <2>1 DEF TypeOK
  <2>. HIDE DEF d
  <2>. DEFINE h == [f EXCEPT !.pc = "calling"]
  <2>3. h \in Frame /\ h.pc = "calling" /\ h.index = f.index /\ h.first = f.first
    BY DEF Frame
  <2>. HIDE DEF h
  <2>4. [h EXCEPT !.registered = d] \in Frame
    BY <2>2, <2>3 DEF Frame
  <2>5. /\ [h EXCEPT !.registered = d].pc = "calling" /\ [h EXCEPT !.registered = d].index = f.index
        /\ [h EXCEPT !.registered = d].first = f.first /\ [h EXCEPT !.registered = d].registered = d
    BY <2>3 DEF Frame
  <2>. QED BY <1>3, <2>1, <2>2, <2>4, <2>5 DEF h
<1>5. CASE f.index = 0 /\ Leave(r, [f EXCEPT !.pc = "finally"], below) /\ disposers' = <<>> /\ UNCHANGED ran
  <2>1. run' = [run EXCEPT ![r] = g1] /\ closing' = IF f.first THEN r ELSE closing
    BY <1>5 DEF Leave, Frame
  <2>. HIDE DEF g1
  <2>. QED BY <1>1, <1>5, <2>1 DEF Leave, FrameOK
<1>6. CASE /\ f.index > Len(disposers)
           /\ Leave(r, [f EXCEPT !.pc = "finally", !.failures = @ \cup {Crash}], below)
           /\ UNCHANGED <<disposers, ran>>
  <2>1. run' = [run EXCEPT ![r] = g2] /\ closing' = IF f.first THEN r ELSE closing
    BY <1>6 DEF Leave, Frame
  <2>. HIDE DEF g2
  <2>. QED BY <1>2, <1>6, <2>1 DEF Leave, FrameOK
<1>7. CASE /\ f.index \in 1 .. Len(disposers)
           /\ run' = [run EXCEPT ![r] = g3]
           /\ stack' = Append(below, r)
           /\ ran' = Append(ran, disposers[f.index])
           /\ UNCHANGED <<disposers, closing>>
  <2>. HIDE DEF g3
  <2>. QED BY <1>4, <1>7 DEF FrameOK
<1>. QED BY <1>5, <1>6, <1>7 DEF Loop

\* A stretch that leaves the runs of `below` under it on the stack.
LEMMA LoopKeepsShape ==
    ASSUME TypeOK, Shape, NEW r \in Run, NEW f \in Frame, NEW below \in Seq(Run),
           \A i \in 1 .. Len(below) : run[below[i]].pc = "calling" /\ below[i] # r,
           \A i, k \in 1 .. Len(below) : below[i] = below[k] => i = k,
           Loop(r, f, below)
    PROVE  /\ disposers' \in Seq(Disposer) /\ closing' \in Run \cup {NoRun}
           /\ run' \in [Run -> Frame] /\ stack' \in Seq(Run) /\ ran' \in Seq(Disposer)
           /\ Shape'
<1>1. PICK g \in Frame :
              /\ run' = [run EXCEPT ![r] = g] /\ FrameOK(g)
              /\ \/ /\ f.index = 0 /\ g.pc = "finally" /\ ~g.first
                    /\ closing' = IF f.first THEN r ELSE closing
                    /\ stack' = below /\ disposers' = <<>> /\ ran' = ran
                 \/ /\ f.index > Len(disposers) /\ g.pc = "finally" /\ ~g.first
                    /\ closing' = IF f.first THEN r ELSE closing
                    /\ stack' = below /\ disposers' = disposers /\ ran' = ran
                 \/ /\ f.index \in 1 .. Len(disposers) /\ g.pc = "calling"
                    /\ g.index = f.index /\ g.first = f.first
                    /\ closing' = closing /\ stack' = Append(below, r)
                    /\ disposers' = disposers /\ ran' = Append(ran, disposers[f.index])
  BY LoopEffect
<1>2. run' \in [Run -> Frame] /\ run'[r] = g /\ \A q \in Run : q # r => run'[q] = run[q]
  BY <1>1 DEF TypeOK
<1>3. \A q \in Run : FrameOK(run'[q])
  BY <1>1, <1>2 DEF Shape
<1>4. \A i \in 1 .. Len(below) : below[i] \in Run /\ run'[below[i]].pc = "calling"
  BY <1>2
<1>5. /\ \A i \in 1 .. Len(below) : run'[below[i]].pc = "calling"
      /\ \A i, k \in 1 .. Len(below) : below[i] = below[k] => i = k
  BY <1>4
<1>6. CASE stack' = below /\ disposers' \in {<<>>, disposers} /\ ran' = ran
           /\ closing' = IF f.first THEN r ELSE closing
  <2>1. StackOK'
    BY <1>5, <1>6 DEF StackOK
  <2>0. <<>> \in Seq(Disposer)
    OBVIOUS
  <2>2. \A d \in {<<>>, disposers} : d \in Seq(Disposer)
    BY <2>0 DEF TypeOK
  <2>3. disposers' \in Seq(Disposer) /\ closing' \in Run \cup {NoRun} /\ ran' \in Seq(Disposer)
    BY <1>6, <2>2 DEF TypeOK
  <2>. QED BY <1>2, <1>3, <1>6, <2>1, <2>3 DEF Shape
<1>7. CASE /\ f.index \in 1 .. Len(disposers) /\ g.pc = "calling"
           /\ closing' = closing /\ stack' = Append(below, r)
           /\ disposers' = disposers /\ ran' = Append(ran, disposers[f.index])
  <2>1. /\ stack' \in Seq(Run) /\ Len(stack') = Len(below) + 1 /\ stack'[Len(stack')] = r
        /\ \A i \in 1 .. Len(below) : stack'[i] = below[i]
    BY <1>7
  <2>2. Len(below) \in Nat
    OBVIOUS
  <2>3. StackOK'
    BY <1>2, <1>5, <1>7, <2>1, <2>2 DEF StackOK
  <2>4. disposers[f.index] \in Disposer
    BY <1>7 DEF TypeOK
  <2>. QED BY <1>2, <1>3, <1>7, <2>1, <2>3, <2>4 DEF Shape, TypeOK
<1>. QED BY <1>1, <1>6, <1>7

\* The frame StartRun gives a run, and the one a call of a disposer leaves.
LEMMA LoopFrames ==
    ASSUME NEW f \in Frame
    PROVE  /\ \A n \in Nat :
                /\ [f EXCEPT !.index = n, !.first = TRUE] \in Frame
                /\ [f EXCEPT !.index = n, !.first = TRUE].index = n
                /\ [f EXCEPT !.index = n, !.first = TRUE].first = TRUE
           /\ f.index > 0 => \A s \in SUBSET Disposer :
                /\ [f EXCEPT !.failures = @ \cup s, !.index = @ - 1] \in Frame
                /\ [f EXCEPT !.failures = @ \cup s, !.index = @ - 1].index = f.index - 1
                /\ [f EXCEPT !.failures = @ \cup s, !.index = @ - 1].first = f.first
           /\ f.index \in Nat
<1>1. ASSUME NEW n \in Nat
      PROVE  /\ [f EXCEPT !.index = n, !.first = TRUE] \in Frame
             /\ [f EXCEPT !.index = n, !.first = TRUE].index = n
             /\ [f EXCEPT !.index = n, !.first = TRUE].first = TRUE
  <2>. DEFINE h == [f EXCEPT !.index = n]
  <2>1. h \in Frame /\ h.index = n
    BY DEF Frame
  <2>. HIDE DEF h
  <2>2. [h EXCEPT !.first = TRUE] \in Frame /\ [h EXCEPT !.first = TRUE].index = n
        /\ [h EXCEPT !.first = TRUE].first = TRUE
    BY <2>1 DEF Frame
  <2>. QED BY <2>2 DEF h
<1>2. f.index \in Nat
  BY DEF Frame
<1>3. ASSUME f.index > 0, NEW s \in SUBSET Disposer
      PROVE  /\ [f EXCEPT !.failures = @ \cup s, !.index = @ - 1] \in Frame
             /\ [f EXCEPT !.failures = @ \cup s, !.index = @ - 1].index = f.index - 1
             /\ [f EXCEPT !.failures = @ \cup s, !.index = @ - 1].first = f.first
  <2>. DEFINE m == f.index - 1  t == f.failures \cup s
              h == [f EXCEPT !.failures = t]
  <2>1. m \in Nat
    BY <1>2, <1>3
  <2>2. t \in SUBSET (Disposer \cup {Crash})
    BY DEF Frame
  <2>. HIDE DEF m, t
  <2>3. h \in Frame /\ h.index = f.index /\ h.first = f.first
    BY <2>2 DEF Frame
  <2>. HIDE DEF h
  <2>4. [h EXCEPT !.index = m] \in Frame /\ [h EXCEPT !.index = m].index = m
        /\ [h EXCEPT !.index = m].first = f.first
    BY <2>1, <2>3 DEF Frame
  <2>5. [h EXCEPT !.index = m] = [f EXCEPT !.failures = @ \cup s, !.index = @ - 1]
    BY DEF h, m, t, Frame
  <2>. QED BY <2>4, <2>5 DEF m
<1>. QED BY <1>1, <1>2, <1>3

\* The runs under the innermost one are other runs, each inside a call of its own.
LEMMA BelowIsStacked ==
    ASSUME TypeOK, Shape, ~EventLoop
    PROVE  /\ \A i \in 1 .. Len(Below) : run[Below[i]].pc = "calling" /\ Below[i] # Top
           /\ \A i, k \in 1 .. Len(Below) : Below[i] = Below[k] => i = k
           /\ run[Top].pc = "calling" /\ FrameOK(run[Top]) /\ run[Top] \in Frame
           /\ run[Top].registered \in Disposer /\ run[Top].index > 0
<1>1. /\ Top \in Run /\ Len(stack) \in Nat /\ Len(stack) > 0
      /\ Below \in Seq(Run) /\ Len(Below) = Len(stack) - 1
      /\ \A i \in 1 .. Len(Below) : Below[i] = stack[i]
  BY TopAndBelow
<1>2. run[Top].pc = "calling" /\ FrameOK(run[Top]) /\ run[Top] \in Frame
  BY <1>1 DEF Shape, StackOK, TypeOK, Top
<1>3. \A i \in 1 .. Len(Below) : i \in 1 .. Len(stack) /\ Len(stack) \in 1 .. Len(stack) /\ i # Len(stack)
  BY <1>1
<1>4. \A i \in 1 .. Len(Below) : run[Below[i]].pc = "calling" /\ Below[i] # Top
  BY <1>1, <1>3 DEF Shape, StackOK, Top
<1>5. \A i, k \in 1 .. Len(Below) : Below[i] = Below[k] => i = k
  BY <1>1, <1>3 DEF Shape, StackOK
<1>. QED BY <1>2, <1>4, <1>5 DEF FrameOK

LEMMA StartKeepsShape ==
    ASSUME TypeOK, Shape, NEW r \in Run, StartRun(r)
    PROVE  /\ disposers' \in Seq(Disposer) /\ closing' \in Run \cup {NoRun}
           /\ run' \in [Run -> Frame] /\ stack' \in Seq(Run) /\ ran' \in Seq(Disposer)
           /\ Shape'
<1>1. run[r] \in Frame /\ Len(disposers) \in Nat /\ stack \in Seq(Run) /\ run[r].pc = "unused"
  BY DEF TypeOK, StartRun
<1>. DEFINE f == [run[r] EXCEPT !.index = Len(disposers), !.first = TRUE]
<1>2. f \in Frame /\ Loop(r, f, stack)
  BY <1>1, LoopFrames DEF StartRun
<1>3. \A i \in 1 .. Len(stack) : run[stack[i]].pc = "calling" /\ stack[i] # r
  BY <1>1 DEF Shape, StackOK
<1>4. \A i, k \in 1 .. Len(stack) : stack[i] = stack[k] => i = k
  BY DEF Shape, StackOK
<1>. HIDE DEF f
<1>. QED BY <1>1, <1>2, <1>3, <1>4, LoopKeepsShape

LEMMA InvarianceStep == TypeOK /\ Shape /\ [Next]_vars => TypeOK' /\ Shape'
<1>. SUFFICES ASSUME TypeOK, Shape, [Next]_vars PROVE TypeOK' /\ Shape'
  OBVIOUS
<1>1. ASSUME NEW d \in Disposer, Register(d) PROVE TypeOK' /\ Shape'
  <2>1. disposers' \in Seq(Disposer) /\ accepted' \in Seq(Disposer) /\ calledBack' \in BOOLEAN
    BY <1>1 DEF Register, TypeOK
  <2>. QED BY <1>1, <2>1 DEF Register, TypeOK, Shape, StackOK
<1>2. ASSUME NEW c \in Caller, Close(c) PROVE TypeOK' /\ Shape'
  <2>1. CASE closed \/ closing # NoRun
    <3>1. CASE UNCHANGED <<disposers, closing, run, stack, ran>>
      <4>1. caller' \in [Caller -> Call]
        <5>1. CASE /\ caller' = [caller EXCEPT ![c] = IF closed
                            THEN [pc |-> "settled", on |-> NoRun]
                            ELSE [pc |-> "waiting", on |-> closing]]
          <6>1. (IF closed THEN [pc |-> "settled", on |-> NoRun]
                           ELSE [pc |-> "waiting", on |-> closing]) \in Call
            BY DEF TypeOK, Call
          <6>. QED BY <5>1, <6>1 DEF TypeOK
        <5>2. CASE \E r \in Run : StartRun(r) /\ caller' = [caller EXCEPT ![c] = [pc |-> "waiting", on |-> r]]
          BY <2>1, <5>2 DEF StartRun
        <5>. QED BY <1>2, <5>1, <5>2 DEF Close
      <4>. QED BY <1>2, <3>1, <4>1 DEF Close, TypeOK, Shape, StackOK
    <3>2. CASE \E r \in Run : StartRun(r)
      BY <2>1, <3>2 DEF StartRun
    <3>. QED BY <1>2, <3>1, <3>2 DEF Close
  <2>2. ASSUME NEW r \in Run, StartRun(r), caller' = [caller EXCEPT ![c] = [pc |-> "waiting", on |-> r]]
        PROVE  TypeOK' /\ Shape'
    <3>1. caller' \in [Caller -> Call]
      BY <2>2 DEF TypeOK, Call
    <3>2. UNCHANGED <<closed, accepted, calledBack>>
      BY <1>2 DEF Close
    <3>. QED BY <2>2, <3>1, <3>2, StartKeepsShape DEF TypeOK
  <2>. QED BY <1>2, <2>1, <2>2 DEF Close
<1>3. ASSUME CloseBack PROVE TypeOK' /\ Shape'
  <2>1. PICK r \in Run : StartRun(r)
    BY <1>3 DEF CloseBack
  <2>. QED BY <1>3, <2>1, StartKeepsShape DEF CloseBack, TypeOK
<1>4. ASSUME Return PROVE TypeOK' /\ Shape'
  <2>. DEFINE f == [run[Top] EXCEPT !.pc = "awaiting"]  g == [f EXCEPT !.first = FALSE]
  <2>1. ~EventLoop
    BY <1>4 DEF Return
  <2>2. /\ Top \in Run /\ Below \in Seq(Run) /\ run[Top] \in Frame
        /\ run[Top].registered \in Disposer /\ run[Top].index > 0
    BY <2>1, TopAndBelow, BelowIsStacked
  <2>3. f \in Frame /\ g \in Frame /\ FrameOK(g)
    BY <2>2 DEF Frame, FrameOK
  <2>4. run' = [run EXCEPT ![Top] = g] /\ stack' = Below /\ closing' \in {Top, closing}
    BY <1>4 DEF Return, Leave
  <2>. HIDE DEF f, g
  <2>5. run' \in [Run -> Frame] /\ run'[Top] = g /\ \A q \in Run : q # Top => run'[q] = run[q]
    BY <2>2, <2>3, <2>4 DEF TypeOK
  <2>6. \A q \in Run : FrameOK(run'[q])
    BY <2>3, <2>5 DEF Shape
  <2>7. \A i \in 1 .. Len(Below) : Below[i] \in Run /\ run'[Below[i]].pc = "calling"
    BY <2>1, <2>2, <2>5, BelowIsStacked
  <2>8. StackOK'
    BY <2>1, <2>4, <2>7, BelowIsStacked DEF StackOK
  <2>. QED BY <1>4, <2>2, <2>4, <2>5, <2>6, <2>8 DEF Return, TypeOK, Shape
<1>5. ASSUME Throw PROVE TypeOK' /\ Shape'
  <2>. DEFINE f == [run[Top] EXCEPT !.failures = @ \cup {Executing}, !.index = @ - 1]
  <2>1. ~EventLoop
    BY <1>5 DEF Throw
  <2>2. /\ Top \in Run /\ Below \in Seq(Run) /\ run[Top] \in Frame
        /\ {Executing} \in SUBSET Disposer /\ run[Top].index > 0
    BY <2>1, TopAndBelow, BelowIsStacked DEF Executing
  <2>3. f \in Frame
    BY <2>2, LoopFrames
  <2>4. Loop(Top, f, Below)
    BY <1>5 DEF Throw
  <2>. HIDE DEF f
  <2>. DEFINE r == Top  b == Below
  <2>5. /\ r \in Run /\ b \in Seq(Run) /\ Loop(r, f, b)
        /\ \A i \in 1 .. Len(b) : run[b[i]].pc = "calling" /\ b[i] # r
        /\ \A i, k \in 1 .. Len(b) : b[i] = b[k] => i = k
    BY <2>1, <2>2, <2>4, BelowIsStacked
  <2>. HIDE DEF r, b
  <2>6. /\ disposers' \in Seq(Disposer) /\ closing' \in Run \cup {NoRun}
        /\ run' \in [Run -> Frame] /\ stack' \in Seq(Run) /\ ran' \in Seq(Disposer)
        /\ Shape'
    BY <2>3, <2>5, LoopKeepsShape
  <2>. QED BY <1>5, <2>6 DEF Throw, TypeOK
<1>6. ASSUME NEW r \in Run, Settle(r) PROVE TypeOK' /\ Shape'
  <2>1. PICK s \in {{}, {run[r].registered}} :
           Loop(r, [run[r] EXCEPT !.failures = @ \cup s, !.index = @ - 1], <<>>)
    BY <1>6 DEF Settle
  <2>2. run[r] \in Frame /\ run[r].index > 0 /\ s \in SUBSET Disposer
    BY <1>6, <2>1 DEF Settle, Shape, FrameOK, TypeOK
  <2>. DEFINE f == [run[r] EXCEPT !.failures = @ \cup s, !.index = @ - 1]
  <2>3. f \in Frame
    BY <2>2, LoopFrames
  <2>. HIDE DEF f
  <2>4. \A b \in Seq(Run) : b = <<>> /\ Loop(r, f, b) =>
           /\ disposers' \in Seq(Disposer) /\ closing' \in Run \cup {NoRun}
           /\ run' \in [Run -> Frame] /\ stack' \in Seq(Run) /\ ran' \in Seq(Disposer)
           /\ Shape'
    <3>1. SUFFICES ASSUME NEW b \in Seq(Run), b = <<>>, Loop(r, f, b)
                   PROVE  /\ disposers' \in Seq(Disposer) /\ closing' \in Run \cup {NoRun}
                          /\ run' \in [Run -> Frame] /\ stack' \in Seq(Run) /\ ran' \in Seq(Disposer)
                          /\ Shape'
      OBVIOUS
    <3>2. /\ \A i \in 1 .. Len(b) : run[b[i]].pc = "calling" /\ b[i] # r
          /\ \A i, k \in 1 .. Len(b) : b[i] = b[k] => i = k
      BY <3>1
    <3>. QED BY <2>3, <3>1, <3>2, LoopKeepsShape
  <2>5. <<>> \in Seq(Run) /\ Loop(r, f, <<>>)
    BY <2>1 DEF f
  <2>. QED BY <1>6, <2>4, <2>5 DEF Settle, TypeOK
<1>7. ASSUME NEW r \in Run, Finally(r) PROVE TypeOK' /\ Shape'
  <2>. DEFINE g == [run[r] EXCEPT !.pc = "done"]
  <2>1. EventLoop /\ g \in Frame /\ FrameOK(g) /\ run' = [run EXCEPT ![r] = g]
    BY <1>7 DEF Finally, TypeOK, Frame, FrameOK
  <2>. HIDE DEF g
  <2>2. run' \in [Run -> Frame] /\ \A q \in Run : FrameOK(run'[q])
    BY <2>1 DEF TypeOK, Shape
  <2>3. StackOK'
    BY <1>7, <2>1 DEF Finally, EventLoop, StackOK
  <2>. QED BY <1>7, <2>2, <2>3 DEF Finally, TypeOK, Shape
<1>8. ASSUME NEW c \in Caller, Resume(c) PROVE TypeOK' /\ Shape'
  <2>1. caller' \in [Caller -> Call]
    BY <1>8 DEF Resume, TypeOK, Call
  <2>. QED BY <1>8, <2>1 DEF Resume, TypeOK, Shape, StackOK
<1>9. CASE UNCHANGED vars
  BY <1>9 DEF vars, TypeOK, Shape, StackOK
<1>. QED BY <1>1, <1>2, <1>3, <1>4, <1>5, <1>6, <1>7, <1>8, <1>9 DEF Next, Progress

LEMMA InitialShape == Init => TypeOK /\ Shape
<1>. SUFFICES ASSUME Init PROVE TypeOK /\ Shape
  OBVIOUS
<1>1. Unused \in Frame /\ FrameOK(Unused)
  BY DEF Unused, Frame, FrameOK
<1>2. [pc |-> "idle", on |-> NoRun] \in Call
  BY DEF Call
<1>3. run \in [Run -> Frame] /\ caller \in [Caller -> Call]
  BY <1>1, <1>2 DEF Init
<1>4. <<>> \in Seq(Disposer) /\ <<>> \in Seq(Run)
  OBVIOUS
<1>5. TypeOK
  BY <1>3, <1>4 DEF Init, TypeOK
<1>. QED BY <1>1, <1>5 DEF Init, Shape, StackOK

\* Every variable keeps its type; the runs inside a disposer are on the stack,
\* each once, so no run is entered twice.
THEOREM Invariance == Spec => [](TypeOK /\ Shape)
<1>. QED BY InitialShape, InvarianceStep, PTL DEF Spec

-----------------------------------------------------------------------------
(* The teardown, as long as no disposer called back: at most one run is    *)
(* ever started, and it walks the disposers accepted before it backwards.  *)

Reversed ==
    /\ Len(ran) <= Len(accepted)
    /\ \A i \in 1 .. Len(ran) : ran[i] = accepted[Len(accepted) + 1 - i]

Untouched ==
    /\ \A q \in Run : run[q].pc = "unused"
    /\ stack = <<>> /\ closing = NoRun /\ ~closed
    /\ ran = <<>> /\ disposers = accepted
    /\ \A c \in Caller : caller[c].pc = "idle"

\* Until its first stretch ends the run is not yet the one closePromise stands for.
OnlyRun(r) ==
    /\ \A q \in Run : q # r => run[q].pc = "unused"
    /\ run[r].pc \in {"calling", "awaiting", "finally", "done"}
    /\ closed <=> run[r].pc = "done"
    /\ stack = IF run[r].pc = "calling" THEN <<r>> ELSE <<>>
    /\ closing = IF run[r].pc = "done" \/ (run[r].pc = "calling" /\ run[r].first)
                 THEN NoRun ELSE r
    /\ run[r].pc = "awaiting" => ~run[r].first
    /\ run[r].pc \in {"calling", "awaiting"} =>
          disposers = accepted /\ run[r].index + Len(ran) = Len(accepted) + 1
    /\ run[r].pc \in {"finally", "done"} => Len(ran) = Len(accepted)

\* The calls of closeAuroraFlow join that run, and settle once it is over.
Joined(r) ==
    \A c \in Caller :
        /\ caller[c].pc = "waiting" => caller[c].on = r
        /\ caller[c].pc = "settled" => run[r].pc = "done"

TeardownInv ==
    ~calledBack => /\ Reversed
                   /\ Untouched \/ \E r \in Run : OnlyRun(r) /\ Joined(r)

LEMMA OnTop ==
    ASSUME NEW r \in Run, stack = <<r>>
    PROVE  Top = r /\ Below = <<>> /\ ~EventLoop
<1>1. Len(stack) = 1 /\ Top = r /\ ~EventLoop
  BY DEF Top, EventLoop
<1>2. Below = [i \in 1 .. 0 |-> stack[i]]
  BY <1>1 DEF Below
<1>3. 1 .. 0 = {}
  OBVIOUS
<1>. QED BY <1>1, <1>2, <1>3

\* The only run goes on with the disposers it has not called.
LEMMA Advance ==
    ASSUME TypeOK, NEW r \in Run, NEW f \in Frame, NEW b \in Seq(Run), b = <<>>, Loop(r, f, b),
           disposers = accepted, f.index + Len(ran) = Len(accepted), Reversed, ~closed,
           \A q \in Run : q # r => run[q].pc = "unused",
           closing = IF f.first THEN NoRun ELSE r,
           accepted' = accepted, closed' = closed
    PROVE  OnlyRun(r)' /\ Reversed' /\ run'[r].pc # "done"
<1>0. TypeOK /\ r \in Run /\ f \in Frame /\ Loop(r, f, b)
  OBVIOUS
<1>1. PICK g \in Frame :
              /\ run' = [run EXCEPT ![r] = g] /\ FrameOK(g)
              /\ \/ /\ f.index = 0 /\ g.pc = "finally" /\ ~g.first
                    /\ closing' = IF f.first THEN r ELSE closing
                    /\ stack' = b /\ disposers' = <<>> /\ ran' = ran
                 \/ /\ f.index > Len(disposers) /\ g.pc = "finally" /\ ~g.first
                    /\ closing' = IF f.first THEN r ELSE closing
                    /\ stack' = b /\ disposers' = disposers /\ ran' = ran
                 \/ /\ f.index \in 1 .. Len(disposers) /\ g.pc = "calling"
                    /\ g.index = f.index /\ g.first = f.first
                    /\ closing' = closing /\ stack' = Append(b, r)
                    /\ disposers' = disposers /\ ran' = Append(ran, disposers[f.index])
  BY ONLY <1>0, LoopEffect, SMT
<1>2. run'[r] = g /\ \A q \in Run : q # r => run'[q].pc = "unused"
  BY <1>1 DEF TypeOK
<1>3. Len(ran) \in Nat /\ Len(accepted) \in Nat /\ f.index \in Nat /\ f.first \in BOOLEAN
  BY DEF TypeOK, Frame
<1>4. ~(f.index > Len(disposers))
  BY <1>3
<1>5. CASE /\ f.index = 0 /\ g.pc = "finally" /\ ~g.first
           /\ closing' = IF f.first THEN r ELSE closing
           /\ stack' = b /\ disposers' = <<>> /\ ran' = ran
  <2>1. closing' = r /\ Len(ran') = Len(accepted') /\ stack' = <<>>
    BY <1>3, <1>5
  <2>2. Reversed'
    BY <1>5 DEF Reversed
  <2>. QED BY <1>2, <1>5, <2>1, <2>2 DEF OnlyRun
<1>6. CASE /\ f.index \in 1 .. Len(disposers) /\ g.pc = "calling"
           /\ g.index = f.index /\ g.first = f.first
           /\ closing' = closing /\ stack' = Append(b, r)
           /\ disposers' = disposers /\ ran' = Append(ran, disposers[f.index])
  <2>1. stack' = <<r>>
    BY <1>6
  <2>2. /\ Len(ran') = Len(ran) + 1 /\ ran'[Len(ran) + 1] = accepted[f.index]
        /\ \A i \in 1 .. Len(ran) : ran'[i] = ran[i]
    BY <1>6 DEF TypeOK
  <2>3. g.index + Len(ran') = Len(accepted') + 1
    <3>1. Len(accepted') = Len(accepted)
      OBVIOUS
    <3>. HIDE <1>6
    <3>2. g.index = f.index /\ Len(ran') = Len(ran) + 1
      BY <1>6, <2>2
    <3>. QED BY <1>3, <3>1, <3>2
  <2>4. closing' = IF g.first THEN NoRun ELSE r
    BY <1>6
  <2>5. OnlyRun(r)'
    BY <1>2, <1>6, <2>1, <2>3, <2>4 DEF OnlyRun
  <2>6. ASSUME NEW i \in 1 .. Len(ran') PROVE ran'[i] = accepted'[Len(accepted') + 1 - i]
    <3>1. CASE i \in 1 .. Len(ran)
      BY <2>2, <3>1 DEF Reversed
    <3>2. CASE i = Len(ran) + 1
      <4>1. Len(accepted) + 1 - i = f.index
        BY <1>3, <3>2
      <4>. QED BY <2>2, <3>2, <4>1
    <3>. QED BY <1>3, <2>2, <3>1, <3>2
  <2>7. Len(ran') <= Len(accepted')
    BY <1>3, <1>6, <2>2
  <2>. QED BY <1>2, <1>6, <2>5, <2>6, <2>7 DEF Reversed
<1>. QED BY <1>1, <1>4, <1>5, <1>6

\* The first call of close, with every disposer accepted still to be called.
LEMMA FirstRun ==
    ASSUME TypeOK, Untouched, Reversed, NEW r \in Run, StartRun(r),
           accepted' = accepted, closed' = closed
    PROVE  OnlyRun(r)' /\ Reversed' /\ run'[r].pc # "done"
<1>. DEFINE f == [run[r] EXCEPT !.index = Len(disposers), !.first = TRUE]
<1>1. run[r] \in Frame /\ Len(disposers) \in Nat
  BY DEF TypeOK
<1>2. f \in Frame /\ f.index = Len(disposers) /\ f.first = TRUE
  BY <1>1, LoopFrames
<1>3. Loop(r, f, stack)
  BY DEF StartRun
<1>. HIDE DEF f
<1>4. Len(ran) = 0 /\ f.index + Len(ran) = Len(accepted)
  BY <1>1, <1>2 DEF Untouched
<1>5. stack \in Seq(Run) /\ stack = <<>> /\ closing = NoRun /\ ~closed /\ disposers = accepted
      /\ \A q \in Run : run[q].pc = "unused"
  BY DEF Untouched, TypeOK
<1>. QED BY <1>2, <1>3, <1>4, <1>5, Advance

LEMMA TeardownStep == TypeOK /\ Shape /\ TeardownInv /\ [Next]_vars => TeardownInv'
<1>. SUFFICES ASSUME TypeOK, Shape, TeardownInv, [Next]_vars, ~calledBack'
              PROVE  Reversed' /\ (Untouched' \/ \E r \in Run : OnlyRun(r)' /\ Joined(r)')
  BY DEF TeardownInv
<1>0. ~calledBack
  BY DEF Next, Progress, Register, Close, CloseBack, Return, Throw, Settle, Finally, Resume, vars
<1>. USE <1>0
<1>A. Reversed /\ (Untouched \/ \E r \in Run : OnlyRun(r) /\ Joined(r))
  BY DEF TeardownInv
<1>1. ASSUME NEW d \in Disposer, Register(d)
      PROVE  Reversed' /\ Untouched'
  <2>1. EventLoop /\ ~closed /\ closing = NoRun
    BY <1>1 DEF Register
  <2>2. Untouched
    BY <1>A, <2>1, ConstantsAssumption DEF OnlyRun, EventLoop
  <2>. QED BY <1>1, <2>2 DEF Register, Untouched, Reversed, TypeOK
<1>2. ASSUME NEW c \in Caller, Close(c)
      PROVE  Reversed' /\ (Untouched' \/ \E r \in Run : OnlyRun(r)' /\ Joined(r)')
  <2>0. EventLoop /\ caller[c].pc = "idle" /\ UNCHANGED <<closed, accepted, calledBack>>
    BY <1>2 DEF Close
  <2>1. CASE Untouched
    <3>1. PICK r \in Run : StartRun(r) /\ caller' = [caller EXCEPT ![c] = [pc |-> "waiting", on |-> r]]
      BY <1>2, <2>1 DEF Close, Untouched
    <3>2. OnlyRun(r)' /\ Reversed'
      BY <1>A, <2>0, <2>1, <3>1, FirstRun
    <3>3. Joined(r)'
      BY <2>1, <3>1 DEF Untouched, Joined, TypeOK
    <3>. QED BY <3>2, <3>3
  <2>2. ASSUME NEW r \in Run, OnlyRun(r), Joined(r)
        PROVE  Reversed' /\ OnlyRun(r)' /\ Joined(r)'
    <3>1. run[r].pc # "calling"
      BY <2>0, <2>2 DEF OnlyRun, EventLoop
    <3>2. closed \/ closing # NoRun
      BY <2>2, <3>1, ConstantsAssumption DEF OnlyRun
    <3>3. /\ UNCHANGED <<disposers, closing, run, stack, ran>>
          /\ caller' = [caller EXCEPT ![c] = IF closed
                            THEN [pc |-> "settled", on |-> NoRun]
                            ELSE [pc |-> "waiting", on |-> closing]]
      BY <1>2, <3>2 DEF Close, StartRun
    <3>4. Reversed' /\ OnlyRun(r)'
      BY <1>A, <2>0, <2>2, <3>3 DEF Reversed, OnlyRun
    <3>5. closed => run[r].pc = "done"
      BY <2>2 DEF OnlyRun
    <3>6. ~closed => closing = r
      BY <2>2, <3>1 DEF OnlyRun
    <3>7. Joined(r)'
      BY <2>2, <3>3, <3>5, <3>6 DEF Joined, TypeOK
    <3>. QED BY <3>4, <3>7
  <2>. QED BY <1>A, <2>1, <2>2
<1>3. ~CloseBack
  BY DEF CloseBack
<1>4. ASSUME Return
      PROVE  Reversed' /\ \E r \in Run : OnlyRun(r)' /\ Joined(r)'
  <2>1. ~EventLoop
    BY <1>4 DEF Return
  <2>2. PICK r \in Run : OnlyRun(r) /\ Joined(r)
    BY <1>A, <2>1 DEF Untouched, EventLoop
  <2>3. run[r].pc = "calling" /\ stack = <<r>>
    BY <2>1, <2>2 DEF OnlyRun, EventLoop
  <2>4. Leave(r, [run[r] EXCEPT !.pc = "awaiting"], <<>>)
    BY <1>4, <2>3, OnTop DEF Return
  <2>. DEFINE f == [run[r] EXCEPT !.pc = "awaiting"]  g == [f EXCEPT !.first = FALSE]
  <2>5. run[r] \in Frame
    BY DEF TypeOK
  <2>6. g.pc = "awaiting" /\ g.index = run[r].index /\ g.first = FALSE /\ f.first = run[r].first
    BY <2>5 DEF Frame
  <2>7. run' = [run EXCEPT ![r] = g] /\ stack' = <<>> /\ closing' = IF f.first THEN r ELSE closing
    BY <2>4 DEF Leave
  <2>. HIDE DEF f, g
  <2>8. run'[r] = g /\ \A q \in Run : q # r => run'[q] = run[q]
    BY <2>7 DEF TypeOK
  <2>9. closing' = r
    BY <2>2, <2>3, <2>6, <2>7 DEF OnlyRun
  <2>10. OnlyRun(r)'
    BY <1>4, <2>2, <2>3, <2>6, <2>7, <2>8, <2>9 DEF Return, OnlyRun
  <2>11. Joined(r)' /\ Reversed'
    BY <1>A, <1>4, <2>2, <2>3 DEF Return, Joined, Reversed
  <2>. QED BY <2>10, <2>11
<1>5. ASSUME NEW r \in Run, OnlyRun(r), Joined(r), run[r].pc \in {"calling", "awaiting"},
             NEW s \in SUBSET Disposer, NEW b \in Seq(Run), b = <<>>,
             Loop(r, [run[r] EXCEPT !.failures = @ \cup s, !.index = @ - 1], b),
             UNCHANGED <<closed, caller, accepted, calledBack>>
      PROVE  Reversed' /\ OnlyRun(r)' /\ Joined(r)'
  <2>. DEFINE f == [run[r] EXCEPT !.failures = @ \cup s, !.index = @ - 1]
  <2>1. run[r] \in Frame /\ run[r].index > 0 /\ run[r].index \in Nat
    BY <1>5, LoopFrames DEF TypeOK, Shape, FrameOK
  <2>2. f \in Frame /\ f.index = run[r].index - 1 /\ f.first = run[r].first
    BY <2>1, LoopFrames
  <2>3. Loop(r, f, b)
    BY <1>5
  <2>. HIDE DEF f
  <2>4. Len(ran) \in Nat /\ Len(accepted) \in Nat
    BY DEF TypeOK
  <2>5. f.index + Len(ran) = Len(accepted) /\ disposers = accepted
    BY <1>5, <2>1, <2>2, <2>4 DEF OnlyRun
  <2>6. ~closed /\ (closing = IF f.first THEN NoRun ELSE r) /\ \A q \in Run : q # r => run[q].pc = "unused"
    BY <1>5, <2>2 DEF OnlyRun
  <2>7. OnlyRun(r)' /\ Reversed'
    BY <1>A, <1>5, <2>2, <2>3, <2>5, <2>6, Advance
  <2>8. Joined(r)'
    BY <1>5 DEF Joined
  <2>. QED BY <2>7, <2>8
<1>6. ASSUME Throw
      PROVE  Reversed' /\ \E r \in Run : OnlyRun(r)' /\ Joined(r)'
  <2>1. ~EventLoop
    BY <1>6 DEF Throw
  <2>2. PICK r \in Run : OnlyRun(r) /\ Joined(r)
    BY <1>A, <2>1 DEF Untouched, EventLoop
  <2>3. run[r].pc = "calling" /\ stack = <<r>>
    BY <2>1, <2>2 DEF OnlyRun, EventLoop
  <2>4. Top = r /\ Below = <<>> /\ Executing = run[r].registered
    BY <2>3, OnTop DEF Executing
  <2>5. run[r].index > 0 /\ {run[r].registered} \in SUBSET Disposer
    BY <2>3 DEF Shape, FrameOK
  <2>6. Loop(r, [run[r] EXCEPT !.failures = @ \cup {run[r].registered}, !.index = @ - 1], Below)
    BY <1>6, <2>4 DEF Throw
  <2>7. Below \in Seq(Run) /\ Below = <<>>
    BY <2>1, <2>4, TopAndBelow
  <2>8. UNCHANGED <<closed, caller, accepted, calledBack>>
    BY <1>6 DEF Throw
  <2>. DEFINE s == {run[r].registered}  b == Below
  <2>9. /\ s \in SUBSET Disposer /\ b \in Seq(Run) /\ b = <<>>
        /\ Loop(r, [run[r] EXCEPT !.failures = @ \cup s, !.index = @ - 1], b)
    BY <2>5, <2>6, <2>7
  <2>. HIDE DEF s, b
  <2>. QED BY <1>5, <2>2, <2>3, <2>5, <2>8, <2>9
<1>7. ASSUME NEW q \in Run, Settle(q)
      PROVE  Reversed' /\ \E r \in Run : OnlyRun(r)' /\ Joined(r)'
  <2>1. PICK r \in Run : OnlyRun(r) /\ Joined(r)
    BY <1>A, <1>7 DEF Settle, Untouched
  <2>2. q = r
    BY <1>7, <2>1 DEF Settle, OnlyRun
  <2>3. PICK s \in {{}, {run[r].registered}} :
           Loop(r, [run[r] EXCEPT !.failures = @ \cup s, !.index = @ - 1], <<>>)
    BY <1>7, <2>2 DEF Settle
  <2>4. run[r].pc = "awaiting" /\ s \in SUBSET Disposer
    BY <1>7, <2>2, <2>3 DEF Settle, Shape, FrameOK
  <2>5. UNCHANGED <<closed, caller, accepted, calledBack>>
    BY <1>7 DEF Settle
  <2>6. \A b \in Seq(Run) :
           b = <<>> /\ Loop(r, [run[r] EXCEPT !.failures = @ \cup s, !.index = @ - 1], b)
           => Reversed' /\ OnlyRun(r)' /\ Joined(r)'
    BY <1>5, <2>1, <2>4, <2>5
  <2>7. <<>> \in Seq(Run)
    OBVIOUS
  <2>. QED BY <2>3, <2>6, <2>7
<1>8. ASSUME NEW q \in Run, Finally(q)
      PROVE  Reversed' /\ \E r \in Run : OnlyRun(r)' /\ Joined(r)'
  <2>1. PICK r \in Run : OnlyRun(r) /\ Joined(r)
    BY <1>A, <1>8 DEF Finally, Untouched
  <2>2. q = r
    BY <1>8, <2>1 DEF Finally, OnlyRun
  <2>. DEFINE g == [run[r] EXCEPT !.pc = "done"]
  <2>3. run' = [run EXCEPT ![r] = g] /\ g.pc = "done" /\ run[r].pc = "finally"
    BY <1>8, <2>2 DEF Finally, TypeOK, Frame
  <2>. HIDE DEF g
  <2>4. run'[r].pc = "done" /\ \A p \in Run : p # r => run'[p] = run[p]
    BY <2>3 DEF TypeOK
  <2>5. OnlyRun(r)'
    BY <1>8, <2>1, <2>3, <2>4 DEF Finally, OnlyRun
  <2>6. Joined(r)' /\ Reversed'
    BY <1>A, <1>8, <2>1, <2>3, <2>4 DEF Finally, Joined, Reversed
  <2>. QED BY <2>5, <2>6
<1>9. ASSUME NEW c \in Caller, Resume(c)
      PROVE  Reversed' /\ \E r \in Run : OnlyRun(r)' /\ Joined(r)'
  <2>1. PICK r \in Run : OnlyRun(r) /\ Joined(r)
    BY <1>A, <1>9 DEF Resume, Untouched
  <2>2. run[r].pc = "done"
    BY <1>9, <2>1 DEF Resume, Joined
  <2>3. OnlyRun(r)' /\ Reversed'
    BY <1>A, <1>9, <2>1 DEF Resume, OnlyRun, Reversed
  <2>4. Joined(r)'
    BY <1>9, <2>1, <2>2 DEF Resume, Joined, TypeOK
  <2>. QED BY <2>3, <2>4
<1>10. CASE UNCHANGED vars
  BY <1>A, <1>10 DEF vars, Untouched, OnlyRun, Joined, Reversed
<1>. QED BY <1>1, <1>2, <1>3, <1>4, <1>6, <1>7, <1>8, <1>9, <1>10 DEF Next, Progress

LEMMA InitialTeardown == Init => TeardownInv
<1>. SUFFICES ASSUME Init PROVE Reversed /\ Untouched
  BY DEF TeardownInv
<1>1. Untouched
  BY DEF Init, Untouched, Unused
<1>2. ran = <<>> /\ accepted = <<>>
  BY DEF Init
<1>. QED BY <1>1, <1>2 DEF Reversed

\* As long as no disposer called back, a context is either untouched, or one run of
\* the teardown is what every close has joined.
THEOREM Teardown == Spec => []TeardownInv
<1>1. TypeOK /\ Shape /\ TeardownInv /\ [Next]_vars => TeardownInv'
  BY TeardownStep
<1>. QED BY <1>1, InitialTeardown, Invariance, PTL DEF Spec

\* As long as no disposer called back, disposers run at most once and in reverse
\* order of registration, whatever closes overlap and whichever of them fail, and a
\* closed context has run every one it accepted.
THEOREM DisposersRunInReverse == Spec => []TornDownInReverse
<1>1. TypeOK /\ TeardownInv => TornDownInReverse
  <2>. SUFFICES ASSUME TeardownInv, ~calledBack PROVE Reversed /\ (closed => Len(ran) = Len(accepted))
    BY DEF TornDownInReverse, Reversed
  <2>. QED BY DEF TeardownInv, Untouched, OnlyRun
<1>. QED BY <1>1, Invariance, Teardown, PTL

\* As long as no disposer called back, a call of closeAuroraFlow that has settled
\* leaves a closed context in which nothing is being disposed any more.
THEOREM ClosesOutlastTheCleanup == Spec => []SettledMeansClosed
<1>1. TeardownInv => SettledMeansClosed
  BY DEF TeardownInv, SettledMeansClosed, Untouched, OnlyRun, Joined
<1>. QED BY <1>1, Teardown, PTL
=============================================================================
