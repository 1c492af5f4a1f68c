--------------------------- MODULE ContextLifecycle ---------------------------
(***************************************************************************)
(* The disposers of one AuroraFlow context and its one-shot cleanup        *)
(* (createDisposerRegistry in lifecycle.ts).                               *)
(*                                                                         *)
(* A call of runClose is a run.  It calls a disposer synchronously and     *)
(* awaits what it returns: `stack` holds the runs inside such a call, the  *)
(* innermost last, and while it is not empty nothing but the disposer      *)
(* called by the innermost run executes.  The body of an async function    *)
(* runs up to its first await before its caller gets the promise, so       *)
(* closePromise is assigned only when that stretch of the first run ends.  *)
(***************************************************************************)
EXTENDS Naturals, Sequences

CONSTANTS
    Disposer,        \* disposers, each registered at most once
    Caller,          \* calls of closeAuroraFlow from outside the disposers
    RegistersBack,   \* disposers that register another one before their first await
    ClosesBack,      \* disposers that call closeAuroraFlow before their first await
    MaxRuns,         \* bound on runs of runClose
    NoRun,           \* closePromise is null
    NoDisposer,
    Crash            \* the failure of a run whose list of disposers was emptied by another

Run == 1 .. MaxRuns

ASSUME ConstantsAssumption ==
    /\ MaxRuns \in Nat \ {0}
    /\ NoRun \notin Run
    /\ NoDisposer \notin Disposer
    /\ Crash \notin Disposer
    /\ RegistersBack \subseteq Disposer
    /\ ClosesBack \subseteq Disposer

VARIABLES
    disposers,       \* the disposers registered and not dropped
    closed,
    closing,         \* the run closePromise stands for, or NoRun
    run,             \* the frame of each run
    stack,
    caller,          \* caller[c]: what the call does
    \* observation only
    accepted,        \* every disposer whose registration did not throw, in order
    ran,             \* the disposers called, in order
    calledBack       \* a disposer registered another one or closed the context

vars == <<disposers, closed, closing, run, stack, caller, accepted, ran, calledBack>>

\* `first`: the call of close that started the run has not returned yet.
Frame == [pc : {"unused", "calling", "awaiting", "finally", "done"},
          index      : Nat,
          registered : Disposer \cup {NoDisposer},      \* the disposer called last
          failures   : SUBSET (Disposer \cup {Crash}),
          first      : BOOLEAN]
Unused == [pc |-> "unused", index |-> 0, registered |-> NoDisposer,
           failures |-> {}, first |-> FALSE]

Call == [pc : {"idle", "waiting", "settled"}, on : Run \cup {NoRun}]

Init ==
    /\ disposers = <<>>
    /\ closed = FALSE
    /\ closing = NoRun
    /\ run = [r \in Run |-> Unused]
    /\ stack = <<>>
    /\ caller = [c \in Caller |-> [pc |-> "idle", on |-> NoRun]]
    /\ accepted = <<>>
    /\ ran = <<>>
    /\ calledBack = FALSE

EventLoop  == stack = <<>>
Top        == stack[Len(stack)]
Below      == SubSeq(stack, 1, Len(stack) - 1)
Executing  == run[Top].registered
Elements(s) == {s[i] : i \in 1 .. Len(s)}

-----------------------------------------------------------------------------

\* The synchronous stretch of run r ends with frame f; if it is the one that
\* started the run, closePromise is assigned now.
Leave(r, f, below) ==
    /\ run' = [run EXCEPT ![r] = [f EXCEPT !.first = FALSE]]
    /\ closing' = IF f.first THEN r ELSE closing
    /\ stack' = below

\* Run r goes on with its loop at f.index, the runs of `below` waiting under it.
Loop(r, f, below) ==
    \/ /\ f.index = 0
       /\ Leave(r, [f EXCEPT !.pc = "finally"], below)
       /\ disposers' = <<>>
       /\ UNCHANGED ran
    \/ /\ f.index > Len(disposers)            \* undefined has no dispose and no name
       /\ Leave(r, [f EXCEPT !.pc = "finally", !.failures = @ \cup {Crash}], below)
       /\ UNCHANGED <<disposers, ran>>
    \/ /\ f.index \in 1 .. Len(disposers)
       /\ run' = [run EXCEPT ![r] = [f EXCEPT !.pc = "calling",
                                            !.registered = disposers[f.index]]]
       /\ stack' = Append(below, r)
       /\ ran' = Append(ran, disposers[f.index])
       /\ UNCHANGED <<disposers, closing>>

\* register: from the event loop, or back from a disposer.
Register(d) ==
    /\ d \notin Elements(accepted)
    /\ ~EventLoop => Executing \in RegistersBack
    /\ ~closed /\ closing = NoRun              \* it throws otherwise
    /\ disposers' = Append(disposers, d)
    /\ accepted' = Append(accepted, d)
    /\ calledBack' = (calledBack \/ ~EventLoop)
    /\ UNCHANGED <<closed, closing, run, stack, caller, ran>>

\* Mutant of StartRun: a close under way is not joined.
StartRun_Bug(r) ==
    /\ ~closed
    /\ run[r].pc = "unused" /\ \A q \in Run : q < r => run[q].pc # "unused"
    /\ Loop(r, [run[r] EXCEPT !.index = Len(disposers), !.first = TRUE], stack)

\* close with neither closed nor closePromise set.
StartRun(r) ==
    /\ ~closed /\ closing = NoRun
    /\ run[r].pc = "unused" /\ \A q \in Run : q < r => run[q].pc # "unused"
    /\ Loop(r, [run[r] EXCEPT !.index = Len(disposers), !.first = TRUE], stack)

\* Mutant of Close: a call that finds a close under way resolves at once.
Close_Bug(c) ==
    /\ EventLoop
    /\ caller[c].pc = "idle"
    /\ \/ /\ closed \/ closing # NoRun
          /\ caller' = [caller EXCEPT ![c].pc = "settled"]
          /\ UNCHANGED <<disposers, closing, run, stack, ran>>
       \/ \E r \in Run :
             /\ StartRun(r)
             /\ caller' = [caller EXCEPT ![c] = [pc |-> "waiting", on |-> r]]
    /\ UNCHANGED <<closed, accepted, calledBack>>

Close(c) ==
    /\ EventLoop
    /\ caller[c].pc = "idle"
    /\ \/ /\ closed \/ closing # NoRun
          /\ caller' = [caller EXCEPT ![c] = IF closed
                            THEN [pc |-> "settled", on |-> NoRun]
                            ELSE [pc |-> "waiting", on |-> closing]]
          /\ UNCHANGED <<disposers, closing, run, stack, ran>>
       \/ \E r \in Run :
             /\ StartRun(r)
             /\ caller' = [caller EXCEPT ![c] = [pc |-> "waiting", on |-> r]]
    /\ UNCHANGED <<closed, accepted, calledBack>>

\* A disposer closes its own context and does not wait for it.
CloseBack ==
    /\ ~EventLoop
    /\ Executing \in ClosesBack
    /\ \E r \in Run : StartRun(r)
    /\ calledBack' = TRUE
    /\ UNCHANGED <<closed, caller, accepted>>

\* The disposer comes to its first await, or to its end.
Return ==
    /\ ~EventLoop
    /\ Leave(Top, [run[Top] EXCEPT !.pc = "awaiting"], Below)
    /\ UNCHANGED <<disposers, closed, caller, accepted, ran, calledBack>>

\* The disposer throws: the loop goes on without an await.
Throw ==
    /\ ~EventLoop
    /\ Loop(Top, [run[Top] EXCEPT !.failures = @ \cup {Executing}, !.index = @ - 1], Below)
    /\ UNCHANGED <<closed, caller, accepted, calledBack>>

\* The promise of the disposer awaited is fulfilled or rejected.
Settle(r) ==
    /\ EventLoop
    /\ run[r].pc = "awaiting"
    /\ \E failures \in {{}, {run[r].registered}} :
          Loop(r, [run[r] EXCEPT !.failures = @ \cup failures, !.index = @ - 1], <<>>)
    /\ UNCHANGED <<closed, caller, accepted, calledBack>>

\* Mutant of Finally: a cleanup with failures is not finished.
Finally_Bug(r) ==
    /\ EventLoop
    /\ run[r].pc = "finally"
    /\ run[r].failures = {}
    /\ run' = [run EXCEPT ![r].pc = "done"]
    /\ closed' = TRUE
    /\ closing' = NoRun
    /\ UNCHANGED <<disposers, stack, caller, accepted, ran, calledBack>>

Finally(r) ==
    /\ EventLoop
    /\ run[r].pc = "finally"
    /\ run' = [run EXCEPT ![r].pc = "done"]
    /\ closed' = TRUE
    /\ closing' = NoRun
    /\ UNCHANGED <<disposers, stack, caller, accepted, ran, calledBack>>

\* The promise a caller awaits settles with its run.
Resume(c) ==
    /\ EventLoop
    /\ caller[c].pc = "waiting"
    /\ run[caller[c].on].pc = "done"
    /\ caller' = [caller EXCEPT ![c].pc = "settled"]
    /\ UNCHANGED <<disposers, closed, closing, run, stack, accepted, ran, calledBack>>

\* What happens without anybody calling in.
Progress ==
    \/ Return
    \/ Throw
    \/ \E r \in Run : Settle(r) \/ Finally(r)
    \/ \E c \in Caller : Resume(c)

Next ==
    \/ \E d \in Disposer : Register(d)
    \/ \E c \in Caller : Close(c)
    \/ CloseBack
    \/ Progress

Spec     == Init /\ [][Next]_vars
FairSpec == Spec /\ WF_vars(Progress)

-----------------------------------------------------------------------------

TypeOK ==
    /\ disposers \in Seq(Disposer)
    /\ closed \in BOOLEAN
    /\ closing \in Run \cup {NoRun}
    /\ run \in [Run -> Frame]
    /\ stack \in Seq(Run)
    /\ caller \in [Caller -> Call]
    /\ accepted \in Seq(Disposer)
    /\ ran \in Seq(Disposer)
    /\ calledBack \in BOOLEAN

(***************************************************************************)
(* Disposers run at most once and in reverse order of registration,        *)
(* whatever closes overlap and whichever of them fail ("concurrent calls   *)
(* coalesce onto the single in-flight operation so disposers run at most   *)
(* once"), and once the context is closed every disposer it accepted has   *)
(* run - unless a disposer called back before its first await.             *)
(***************************************************************************)
TornDownInReverse ==
    ~calledBack =>
        /\ Len(ran) <= Len(accepted)
        /\ \A i \in 1 .. Len(ran) : ran[i] = accepted[Len(accepted) + 1 - i]
        /\ closed => Len(ran) = Len(accepted)

(***************************************************************************)
(* Once a context is closed every disposer it accepted has been called     *)
(* ("Throws if cleanup for the context has already started, so a disposer  *)
(* can never be silently dropped").                                        *)
(***************************************************************************)
NothingDropped == closed => Elements(accepted) \subseteq Elements(ran)

(***************************************************************************)
(* A call of closeAuroraFlow settles only when the cleanup is over: no     *)
(* disposer is still running, and none can be registered any more - unless *)
(* a disposer closed its own context.                                      *)
(***************************************************************************)
SettledMeansClosed ==
    \A c \in Caller : caller[c].pc = "settled" /\ ~calledBack =>
        closed /\ \A r \in Run : run[r].pc \in {"unused", "done"}

(***************************************************************************)
(* Every call of closeAuroraFlow settles, if every disposer does.          *)
(***************************************************************************)
CloseSettles == \A c \in Caller : caller[c].pc = "waiting" ~> caller[c].pc = "settled"
=============================================================================
