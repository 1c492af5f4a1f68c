---------------------------- MODULE TrendHistory ----------------------------
(***************************************************************************)
(* The trend history (trends.ts): the report scripts, and any caller of    *)
(* appendObservabilityTrendPoint, append a point to a JSONL file that      *)
(* keeps the latest TrendLimit points.  An append reads the whole file,    *)
(* skips the lines it cannot parse, adds the point, and replaces the file  *)
(* by way of a temporary file of its own; nothing keeps two appends apart. *)
(*                                                                         *)
(* A point is its timestamp, the fields that decide the order of equal     *)
(* timestamps (workflow, branch, run, source and project, as one number),  *)
(* and what else it carries, as a number that tells points apart.          *)
(***************************************************************************)
EXTENDS Integers, Sequences, FiniteSets

CONSTANTS
    Writers,       \* scripts that may append at one time
    Origins,       \* the fields that order points of one timestamp, as integers
    EarlierFiles,  \* what the file may hold at first
    TrendLimit,
    MaxTrendTime, MaxAppends

Line == [time : Int, origin : Int, rest : Int]

ASSUME TrendAssumption ==
    /\ TrendLimit \in Nat \ {0} /\ MaxTrendTime \in Nat /\ MaxAppends \in Nat
    /\ IsFiniteSet(Writers) /\ Origins \subseteq Int
    /\ \A file \in EarlierFiles : file \in Seq(Line)

VARIABLES
    trend,         \* lines of the file
    trendClock,
    appender,      \* of each writer: what it is about to append or to write
    landed,        \* (history) points whose append has succeeded
    lapped         \* (history) points that an append which read the file before them overwrote

trendVars == <<trend, trendClock, appender, landed, lapped>>

\* A line that is no point of this schema version.
BadLine == [time |-> -1, origin |-> -1, rest |-> -1]
Idle == [step |-> "idle", point |-> BadLine, points |-> <<>>, had |-> {}]

ValidLines(lines) == {i \in DOMAIN lines : lines[i] # BadLine}
PointsOf(lines) == {lines[i] : i \in ValidLines(lines)}

TrendInit ==
    /\ trend \in EarlierFiles
    /\ trendClock = 0
    /\ appender = [w \in Writers |-> Idle]
    /\ landed = PointsOf(trend) /\ lapped = {}

-----------------------------------------------------------------------------

\* compareTrendPoints.
Earlier(p, q) == \/ p.time < q.time
                 \/ p.time = q.time /\ p.origin < q.origin

\* sort is stable: line i comes no later than line j.
Before(lines, i, j) == Earlier(lines[i], lines[j]) \/ (~Earlier(lines[j], lines[i]) /\ i <= j)
LinePlace(lines, i) == Cardinality({j \in ValidLines(lines) : Before(lines, j, i)})

\* The points among the lines, in order.
Sorted(lines) ==
    [k \in 1 .. Cardinality(ValidLines(lines)) |->
        lines[CHOOSE i \in ValidLines(lines) : LinePlace(lines, i) = k]]

\* readObservabilityTrendPoints; a file that is not there has no lines.
ReadObservabilityTrendPoints(lines) == Sorted(lines)

\* Mutant of Retain: the earliest points are kept.
Retain_Bug(points) == SubSeq(points, 1, IF Len(points) < TrendLimit THEN Len(points) ELSE TrendLimit)

\* slice(-limit).
Retain(points) ==
    SubSeq(points, IF Len(points) > TrendLimit THEN Len(points) - TrendLimit + 1 ELSE 1, Len(points))

TrendTick ==
    /\ trendClock < MaxTrendTime
    /\ trendClock' = trendClock + 1
    /\ UNCHANGED <<trend, appender, landed, lapped>>

\* A script builds its report, whose timestamp the point takes.
BuildPoint(w) ==
    /\ appender[w].step = "idle"
    /\ \E origin \in Origins :
           LET number == Cardinality(landed) + Cardinality({v \in Writers : appender[v].step # "idle"})
           IN  /\ number < MaxAppends
               /\ appender' = [appender EXCEPT
                      ![w] = [Idle EXCEPT !.step = "read",
                                          !.point = [time |-> trendClock, origin |-> origin, rest |-> number]]]
    /\ UNCHANGED <<trend, trendClock, landed, lapped>>

\* The append reads the file and works out what to write.
ReadTrend(w) ==
    /\ appender[w].step = "read"
    /\ LET points == Append(ReadObservabilityTrendPoints(trend), appender[w].point)
       IN  appender' = [appender EXCEPT ![w].step = "replace",
                                        ![w].points = Retain(Sorted(points)),
                                        ![w].had = landed]
    /\ UNCHANGED <<trend, trendClock, landed, lapped>>

\* writeTrendPointsAtomically: the temporary file is complete when it is renamed.
ReplaceFile(w) ==
    /\ appender[w].step = "replace"
    /\ trend' = appender[w].points
    /\ landed' = landed \cup {appender[w].point}
    /\ lapped' = lapped \cup (landed \ appender[w].had)
    /\ appender' = [appender EXCEPT ![w] = Idle]
    /\ UNCHANGED trendClock

\* The read, the write or the rename fails, or the script is killed.
FailAppend(w) ==
    /\ appender[w].step # "idle"
    /\ appender' = [appender EXCEPT ![w] = Idle]
    /\ UNCHANGED <<trend, trendClock, landed, lapped>>

TrendNext ==
    \/ TrendTick
    \/ \E w \in Writers : BuildPoint(w) \/ ReadTrend(w) \/ ReplaceFile(w) \/ FailAppend(w)

-----------------------------------------------------------------------------

(***************************************************************************)
(* A point whose append succeeded is lost only to an append that read the  *)
(* file before it, or to TrendLimit others that are no earlier; a failed   *)
(* append leaves no trace, and an append that leaves the file behind       *)
(* leaves it in order and no longer than the limit.  In particular no      *)
(* point is lost while the scripts run one after the other, and a point    *)
(* that lands late takes its place by time and not at the end.             *)
(***************************************************************************)
TrendKeepsTheLatest ==
    LET points == PointsOf(trend) IN
    /\ points \subseteq landed
    /\ \A point \in landed \ (points \cup lapped) :
           /\ Len(trend) = TrendLimit
           /\ \A kept \in points : ~Earlier(kept, point)
    /\ trend \notin EarlierFiles =>
           /\ Len(trend) <= TrendLimit
           /\ \A i \in 1 .. Len(trend) - 1 : ~Earlier(trend[i + 1], trend[i])
=============================================================================
