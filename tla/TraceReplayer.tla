--------------------------- MODULE TraceReplayer ---------------------------
(***************************************************************************)
(* The trace replayer (src/igl/trace/trace_replayer.cc) as operators on    *)
(* its state, a record g.  A trace line is reduced to its time stamp:      *)
(* line, chosen when the line is parsed.  Lines that do not match the      *)
(* regular expression are skipped by parseLine and are not counted here.   *)
(***************************************************************************)
EXTENDS IOGenerator

CONSTANTS
    TraceLines,          \* lines of the trace that match
    MaxIOs,              \* possible values of max_io, 0 for no limit
    MaxQueueDepth        \* maxQueueDepth

ASSUME TraceAssumption ==
    {TraceLines, MaxQueueDepth} \cup MaxIOs \subseteq Nat

TimingModes == {"sync", "async", "strict"}

TraceInit(mode, maxIO) ==
    [kind |-> "trace", mode |-> mode, maxIO |-> maxIO, count |-> 0,
     depth |-> 0, reserve |-> FALSE, submitAt |-> Never, ended |-> FALSE, initTime |-> 0,
     line |-> 0, first |-> 0, sync |-> FALSE]

\* parseLine: the next line, or the end of the file.
ParseLine(g, line) ==
    IF g.count = TraceLines
    THEN [g EXCEPT !.reserve = TRUE, !.ended = @ \/ g.depth = 0]
    ELSE [g EXCEPT !.count = @ + 1, !.line = line]

\* rescheduleSubmit
TraceReschedule(g, t, breakTime) ==
    IF g.mode = "strict" THEN g
    ELSE IF g.mode = "async" /\ g.depth >= MaxQueueDepth
    THEN [g EXCEPT !.sync = TRUE]
    ELSE [g EXCEPT !.submitAt = t + breakTime]

\* What submitIO does after the request went to the block layer.  The engine
\* turns a time that has passed into the current one.
Scheduled(g, t) ==
    IF g.reserve THEN g
    ELSE CASE g.mode = "strict" ->
                LET at == g.line - g.first + g.initTime
                IN  [g EXCEPT !.submitAt = IF at < t THEN t ELSE at]
           [] g.mode = "async" -> TraceReschedule(g, t, SubmissionLatency)
           [] OTHER            -> g

\* submitIO, with the time stamp of the line it parses next.
TraceSubmit(g, t, line) ==
    LET h == [g EXCEPT !.depth = @ + 1] IN
    IF g.maxIO # 0 /\ g.count >= g.maxIO THEN [h EXCEPT !.reserve = TRUE]
    ELSE Scheduled(ParseLine(h, line), t)

\* begin(): parse, fix the origin of time, submit the first request.
TraceBegin(g, t, line, next) ==
    LET h == ParseLine([g EXCEPT !.initTime = t], line)
        k == [h EXCEPT !.first = IF g.mode = "strict" THEN h.line ELSE t]
    IN  IF k.reserve THEN [k EXCEPT !.ended = TRUE]
        ELSE TraceSubmit(k, t, next)

\* Mutant: a submission held back by the queue depth is not resumed.
TraceCallbackStalls(g, t) ==
    LET h == [g EXCEPT !.depth = @ - 1,
                       !.ended = @ \/ (g.reserve /\ g.depth = 1)]
    IN  IF h.mode = "sync"
        THEN TraceReschedule([h EXCEPT !.sync = FALSE], t,
                             SubmissionLatency + CompletionLatency)
        ELSE h

\* iocallback
TraceCallback(g, t) ==
    LET h == [g EXCEPT !.depth = @ - 1,
                       !.ended = @ \/ (g.reserve /\ g.depth = 1)]
    IN  IF h.mode = "sync" \/ h.sync
        THEN TraceReschedule([h EXCEPT !.sync = FALSE], t,
                             SubmissionLatency + CompletionLatency)
        ELSE h

=============================================================================
