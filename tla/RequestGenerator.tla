-------------------------- MODULE RequestGenerator --------------------------
(***************************************************************************)
(* The synthetic I/O generator (src/igl/request/request_generator.cc) as   *)
(* operators on its state, a record g.  The engine's entry for submitEvent *)
(* is g.submitAt; t is the current tick; sizes are in sectors.  HostPath   *)
(* runs the generator against the device.                                  *)
(***************************************************************************)
EXTENDS IOGenerator

CONSTANTS
    IOSize,              \* io_size: sectors to submit before it stops
    IODepth,             \* iodepth
    Offset, Size,        \* offset and size: the region it works on
    BlockSize,           \* blocksize
    BlockAlign,          \* blockalign
    Runtime,             \* runtime, for time_based runs
    Width                \* bound: addresses wrap at 2^Width

ASSUME RequestAssumption ==
    /\ {IOSize, IODepth, Size, BlockSize, BlockAlign} \subseteq Nat \ {0}
    /\ {Offset, Runtime, Width} \subseteq Nat
    /\ 2 ^ Width \in Nat
    /\ Offset + Size + BlockSize < 2 ^ Width

\* The generator before begin(); random and timed are its configured modes.
RequestInit(random, timed) ==
    [kind |-> "request", random |-> random, timed |-> timed, count |-> 0,
     depth |-> 0, reserve |-> FALSE, submitAt |-> Never, ended |-> FALSE,
     initTime |-> 0, addr |-> Offset]

\* The offsets generateAddress can produce.  The random distribution includes
\* its upper bound.  The loop of the sequential case comes to this: reduce
\* modulo size, and step one block back from the end.
SequentialOffset(g) ==
    LET r == (g.count * BlockAlign) % Size IN
    (Offset + (IF r + BlockSize <= Size THEN r ELSE r - BlockSize))
        % (2 ^ Width)

GenerateAddress(g) ==
    IF g.random
    THEN {off - (off % BlockAlign) : off \in Offset .. Offset + Size}
    ELSE {SequentialOffset(g)}

\* The end of the workload: by time, or by the amount submitted.
Finished(g, t) ==
    IF g.timed THEN Runtime <= t - g.initTime
               ELSE g.count * BlockSize >= IOSize

\* Mutant: the return after the end was recognised is missing.
RescheduleNoReturn(g, t, breakTime) ==
    LET h == IF Finished(g, t)
             THEN [g EXCEPT !.reserve = TRUE, !.ended = @ \/ g.depth = 0]
             ELSE g
    IN  IF g.depth < IODepth /\ g.submitAt < t + breakTime
        THEN [h EXCEPT !.submitAt = t + breakTime]
        ELSE h

\* rescheduleSubmit: stop, or schedule the next submission unless it is
\* already scheduled at least that late.
RescheduleSubmit(g, t, breakTime) ==
    IF Finished(g, t)
    THEN [g EXCEPT !.reserve = TRUE, !.ended = @ \/ g.depth = 0]
    ELSE IF g.depth < IODepth /\ g.submitAt < t + breakTime
    THEN [g EXCEPT !.submitAt = t + breakTime]
    ELSE g

\* _submitIO with the address addr.
RequestSubmit(g, t, addr) ==
    RescheduleSubmit([g EXCEPT !.count = @ + 1, !.depth = @ + 1,
                               !.addr = addr], t, SubmissionLatency)

\* begin()
RequestBegin(g, t, addr) == RequestSubmit([g EXCEPT !.initTime = t], t, addr)

\* _iocallback
RequestCallback(g, t) ==
    LET h == [g EXCEPT !.depth = @ - 1] IN
    IF h.reserve THEN [h EXCEPT !.ended = @ \/ h.depth = 0]
    ELSE RescheduleSubmit(h, t, SubmissionLatency + CompletionLatency)

=============================================================================
