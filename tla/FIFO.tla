-------------------------------- MODULE FIFO --------------------------------
(***************************************************************************)
(* The FIFO between the controller and the bus (src/simplessd/util/fifo.cc)*)
(*                                                                         *)
(* A FIFO has two queues that share nothing: writes are inserted by the    *)
(* device and then transferred upstream, reads are transferred from        *)
(* upstream and then inserted; both phases of one entry overlap.  A queue  *)
(* is one record q; an operator is a method and returns the record after   *)
(* the call, with the number of the transfer whose handler it called.      *)
(*                                                                         *)
(* An event is the ticks until it is due, or None.  Times that were saved  *)
(* (insertEndAt, dmaEndAt) are kept relative to now as well, and forgotten *)
(* once they are further back than any delay the code adds to them.        *)
(***************************************************************************)
EXTENDS Integers, Sequences, SequencesExt

CONSTANTS
    Unit,            \* FIFOParam::transferUnit
    Capacity,        \* FIFOParam::rqSize and wqSize
    Rate             \* ticks per size unit of FIFOParam::latency

ASSUME FIFOAssumption ==
    /\ Unit \in Nat \ {0} /\ Capacity \in Nat /\ Unit <= Capacity
    /\ Rate \in Nat \ {0}

None == -1
Nobody == 0

Latency(n) == Rate * n

\* What the handling of an entry adds to the end of its other phase.
TailLatency(e) == IF e.size < Unit THEN Latency(e.size) ELSE Latency(Unit)

\* calcSize
CalcSize(n) == IF n < Unit THEN n ELSE ((n + Unit - 1) \div Unit) * Unit

QueueInit ==
    [wait |-> << >>,             \* waitQueue
     xfer |-> << >>,             \* transferQueue
     usage |-> 0,
     insertPending |-> FALSE,
     transferPending |-> FALSE,
     insertDone |-> None,        \* the events
     beginTransfer |-> None,
     submitCompletion |-> None,
     upstream |-> None,          \* the request given to upstream
     ids |-> 0,                  \* counter
     completion |-> {}]          \* readCompletion

Events(q) == <<q.insertDone, q.beginTransfer, q.submitCompletion, q.upstream>>

\* An entry for a request of transfer t: size units between position at of
\* the host's memory and position to of the buffer.
Entry(t, at, to, size) ==
    [t |-> t, at |-> at, to |-> to, size |-> size, last |-> TRUE,
     id |-> 0, end |-> 0]

\* Mutant: the rest of a split request starts in the buffer where the first
\* piece did.
SplitRestartsBuffer(e) ==
    <<[e EXCEPT !.last = FALSE, !.size = Unit],
      [e EXCEPT !.last = TRUE, !.at = @ + Unit, !.size = @ - Unit]>>

\* A request that is larger than the queue: its first unit and the rest.
Split(e) ==
    <<[e EXCEPT !.last = FALSE, !.size = Unit],
      [e EXCEPT !.last = TRUE, !.at = @ + Unit, !.to = @ + Unit,
                !.size = @ - Unit]>>

Oversized(e) == CalcSize(e.size) > Capacity

\* The entries that wait, the first one no larger than the queue.
Splitted(wait) ==
    IF Oversized(Head(wait)) THEN Split(Head(wait)) \o Tail(wait) ELSE wait

\* The first entry may not enter the queue now.  A request that is larger
\* than the queue is not asked.
Blocked(q, pending) ==
    /\ pending \/ q.usage + CalcSize(Head(q.wait).size) > Capacity
    /\ ~Oversized(Head(q.wait))

\* beginTransfer is scheduled once for all entries that are queued.
Begin(q, e) ==
    IF q.beginTransfer # None THEN q.beginTransfer ELSE TailLatency(e)

-----------------------------------------------------------------------------
(* Writes *)

\* insertWrite
InsertWrite(q) ==
    LET wait == Splitted(q.wait)
        n    == CalcSize(Head(wait).size)
        e    == [Head(wait) EXCEPT !.end = Latency(n)]
    IN  IF Blocked(q, q.insertPending) THEN q
        ELSE [q EXCEPT !.wait = wait,
                       !.insertPending = TRUE,
                       !.usage = @ + n,
                       !.insertDone = Latency(n),
                       !.beginTransfer = Begin(q, e),
                       !.xfer = Append(@, e)]

InsertNextWrite(q) == IF q.wait = << >> THEN q ELSE InsertWrite(q)

\* insertWriteDone
InsertWriteDone(q) ==
    InsertNextWrite([q EXCEPT !.insertDone = None, !.wait = Tail(@),
                              !.insertPending = FALSE])

\* transferWrite; delay is what upstream needs for one size unit.
TransferWrite(q, delay) ==
    IF q.transferPending THEN q
    ELSE [q EXCEPT !.transferPending = TRUE,
                   !.upstream = delay * Head(q.xfer).size]

\* Mutant: the place of the entry is not given back.
TransferWriteDoneNextKeeps(q, delay) ==
    LET e == Head(q.xfer)
        p == [q EXCEPT !.submitCompletion = None, !.transferPending = FALSE,
                       !.xfer = Tail(@)]
        r == IF p.xfer # << >> /\ p.beginTransfer = None
             THEN TransferWrite(p, delay) ELSE p
    IN  [q |-> InsertNextWrite(r), calls |-> IF e.last THEN e.t ELSE Nobody]

\* transferWriteDoneNext
TransferWriteDoneNext(q, delay) ==
    LET e == Head(q.xfer)
        p == [q EXCEPT !.submitCompletion = None,
                       !.usage = @ - CalcSize(e.size),
                       !.transferPending = FALSE,
                       !.xfer = Tail(@)]
        r == IF p.xfer # << >> /\ p.beginTransfer = None
             THEN TransferWrite(p, delay) ELSE p
    IN  [q |-> InsertNextWrite(r), calls |-> IF e.last THEN e.t ELSE Nobody]

\* transferWriteDone
TransferWriteDone(q, delay) ==
    LET e == Head(q.xfer)
        p == [q EXCEPT !.upstream = None]
    IN  IF e.end + TailLatency(e) <= 0 THEN TransferWriteDoneNext(p, delay)
        ELSE [q |-> [p EXCEPT !.submitCompletion = e.end + TailLatency(e)],
              calls |-> Nobody]

\* A request of size 0 is ignored.
Accepted(es) ==
    FoldLeft(LAMBDA s, e : IF e.size > 0 THEN Append(s, e) ELSE s, << >>, es)

\* dmaWrite, for each request of es.  After the first, insertWrite finds the
\* same entry in front as before and in the same place.
DmaWrite(q, es) ==
    IF Accepted(es) = << >> THEN q
    ELSE InsertWrite([q EXCEPT !.wait = @ \o Accepted(es)])

-----------------------------------------------------------------------------
(* Reads *)

\* transferRead
TransferRead(q, delay) ==
    LET wait == Splitted(q.wait)
        e    == [Head(wait) EXCEPT !.id = q.ids]
    IN  IF Blocked(q, q.transferPending) THEN q
        ELSE [q EXCEPT !.wait = <<e>> \o Tail(wait),
                       !.transferPending = TRUE,
                       !.ids = @ + 1,
                       !.usage = @ + CalcSize(e.size),
                       !.upstream = delay * e.size,
                       !.beginTransfer = Begin(q, e),
                       !.xfer = Append(@, e)]

TransferNextRead(q, delay) ==
    IF q.wait = << >> THEN q ELSE TransferRead(q, delay)

Completions(q, id) == {c \in q.completion : c.id = id}

\* insertRead
InsertRead(q) ==
    IF q.insertPending THEN q
    ELSE [q EXCEPT !.insertPending = TRUE,
                   !.insertDone = IF @ # None THEN @
                                  ELSE Latency(CalcSize(Head(q.xfer).size))]

\* insertReadDoneNext
InsertReadDoneNext(q, delay) ==
    LET e == Head(q.xfer)
        p == [q EXCEPT !.submitCompletion = None,
                       !.usage = @ - CalcSize(e.size),
                       !.insertPending = FALSE,
                       !.xfer = Tail(@)]
        r == IF p.xfer # << >> /\ p.beginTransfer = None
             THEN InsertRead(p) ELSE p
    IN  [q |-> TransferNextRead(r, delay),
         calls |-> IF e.last THEN e.t ELSE Nobody]

\* insertReadDoneMerge: both phases of an entry are over, its transfer since
\* c.dmaEnd.
InsertReadDoneMerge(q, c, delay) ==
    LET p == [q EXCEPT !.completion = {d \in @ : d.id # c.id}] IN
    IF c.dmaEnd + c.latency <= 0 THEN InsertReadDoneNext(p, delay)
    ELSE [q |-> [p EXCEPT !.submitCompletion = c.dmaEnd + c.latency],
          calls |-> Nobody]

\* Mutant: an entry that was inserted before its transfer ended waits for
\* its insertion again.
TransferReadDoneForgets(q, delay) ==
    LET e == Head(q.wait)
        p == [q EXCEPT !.upstream = None,
                       !.completion = @ \cup {[id |-> e.id, dmaEnd |-> 0,
                                               latency |-> TailLatency(e)]}]
    IN  [q |-> TransferNextRead([p EXCEPT !.wait = Tail(@),
                                          !.transferPending = FALSE], delay),
         calls |-> Nobody]

\* transferReadDone
TransferReadDone(q, delay) ==
    LET e == Head(q.wait)
        p == [q EXCEPT !.upstream = None]
        m == IF Completions(q, e.id) = {}
             THEN [q |-> [p EXCEPT !.completion =
                             @ \cup {[id |-> e.id, dmaEnd |-> 0,
                                      latency |-> TailLatency(e)]}],
                   calls |-> Nobody]
             ELSE InsertReadDoneMerge(
                    p, [CHOOSE c \in Completions(q, e.id) : TRUE
                          EXCEPT !.dmaEnd = 0], delay)
    IN  [m EXCEPT !.q = TransferNextRead([m.q EXCEPT !.wait = Tail(@),
                                                     !.transferPending = FALSE],
                                         delay)]

\* insertReadDone
InsertReadDone(q, delay) ==
    LET e == Head(q.xfer)
        p == [q EXCEPT !.insertDone = None]
    IN  IF Completions(q, e.id) = {}
        THEN [q |-> [p EXCEPT !.completion =
                        @ \cup {[id |-> e.id, dmaEnd |-> 0,
                                 latency |-> TailLatency(e)]}],
              calls |-> Nobody]
        ELSE InsertReadDoneMerge(p, CHOOSE c \in Completions(q, e.id) : TRUE,
                                 delay)

\* dmaRead, for each request of es.
DmaRead(q, es, delay) ==
    IF Accepted(es) = << >> THEN q
    ELSE TransferRead([q EXCEPT !.wait = @ \o Accepted(es)], delay)

-----------------------------------------------------------------------------
(* Time *)

Sooner(n) == IF n = None THEN None ELSE n - 1
Older(n) == IF n <= -Latency(Unit) THEN n ELSE n - 1
Passed(e) == [e EXCEPT !.end = Older(@)]

\* One tick passes.
Elapse(q) ==
    [q EXCEPT !.insertDone = Sooner(@), !.beginTransfer = Sooner(@),
              !.submitCompletion = Sooner(@), !.upstream = Sooner(@),
              !.xfer = [i \in DOMAIN @ |-> Passed(@[i])],
              !.completion = {[c EXCEPT !.dmaEnd = Older(c.dmaEnd)] : c \in @}]
=============================================================================
