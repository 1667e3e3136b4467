------------------------------ MODULE Transfer ------------------------------
(***************************************************************************)
(* Data transfers of an NVMe device: a command's data pointer is read      *)
(* through the FIFO, page by page or segment by segment, and its parts are *)
(* then moved through the same FIFO (dma.cc, fifo.cc and the DMA side of   *)
(* the driver in src/sil/nvme/nvme.cc).                                    *)
(*                                                                         *)
(* Several commands are in flight, at any distance in time.  One tick is   *)
(* one step; events of one tick run in any order.                          *)
(***************************************************************************)
EXTENDS FIFO, DMA, FiniteSets

CONSTANTS
    Jobs,            \* the data pointers that commands may carry
    MaxTransfers,    \* bound: commands of a run
    Delays           \* ticks per size unit of the bus, one is chosen

ASSUME TransferAssumption == MaxTransfers \in Nat /\ Delays \subseteq Nat \ {0}

\* A data pointer comes with the host's memory behind it: a page or segment
\* of a list is not empty, and what its last entry names can be read.
Descriptors == [type : {"data", "bucket", "segment"}, at : Nat, size : Nat]

ASSUME JobAssumption ==
    \A j \in Jobs :
        /\ j.via \in {"prp", "ring", "sgl"} /\ j.offset \in Nat /\ j.size \in Nat
        /\ j.via = "ring" => j.prp1 \in Nat /\ j.ring \in Nat
        /\ j.via = "prp" =>
              /\ j.prp1 \in Nat /\ j.prp2 \in Nat
              /\ PRPStart(j).next \in {0} \cup DOMAIN j.lists
              /\ \A p \in DOMAIN j.lists :
                    /\ p \in Nat /\ j.lists[p] \in Seq(Nat) /\ j.lists[p] # << >>
                    /\ Last(j.lists[p]) \in {0} \cup DOMAIN j.lists
        /\ j.via = "sgl" =>
              /\ j.first \in Descriptors
              /\ j.first.type = "segment" => j.first.at \in DOMAIN j.lists
              /\ j.first.type = "segment" => \A p \in DOMAIN j.lists :
                    LET l == j.lists[p]
                    IN  /\ p \in Nat /\ l \in Seq(Descriptors) /\ l # << >>
                        /\ Last(l).type = "segment" => Last(l).at \in DOMAIN j.lists

VARIABLES
    reads, writes,   \* the queues of the FIFO
    x,               \* the transfers
    delay            \* of the bus

vars == <<reads, writes, x, delay>>

Transfers == 1 .. MaxTransfers

Idle == [stage |-> "idle", job |-> [via |-> "none"], walk |-> Walk(<< >>, 0, 0),
         counter |-> 0, moved |-> {}]

Init == /\ reads = QueueInit /\ writes = QueueInit
        /\ x = [t \in Transfers |-> Idle]
        /\ delay \in Delays

\* Transfer t knows its list or asks for the next page or segment of it.
Listed(t, y, w) ==
    /\ x' = [x EXCEPT ![t] = [y EXCEPT !.walk = w,
                                 !.stage = IF w.next = 0 THEN "ready" ELSE "list"]]
    /\ reads' = IF w.next = 0 THEN reads
                ELSE DmaRead(reads, <<Entry(t, w.next, 0,
                                            IF y.job.via = "prp"
                                            THEN PRPSize(w.next)
                                            ELSE Len(y.job.lists[w.next]))>>,
                             delay)
    /\ UNCHANGED <<writes, delay>>

Panic(t) == /\ x' = [x EXCEPT ![t].stage = "panic"]
            /\ UNCHANGED <<reads, writes, delay>>

\* No event is scheduled for the transfer, now or later.
Stuck(t, j) == /\ x' = [x EXCEPT ![t] = [Idle EXCEPT !.job = j, !.stage = "stuck"]]
               /\ UNCHANGED <<reads, writes, delay>>

\* The constructor for the data pointer of a command.
Start(t) ==
    /\ x[t].stage = "idle"
    /\ \A u \in 1 .. t - 1 : x[u].stage # "idle"
    /\ \E j \in Jobs :
          CASE j.via = "prp" /\ PRPShort(j) -> Panic(t)
            [] j.via = "prp" /\ ~PRPShort(j) ->
                 Listed(t, [Idle EXCEPT !.job = j], PRPStart(j))
            [] j.via = "ring" ->
                 Listed(t, [Idle EXCEPT !.job = j],
                        Walk(<<Chunk(j.prp1, j.ring)>>, 0, 0))
            [] j.via = "sgl" /\ SGLUnknown(j) -> Stuck(t, j)
            [] j.via = "sgl" /\ ~SGLUnknown(j) ->
                 Listed(t, [Idle EXCEPT !.job = j], SGLStart(j))

\* The firmware looks at the page or segment that has arrived.
Parse(t) ==
    LET y == x[t]
        l == y.job.lists[y.walk.next]
    IN  /\ y.stage = "parse"
        /\ IF y.job.via = "prp"
           THEN IF PRPInvalid(y.walk, l) THEN Panic(t)
                ELSE Listed(t, y, PRPPage(y.walk, l))
           ELSE IF SGLInvalid(l) THEN Panic(t)
                ELSE Listed(t, y, SGLSegment(y.walk, l))

\* read and write: every piece is handed to the FIFO; without one the
\* handler is called at once.
Move(t) ==
    LET y  == x[t]
        ps == IF y.job.via = "sgl"
              THEN SGLPieces(y.walk.list, y.job.offset, y.job.size)
              ELSE Pieces(y.walk.list, y.job.offset, y.job.size)
        es == [i \in DOMAIN ps |-> Entry(t, ps[i].at, ps[i].to, ps[i].size)]
    IN  /\ y.stage = "ready"
        /\ x' = [x EXCEPT ![t].counter = Len(es),
                          ![t].stage = IF es = << >> THEN "done" ELSE "moving"]
        /\ IF y.job.dir = "read"
           THEN reads' = DmaRead(reads, es, delay) /\ UNCHANGED writes
           ELSE writes' = DmaWrite(writes, es) /\ UNCHANGED reads
        /\ UNCHANGED delay

-----------------------------------------------------------------------------
(* Events of the FIFO *)

\* commonDMAHandler
CommonDMAHandler(y) ==
    [y EXCEPT !.counter = @ - 1,
              !.stage = IF y.counter = 1 THEN "done" ELSE @]

\* The handler of a request: a page of a list, or a piece of the data.
Handler(y, t) ==
    IF t = Nobody THEN y
    ELSE [y EXCEPT ![t] = IF @.stage = "list" THEN [@ EXCEPT !.stage = "parse"]
                          ELSE CommonDMAHandler(@)]

\* The copy that the driver makes for the request it serves.
Copied(y, e) ==
    IF y[e.t].stage # "moving" THEN y
    ELSE [y EXCEPT ![e.t].moved =
             @ \cup {<<e.to + k, e.at + k>> : k \in 0 .. e.size - 1}]

Reads(r, y) == /\ reads' = r.q /\ x' = Handler(y, r.calls)
               /\ UNCHANGED <<writes, delay>>
Writes(r, y) == /\ writes' = r.q /\ x' = Handler(y, r.calls)
                /\ UNCHANGED <<reads, delay>>
Quiet(q) == [q |-> q, calls |-> Nobody]

DoInsertWriteDone == /\ writes.insertDone = 0
                     /\ Writes(Quiet(InsertWriteDone(writes)), x)
DoTransferWrite ==
    /\ writes.beginTransfer = 0
    /\ Writes(Quiet(TransferWrite([writes EXCEPT !.beginTransfer = None], delay)), x)
DoTransferWriteDone ==
    /\ writes.upstream = 0
    /\ Writes(TransferWriteDone(writes, delay), Copied(x, Head(writes.xfer)))
DoTransferWriteDoneNext ==
    /\ writes.submitCompletion = 0
    /\ Writes(TransferWriteDoneNext(writes, delay), x)

DoTransferReadDone ==
    /\ reads.upstream = 0
    /\ Reads(TransferReadDone(reads, delay), Copied(x, Head(reads.wait)))
DoInsertRead ==
    /\ reads.beginTransfer = 0
    /\ Reads(Quiet(InsertRead([reads EXCEPT !.beginTransfer = None])), x)
DoInsertReadDone == /\ reads.insertDone = 0
                    /\ Reads(InsertReadDone(reads, delay), x)
DoInsertReadDoneNext ==
    /\ reads.submitCompletion = 0
    /\ Reads(InsertReadDoneNext(reads, delay), x)

Pending == {n \in ToSet(Events(reads) \o Events(writes)) : n # None}

\* Time goes on when nothing is due, and matters only while something is
\* scheduled.
Tick == /\ Pending # {} /\ 0 \notin Pending
        /\ reads' = Elapse(reads) /\ writes' = Elapse(writes)
        /\ UNCHANGED <<x, delay>>

Run == \/ \E t \in Transfers : Parse(t) \/ Move(t)
       \/ DoInsertWriteDone \/ DoTransferWrite \/ DoTransferWriteDone
       \/ DoTransferWriteDoneNext
       \/ DoTransferReadDone \/ DoInsertRead \/ DoInsertReadDone
       \/ DoInsertReadDoneNext
       \/ Tick

\* Something is scheduled or waits for a core: Run is enabled.
Busy == Pending # {} \/ \E t \in Transfers : x[t].stage \in {"parse", "ready"}

\* The engine's queue is empty and no command is left to begin.
Rest == ~Busy /\ x[MaxTransfers].stage # "idle" /\ UNCHANGED vars

Next == Run \/ (\E t \in Transfers : Start(t)) \/ Rest

\* The engine dispatches events as long as there are any.  This is
\* WF_vars(Run) with its enabling condition written out.
Fairness == []<>(~Busy) \/ []<><<Run>>_vars

Spec == Init /\ [][Next]_vars /\ Fairness

-----------------------------------------------------------------------------
(* Properties *)

\* What the host expects of job j: buffer position k is moved to or from the
\* place where the host put it.
Expected(j) == {<<k, j.where[k]>> : k \in DOMAIN j.where}

\* A transfer moves what its data pointer names and nothing else, each part
\* at its own place of the buffer, and its handler is called only when all
\* of it has moved: splitting a request, walking a list while other
\* transfers run, and counting pieces lose, repeat or displace nothing.
DataMoved ==
    \A t \in Transfers :
        /\ x[t].moved \subseteq (IF x[t].stage = "idle" THEN {}
                                 ELSE Expected(x[t].job))
        /\ x[t].stage = "done" => x[t].moved = Expected(x[t].job)

Space(s) == FoldLeft(LAMBDA n, e : n + CalcSize(e.size), 0, s)

\* The space that usage counts is that of the queued entries, both phases
\* work on entries that exist (front() is never called on an empty queue),
\* an entry that is being inserted keeps its place at the front, and a
\* submitted completion belongs to the entry whose phase is pending.
FifoAccounts ==
    /\ reads.usage = Space(reads.xfer) /\ writes.usage = Space(writes.xfer)
    /\ writes.insertPending <=> writes.insertDone # None
    /\ writes.insertPending => writes.wait # << >>
    /\ writes.transferPending <=>
          (writes.upstream # None \/ writes.submitCompletion # None)
    /\ writes.transferPending \/ writes.beginTransfer # None <=> writes.xfer # << >>
    /\ reads.transferPending <=> reads.upstream # None
    /\ reads.transferPending => reads.wait # << >>
    /\ reads.insertPending \/ reads.beginTransfer # None <=> reads.xfer # << >>
    /\ reads.insertDone # None \/ reads.submitCompletion # None
          => reads.insertPending
    /\ Cardinality(reads.completion) <= Len(reads.xfer)

\* Every transfer that a command begins ends: no request waits in the FIFO
\* for an event that nobody will schedule, whichever of its two phases ends
\* first and however long the bus takes.
TransfersEnd == \A t \in Transfers :
    x[t].stage # "idle" ~> x[t].stage = "done"
=============================================================================
