--------------------------- MODULE NVMeController ---------------------------
(***************************************************************************)
(* The NVMe controller (src/simplessd/hil/nvme/controller.cc) and its      *)
(* queues (src/simplessd/hil/nvme/queue.cc).                               *)
(*                                                                         *)
(* The state of a controller is one record c; an operator is a method and  *)
(* returns the record after the call.  Methods call each other and the     *)
(* host synchronously, so a callback of the engine is one step.  Ticks are *)
(* left out: an event that is scheduled, a job handed to a core and a DMA  *)
(* transfer may finish at any later time, transfers in the order they were *)
(* started.  Only a coalescing window remembers whether it is still open.  *)
(***************************************************************************)
EXTENDS Integers, Sequences, FiniteSets, FiniteSetsExt, SequencesExt

CONSTANTS
    NQueues,         \* NVME_MAX_IO_SQUEUE and NVME_MAX_IO_CQUEUE
    MaxRequest,      \* NVME_MAX_REQUEST_COUNT
    WRRHigh,         \* NVME_WRR_HIGH
    WRRMedium,       \* NVME_WRR_MEDIUM
    AggregationThreshold

ASSUME ControllerAssumption ==
    /\ NQueues \in Nat \ {0}
    /\ MaxRequest \in Nat \ {0}
    /\ WRRHigh \in Nat \ {0} /\ WRRMedium \in Nat \ {0}
    /\ AggregationThreshold \in Nat

QueueIDs == 0 .. NQueues

\* A queue that does not exist has no entries; NoSQ and NoCQ stand for NULL.
NoSQ == [size |-> 0, head |-> 0, tail |-> 0, cqid |-> 0, prio |-> 0]
NoCQ == [size |-> 0, head |-> 0, tail |-> 0, phase |-> TRUE, iv |-> 0,
         ien |-> FALSE]
Exists(q) == q.size > 0

\* The index after i in a ring of size entries.
Incr(i, size) == IF i + 1 = size THEN 0 ELSE i + 1

\* Queue::getItemCount
ItemCount(q) == IF q.tail >= q.head THEN q.tail - q.head
                                    ELSE (q.size - q.head) + q.tail

\* AggregationInfo; open says that nextTime is in the future.
NoAggregation == [valid |-> FALSE, pending |-> FALSE, open |-> FALSE,
                  count |-> 0]

NoCommand == [cid |-> 0, op |-> "none", nsid |-> 0, arg |-> << >>]

\* The constructor.
ControllerInit ==
    [sq |-> [q \in QueueIDs |-> NoSQ],
     cq |-> [q \in QueueIDs |-> NoCQ],
     ready |-> FALSE,            \* CSTS.RDY
     shutdownReserved |-> FALSE,
     weighted |-> FALSE,         \* arbitration
     workArmed |-> FALSE,        \* workEvent
     requestArmed |-> FALSE,     \* requestEvent
     reads |-> << >>,            \* entries being fetched: [sq, slot, cmd]
     rounds |-> << >>,           \* collections: entries still to arrive
     handling |-> 0,             \* jobs that will call handleRequest
     requestCounter |-> 0,
     lSQFIFO |-> << >>,
     lCQFIFO |-> << >>,
     completionArmed |-> FALSE,  \* completionEvent
     writes |-> << >>,           \* entries being posted
     batches |-> << >>,          \* completions: [left, ivs]
     agg |-> [v \in QueueIDs |-> NoAggregation],
     freedUsed |-> FALSE,        \* a queue was used after its deletion
     panic |-> "none"]

-----------------------------------------------------------------------------
(* Arbitration: the order in which collectSQueue takes entries from the     *)
(* submission queues.  n[q] is the number of entries of queue q, and the    *)
(* result is the sequence of queues an entry is taken from.                 *)

\* QUEUE_PRIORITY
Urgent == 0
High   == 1
Medium == 2
Low    == 3

InOrder(ids) == SetToSortSeq(ids, LAMBDA p, q : p < q)

\* Passes over the queues, one entry of each per pass, until all are empty.
RoundRobin(n, ids) ==
    LET items == UNION {{<<k, q>> : k \in 1 .. n[q]} : q \in ids}
        order == SetToSortSeq(items, LAMBDA a, b : \/ a[1] < b[1]
                                                   \/ a[1] = b[1] /\ a[2] < b[2])
    IN  [i \in DOMAIN order |-> order[i][2]]

\* One entry of queue q, unless it is empty or the burst is over.  The
\* counter of the burst is reset only when it reaches the weight.
TakeOne(s, q, weight) ==
    IF s.over \/ s.left[q] = 0 THEN s
    ELSE [left    |-> [s.left EXCEPT ![q] = @ - 1],
          out     |-> Append(s.out, q),
          updated |-> IF s.updated + 1 = weight THEN 0 ELSE s.updated + 1,
          over    |-> s.updated + 1 = weight]

\* A pass over the queues ids that ends after weight entries.
Burst(s, ids, weight) ==
    FoldLeft(LAMBDA t, q : TakeOne(t, q, weight), [s EXCEPT !.over = FALSE],
             InOrder(ids))

\* The third pass takes one entry and does not count it.  Its comment says
\* low priority, its condition says medium.
LastBurst(s, ids) ==
    [Burst([s EXCEPT !.updated = 0], ids, 1) EXCEPT !.updated = s.updated]

\* The priorities the three bursts of a round look for.
\* Mutant: the later ones look for low priority.
RoundPrioritiesLow == <<High, Low, Low>>
RoundPriorities == <<High, Medium, Medium>>

\* Weighted round robin: admin queue, urgent queues, then bursts of the
\* others until a round takes nothing.
WeightedRoundRobin(n, prio, ids, wrrHigh, wrrMedium) ==
    LET class(p) == {q \in ids \ {0} : prio[q] = p}
        of(i)    == class(RoundPriorities[i])
        round(s) == LastBurst(Burst(Burst(s, of(1), wrrHigh), of(2), wrrMedium),
                              of(3))
        start    == [left |-> n, out |-> << >>, updated |-> 0, over |-> FALSE]
        some     == RoundRobin(n, of(1) \cup of(2))
    IN  [i \in 1 .. n[0] |-> 0] \o RoundRobin(n, class(Urgent))
           \o FoldLeft(LAMBDA s, i : round(s), start, some).out

-----------------------------------------------------------------------------
(* Registers and doorbells *)

\* writeRegister: both base addresses written, size from the attributes.
CreateAdminQueues(c, size) ==
    [c EXCEPT !.cq[0] = [NoCQ EXCEPT !.size = size, !.ien = TRUE],
              !.sq[0] = [NoSQ EXCEPT !.size = size]]

\* writeRegister of CC: shutdown notification, EN = 1 or EN = 0.
WriteConfiguration(c, enable, shutdown, weighted) ==
    IF shutdown
    THEN [c EXCEPT !.ready = TRUE, !.shutdownReserved = TRUE,
                   !.weighted = weighted]
    ELSE [c EXCEPT !.ready = enable, !.workArmed = enable,
                   !.weighted = weighted]

RingSQTailDoorbell(c, q, tail) ==
    IF Exists(c.sq[q]) THEN [c EXCEPT !.sq[q].tail = tail] ELSE c

\* The interrupt line is cleared; the host does not look at it.
RingCQHeadDoorbell(c, q, head) ==
    IF Exists(c.cq[q]) THEN [c EXCEPT !.cq[q].head = head] ELSE c

-----------------------------------------------------------------------------
(* Queue management, called by the subsystem *)

\* aggregationMap has an entry for the vector: as createCQueue adds it and
\* deleteCQueue erases it, exactly while an I/O completion queue uses the
\* vector.
HasVector(c, iv) == \E i \in QueueIDs \ {0} : Exists(c.cq[i]) /\ c.cq[i].iv = iv

CanCreateCQueue(c, q) == ~Exists(c.cq[q])

CreateCQueue(c, q, size, iv, ien) ==
    [c EXCEPT !.cq[q] = [NoCQ EXCEPT !.size = size, !.iv = iv, !.ien = ien],
              !.agg[iv] = NoAggregation]

CanCreateSQueue(c, q, cqid) == ~Exists(c.sq[q]) /\ Exists(c.cq[cqid])

CreateSQueue(c, q, size, cqid, prio) ==
    [c EXCEPT !.sq[q] = [NoSQ EXCEPT !.size = size, !.cqid = cqid,
                                     !.prio = prio]]

\* deleteCQueue refuses a queue some submission queue posts to.
CanDeleteCQueue(c, q) ==
    /\ q > 0
    /\ Exists(c.cq[q])
    /\ \A i \in QueueIDs \ {0} : Exists(c.sq[i]) => c.sq[i].cqid # q

DeleteCQueue(c, q) ==
    LET iv == c.cq[q].iv
        d  == [c EXCEPT !.cq[q] = NoCQ]
    IN  IF HasVector(d, iv) THEN d ELSE [d EXCEPT !.agg[iv] = NoAggregation]

\* CQEntryWrapper for the command w; ok stands for status 0.
Response(w, ok) == [cq |-> w.cq, sq |-> w.sq, cid |-> w.cid, ok |-> ok]

\* reserveCompletion
ReserveCompletion(c) ==
    [c EXCEPT !.completionArmed =
        \/ @
        \/ c.lCQFIFO # << >>
        \/ \E v \in QueueIDs : c.agg[v].valid /\ c.agg[v].pending]

\* Mutant: nothing is scheduled for the response.
SubmitUnreserved(c, r) ==
    IF ~Exists(c.cq[r.cq]) THEN [c EXCEPT !.panic = "no completion queue"]
    ELSE [c EXCEPT !.lCQFIFO = Append(@, r)]

\* submit: queue a response behind those submitted earlier.
Submit(c, r) ==
    IF ~Exists(c.cq[r.cq]) THEN [c EXCEPT !.panic = "no completion queue"]
    ELSE ReserveCompletion([c EXCEPT !.lCQFIFO = Append(@, r)])

\* One pass of the loop of deleteSQueue over the queued commands: after an
\* erase the iterator steps over the entry that follows.  Past an erased last
\* entry it steps to the first one again (the sentinel of std::list).
AbortPass(s, q) ==
    LET before(i) == {j \in 1 .. i - 1 : \A k \in j .. i - 1 : s.fifo[k].sq = q}
        gone == {i \in DOMAIN s.fifo : /\ s.fifo[i].sq = q
                                       /\ Cardinality(before(i)) % 2 = 0}
        pick(I) == LET o == SetToSortSeq(I, <) IN [i \in DOMAIN o |-> s.fifo[o[i]]]
    IN  IF ~s.again THEN s
        ELSE [fifo  |-> pick(DOMAIN s.fifo \ gone),
              dead  |-> s.dead \o pick(gone),
              again |-> Len(s.fifo) \in gone]

CanDeleteSQueue(c, q) == q > 0 /\ Exists(c.sq[q])

\* deleteSQueue
DeleteSQueue(c, q) ==
    LET s == FoldLeft(LAMBDA t, i : AbortPass(t, q),
                      [fifo |-> c.lSQFIFO, dead |-> << >>, again |-> TRUE],
                      c.lSQFIFO)
    IN  FoldLeft(LAMBDA d, w : Submit(d, Response(w, FALSE)),
                 [c EXCEPT !.lSQFIFO = s.fifo, !.sq[q] = NoSQ], s.dead)

\* abort: the first matching command that is still queued.
AbortMatches(c, q, cid) ==
    {i \in DOMAIN c.lSQFIFO : c.lSQFIFO[i].sq = q /\ c.lSQFIFO[i].cid = cid}

\* Mutant: the aborted command stays in the list.
AbortKeeps(c, q, cid) ==
    LET m == AbortMatches(c, q, cid) IN
    IF m = {} THEN c ELSE Submit(c, Response(c.lSQFIFO[Min(m)], FALSE))

Abort(c, q, cid) ==
    LET m == AbortMatches(c, q, cid) IN
    IF m = {} THEN c
    ELSE Submit([c EXCEPT !.lSQFIFO = RemoveAt(@, Min(m))],
                Response(c.lSQFIFO[Min(m)], FALSE))

\* setCoalescing: without an entry nothing changes.
SetCoalescing(c, iv, enable) ==
    IF ~HasVector(c, iv) THEN c
    ELSE [c EXCEPT !.agg[iv] = [NoAggregation EXCEPT !.valid = enable]]

-----------------------------------------------------------------------------
(* Fetching commands: work, collectSQueue, checkQueue *)

\* The entry at the front of the read channel is copied when its transfer
\* starts; mem[q] is the memory of submission queue q.
StartRead(c, mem) ==
    IF c.reads = << >> \/ Head(c.reads).cmd # NoCommand THEN c
    ELSE [c EXCEPT !.reads[1].cmd =
             mem[Head(c.reads).sq][Head(c.reads).slot]]

\* The order in which a collection empties the queues.
CollectOrder(c) ==
    LET ids == {q \in QueueIDs : Exists(c.sq[q])}
        n   == [q \in QueueIDs |-> ItemCount(c.sq[q])]
    IN  IF c.weighted
        THEN WeightedRoundRobin(n, [q \in QueueIDs |-> c.sq[q].prio], ids,
                                WRRHigh, WRRMedium)
        ELSE RoundRobin(n, ids)

\* How many of the first i entries taken come from queue q.
Taken(order, i, q) == Cardinality({j \in 1 .. i : order[j] = q})

\* workEvent: start fetching everything the doorbells announced.
Work(c, mem) ==
    LET order == CollectOrder(c)
        d     == [c EXCEPT !.workArmed = FALSE]
        slot(i) == (c.sq[order[i]].head + Taken(order, i - 1, order[i]))
                      % c.sq[order[i]].size
        head(q) == IF Taken(order, Len(order), q) = 0 THEN c.sq[q].head
                   ELSE (c.sq[q].head + Taken(order, Len(order), q))
                           % c.sq[q].size
    IN  IF ~c.ready THEN d
        ELSE StartRead(
               [d EXCEPT
                  !.sq = [q \in QueueIDs |-> [c.sq[q] EXCEPT !.head = head(q)]],
                  !.reads = @ \o [i \in DOMAIN order |->
                                    [sq |-> order[i], slot |-> slot(i),
                                     cmd |-> NoCommand]],
                  !.rounds = Append(@, Len(order))], mem)

CanFetch(c) == c.reads # << >>

\* A transfer ends: the command is queued with the completion queue of its
\* queue, which is read through a pointer kept since the fetch began.
FetchDone(c, mem) ==
    LET r == Head(c.reads)
        k == Min({i \in DOMAIN c.rounds : c.rounds[i] > 0})
        w == [sq |-> r.sq, cq |-> c.sq[r.sq].cqid, cid |-> r.cmd.cid,
              op |-> r.cmd.op, nsid |-> r.cmd.nsid, arg |-> r.cmd.arg]
    IN  StartRead([c EXCEPT !.reads = Tail(@),
                            !.rounds[k] = @ - 1,
                            !.lSQFIFO = Append(@, w),
                            !.freedUsed = @ \/ ~Exists(c.sq[r.sq])], mem)

CanFinishRound(c) == c.rounds # << >> /\ Head(c.rounds) = 0

\* queueFunction, when everything collected has arrived.
FinishRound(c) ==
    LET d == [c EXCEPT !.rounds = Tail(@), !.requestCounter = 0,
                       !.handling = @ + 1]
    IN  IF ~c.shutdownReserved THEN d
        ELSE [d EXCEPT !.workArmed = FALSE, !.ready = FALSE,
                       !.shutdownReserved = FALSE, !.lSQFIFO = << >>]

-----------------------------------------------------------------------------
(* Handing commands to the subsystem: handleRequest *)

\* Mutant: the command stays in the list.
HandleRequestKeeps(c) ==
    [c EXCEPT !.requestCounter = @ + 1, !.workArmed = TRUE]

\* handleRequest after the command at the front, if any, was taken.
HandleRequest(c) ==
    LET rest == IF c.lSQFIFO = << >> THEN << >> ELSE Tail(c.lSQFIFO)
        more == rest # << >> /\ c.requestCounter + 1 < MaxRequest
    IN  [c EXCEPT !.lSQFIFO = rest,
                  !.requestCounter = @ + 1,
                  !.requestArmed = @ \/ more,
                  !.workArmed = @ \/ ~more]

\* Called by a job of a core, or by requestEvent.
HandleJob(c) == HandleRequest([c EXCEPT !.handling = @ - 1])
HandleEvent(c) == HandleRequest([c EXCEPT !.requestArmed = FALSE])

-----------------------------------------------------------------------------
(* Posting completions: completion, setData, updateInterrupt *)

\* The entry at the front of the write channel reaches memory when its
\* transfer starts.
StartWrite(c, mem) ==
    IF c.writes = << >> THEN mem
    ELSE LET w == Head(c.writes) IN
         [mem EXCEPT ![w.cq][w.slot] = [sq |-> w.sq, cid |-> w.cid,
                                        ok |-> w.ok, phase |-> w.phase]]

\* Mutant: the phase is not inverted where the ring wraps.
NextPhaseKept(phase, tail) == phase
NextPhase(phase, tail) == IF tail = 0 THEN ~phase ELSE phase

\* setData and the choice whether to raise the vector now.
PostEntry(p, r) ==
    LET q         == p.c.cq[r.cq]
        tail      == Incr(q.tail, q.size)
        a         == p.c.agg[q.iv]
        coalesced == q.ien /\ r.cq > 0 /\ a.valid
        post      == ~(/\ coalesced /\ a.open
                       /\ a.count + 1 <= AggregationThreshold)
    IN  [c |-> [p.c EXCEPT
                  !.writes = Append(@, [cq |-> r.cq, slot |-> q.tail,
                                        sq |-> r.sq, cid |-> r.cid,
                                        ok |-> r.ok, phase |-> q.phase]),
                  !.cq[r.cq].tail = tail,
                  !.cq[r.cq].phase = NextPhase(@, tail),
                  !.agg[q.iv] =
                     IF ~coalesced THEN @
                     ELSE IF post THEN [a EXCEPT !.open = TRUE, !.count = 0]
                     ELSE [a EXCEPT !.pending = TRUE, !.count = a.count + 1],
                  !.panic = IF tail = q.head THEN "overflow" ELSE @],
         ivs |-> IF q.ien /\ post THEN p.ivs \cup {q.iv} ELSE p.ivs]

\* Vectors whose window closed while an interrupt was held back.
Expired(c) == {v \in QueueIDs : /\ c.agg[v].valid /\ c.agg[v].pending
                                /\ ~c.agg[v].open}

CanComplete(c) ==
    c.completionArmed /\ (c.lCQFIFO # << >> \/ Expired(c) # {})

\* completionEvent: post every queued response.  Without one, the vectors
\* collected are dropped with the batch.
Completion(c) ==
    LET p == FoldLeft(PostEntry,
                      [c |-> [c EXCEPT !.lCQFIFO = << >>,
                                       !.completionArmed = FALSE],
                       ivs |-> {}], c.lCQFIFO)
        late == Expired(p.c)
        d == [p.c EXCEPT !.agg = [v \in QueueIDs |->
                 IF v \in late
                 THEN [@[v] EXCEPT !.open = TRUE, !.count = 0, !.pending = FALSE]
                 ELSE @[v]]]
    IN  IF \E r \in Range(c.lCQFIFO) : ~Exists(c.cq[r.cq])
        THEN [c EXCEPT !.panic = "null queue"]
        ELSE IF c.lCQFIFO = << >> THEN d
        ELSE [d EXCEPT !.batches = Append(@, [left |-> Len(c.lCQFIFO),
                                              ivs |-> p.ivs \cup late])]

CanPost(c) == c.writes # << >>

\* A transfer ends; the batch it belongs to is the oldest unfinished one.
PostDone(c) ==
    LET k == Min({i \in DOMAIN c.batches : c.batches[i].left > 0})
    IN  [c EXCEPT !.writes = Tail(@), !.batches[k].left = @ - 1]

CanSend(c) == c.batches # << >> /\ Head(c.batches).left = 0

\* send: the vectors of a finished batch are raised, the lowest first, by
\* the host's updateInterrupt; then the next completion is reserved.
Vectors(c) == SetToSortSeq(Head(c.batches).ivs, <)

AfterSend(c) == ReserveCompletion([c EXCEPT !.batches = Tail(@)])

\* Time passes the end of a coalescing window.
WindowCloses(c, v) == [c EXCEPT !.agg[v].open = FALSE]
=============================================================================
