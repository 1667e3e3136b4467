----------------------------- MODULE NVMeDevice -----------------------------
(***************************************************************************)
(* The steps an NVMe device takes by itself, between the doorbells and the *)
(* interrupts that it exchanges with its host: events of the controller,   *)
(* DMA transfers, and jobs of the firmware.  Every event of the engine is  *)
(* one action; events that are pending may run in any order, DMA transfers *)
(* of one direction in the order they were requested.                      *)
(***************************************************************************)
EXTENDS NVMeSubsystem

VARIABLES
    c,               \* the controller
    s,               \* the subsystem
    m                \* the host's memory: the rings m.sq[q] and m.cq[q]

deviceVars == <<c, s, m>>

Device == [c |-> c, s |-> s]

DeviceBecomes(x) == c' = x.c /\ s' = x.s

\* A step of the controller that may read a submission ring.
Reads(e) == c' = e /\ UNCHANGED <<s, m>>

\* A step of the controller that may begin to write a completion ring.
Writes(e) ==
    /\ c' = e
    /\ m' = [m EXCEPT !.cq = StartWrite(e, @)]
    /\ UNCHANGED s

DoWork == c.workArmed /\ Reads(Work(c, m.sq))
DoFetch == CanFetch(c) /\ Reads(FetchDone(c, m.sq))
DoRound == CanFinishRound(c) /\ Reads(FinishRound(c))

\* handleRequest gives the command at the front to the subsystem.
Handle(e) ==
    /\ DeviceBecomes(IF c.lSQFIFO = << >> THEN [c |-> e, s |-> s]
                     ELSE Accept([c |-> e, s |-> s], Head(c.lSQFIFO)))
    /\ UNCHANGED m

DoHandleJob == c.handling > 0 /\ Handle(HandleJob(c))
DoHandleEvent == c.requestArmed /\ Handle(HandleEvent(c))

DoCompletion == CanComplete(c) /\ Writes(Completion(c))
DoPost == CanPost(c) /\ Writes(PostDone(c))

\* A job that waited in one of the stages goes on as e says.
Serve(stages, e(_, _)) ==
    /\ \E j \in s.jobs : j.stage \in stages /\ DeviceBecomes(e(Device, j))
    /\ UNCHANGED m

DoSubmit == Serve({"submit"}, SubmitCommand)
DoAdmin == Serve({"reply", "create", "attach"}, AdminDone)
DoNamespace == Serve({"namespace"}, NamespaceSubmit)
DoList == Serve({"list"}, ListDone)

\* The HIL and the data transfer finish in either order.
Parts == {"dma", "hil", "range"}

DoPart(part) ==
    /\ \E j \in s.jobs : /\ j.stage = "data" /\ part \in j.parts
                         /\ DeviceBecomes(PartDone(Device, j, part))
    /\ UNCHANGED m

Served == \/ DoSubmit \/ DoAdmin \/ DoNamespace \/ DoList
          \/ \E part \in Parts : DoPart(part)

-----------------------------------------------------------------------------
(* Where a command is *)

Name(q, cid) == <<q, cid>>

\* Before it was executed: in a ring the controller has not looked at, on
\* its way, in lSQFIFO, or in the hands of the subsystem.
InRing(q) ==
    [i \in 1 .. ItemCount(c.sq[q]) |->
        Name(q, m.sq[q][(c.sq[q].head + i - 1) % c.sq[q].size].cid)]

Arriving == [i \in DOMAIN c.reads |->
                Name(c.reads[i].sq, m.sq[c.reads[i].sq][c.reads[i].slot].cid)]

Queued == [i \in DOMAIN c.lSQFIFO |-> Name(c.lSQFIFO[i].sq, c.lSQFIFO[i].cid)]

Unserved == FoldLeft(LAMBDA r, q : r \o InRing(q), Arriving \o Queued,
                     SetToSeq({q \in QueueIDs : Exists(c.sq[q])}))

Unexecuted == {Name(j.w.sq, j.w.cid) : j \in s.jobs} \cup ToSet(Unserved)

\* After that, its answer: in lCQFIFO, waiting for its transfer to begin, or
\* in a ring the host has not looked at.  The entry whose transfer runs is in
\* memory already, and an earlier interrupt may make the host take it.
Distance(from, to, size) == (to - from) % size

Unread(q, head) ==
    IF ~Exists(c.cq[q]) THEN 0
    ELSE Distance(head, c.cq[q].tail, c.cq[q].size)
            - Cardinality({i \in 2 .. Len(c.writes) : c.writes[i].cq = q})

InCompletionRing(q, head) ==
    [i \in 1 .. Unread(q, head) |->
        LET e == m.cq[q][(head + i - 1) % c.cq[q].size] IN Name(e.sq, e.cid)]

Unposted == [i \in DOMAIN c.lCQFIFO |-> Name(c.lCQFIFO[i].sq, c.lCQFIFO[i].cid)]
               \o [i \in 1 .. Len(c.writes) - 1 |->
                     Name(c.writes[i + 1].sq, c.writes[i + 1].cid)]
=============================================================================
