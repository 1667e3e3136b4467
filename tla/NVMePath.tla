------------------------------ MODULE NVMePath ------------------------------
(***************************************************************************)
(* A run of the simulator with the NVMe driver: the driver brings up the   *)
(* controller and then issues reads, writes, flushes and trims on one I/O  *)
(* queue pair, as an I/O generator asks.                                   *)
(***************************************************************************)
EXTENDS NVMeDriver, NVMeDevice

CONSTANTS
    Workload,        \* the requests of a run: "read", "write", "flush", "trim"
    IODepth,         \* requests the generator keeps in flight
    Garbage          \* what uninitialised command IDs may hold

ASSUME PathAssumption ==
    /\ IODepth \in Nat \ {0}
    /\ Workload \in Seq({"read", "write", "flush", "trim"})
    /\ Garbage \subseteq 0 .. IDSpace - 1

MaxIO == Len(Workload)

VARIABLES
    d,               \* the driver
    issued           \* requests issued so far

vars == <<d, c, s, m, issued>>

System == [d |-> d, c |-> c, s |-> s, m |-> m]

Becomes(x) == /\ d' = x.d
              /\ c' = x.c
              /\ s' = x.s
              /\ m' = x.m

Init ==
    /\ d \in {DriverInit(<<a, b>>) : a \in Garbage, b \in Garbage}
    /\ c = ControllerInit
    /\ s = SubsystemInit
    /\ m = MemoryInit
    /\ issued = 0

\* panic ends the process.
Running == d.panic = "none" /\ c.panic = "none"

-----------------------------------------------------------------------------
(* The host *)

Start ==
    /\ d.stage = "off"
    /\ Becomes(DriverStart(System))
    /\ UNCHANGED issued

IOs == {i \in DOMAIN d.pending : d.pending[i].iv = 1}

\* The generator issues the next request of the run.
Issue ==
    /\ Running
    /\ d.stage = "begun"
    /\ issued < MaxIO
    /\ Cardinality(IOs) < IODepth
    /\ issued' = issued + 1
    /\ Becomes(SubmitIO(System, Workload[issued + 1], issued + 1))

\* A finished batch interrupts the driver, which takes the new entries,
\* rings the doorbell and may submit, before the controller goes on.
Interrupt ==
    /\ Running
    /\ CanSend(c)
    /\ LET x == FoldLeft(UpdateInterrupt, System, Vectors(c))
       IN  Becomes([x EXCEPT !.c = AfterSend(@)])
    /\ UNCHANGED issued

-----------------------------------------------------------------------------
(* The whole *)

Alone(A) == Running /\ A /\ UNCHANGED <<d, issued>>

Next ==
    \/ Start
    \/ Issue
    \/ Interrupt
    \/ Alone(DoWork) \/ Alone(DoFetch) \/ Alone(DoRound)
    \/ Alone(DoHandleJob) \/ Alone(DoHandleEvent)
    \/ Alone(DoCompletion) \/ Alone(DoPost)
    \/ Alone(DoSubmit) \/ Alone(DoAdmin) \/ Alone(DoNamespace)
    \/ Alone(DoList)
    \/ \E part \in Parts : Alone(DoPart(part))

\* The engine runs every event it holds at a finite tick, and the firmware
\* finishes every job and every transfer.  The generator issues its next
\* request when the depth allows it (module HostPath).
Fairness ==
    /\ WF_vars(Start) /\ WF_vars(Issue) /\ WF_vars(Interrupt)
    /\ WF_vars(Alone(DoWork)) /\ WF_vars(Alone(DoFetch))
    /\ WF_vars(Alone(DoRound))
    /\ WF_vars(Alone(DoHandleJob)) /\ WF_vars(Alone(DoHandleEvent))
    /\ WF_vars(Alone(DoCompletion)) /\ WF_vars(Alone(DoPost))
    /\ WF_vars(Alone(Served))

Spec == Init /\ [][Next]_vars /\ Fairness

-----------------------------------------------------------------------------
(* Properties *)

\* The state has the shape that its methods expect: ring indices are inside
\* their rings, and what is queued names queues that exist.
TypeOK ==
    /\ \A k \in 1 .. 2 : /\ d.sqTail[k] \in 0 .. Entries(k - 1) - 1
                         /\ d.cqHead[k] \in 0 .. Entries(k - 1) - 1
                         /\ d.ids[k] \in 0 .. IDSpace - 1
    /\ d.phase \in BOOLEAN
    /\ issued \in 0 .. MaxIO
    /\ \A i \in DOMAIN d.pending : /\ d.pending[i].iv \in 0 .. 1
                                   /\ d.pending[i].cid \in 0 .. MaxCommandID
                                   /\ d.pending[i].context \in 0 .. MaxIO
    /\ \A q \in QueueIDs : Exists(c.sq[q]) =>
          /\ c.sq[q].head \in 0 .. c.sq[q].size - 1
          /\ c.sq[q].tail \in 0 .. c.sq[q].size - 1
          /\ Exists(c.cq[c.sq[q].cqid])
    /\ \A j \in s.jobs : j.parts \subseteq Parts /\ j.w.sq \in 0 .. 1

Posted == InCompletionRing(0, d.cqHead[1]) \o InCompletionRing(1, d.cqHead[2])
PendingNames == [i \in DOMAIN d.pending |-> Name(d.pending[i].iv, d.pending[i].cid)]

\* updateInterrupt never meets an answer it does not wait for, a queue never
\* overflows, no queue is used before it exists or after it is gone, and the
\* bring-up never fails.
NoPanic == Running /\ ~c.freedUsed /\ ~s.freedUsed

\* Every command in the driver's list is in exactly one place of the device
\* or the rings, and nothing else is: no step between submitCommand and
\* updateInterrupt loses a command, serves it twice or answers it twice
\* (doorbells, collectSQueue, handleRequest, submit and completion), and no
\* check fires on the way.
Conserved ==
    /\ TypeOK
    /\ NoPanic
    /\ Len(d.pending) = Len(Unserved) + Cardinality(s.jobs)
                           + Len(Unposted) + Len(Posted)
    /\ ToSet(PendingNames) = Unexecuted \cup ToSet(Unposted \o Posted)
    /\ IsInjective(PendingNames)

\* The entries of a completion ring that the driver's phase says are new are
\* exactly those whose transfer has begun and that it has not taken, across
\* every turn of the ring, although the driver keeps one phase for both rings
\* and the controller one per queue.
PhaseAgrees ==
    LET q == IF d.stage = "begun" THEN 1 ELSE 0
        h == d.cqHead[q + 1]
    IN  Exists(c.cq[q]) =>
           \A i \in 0 .. c.cq[q].size - 1 :
              (m.cq[q][i].phase = (IF i >= h THEN d.phase ELSE ~d.phase))
                 <=> Distance(h, i, c.cq[q].size) < Unread(q, h)

\* The path implements the service of a block device: a request is answered
\* once, after the subsystem executed it; the bring-up ends, and every request
\* of the run is eventually answered.
Waiting(r) == {i \in DOMAIN d.pending : d.pending[i].context = r}
Status(r) ==
    CASE r > issued -> "idle"
      [] r <= issued /\ Waiting(r) = {} -> "answered"
      [] r <= issued /\ Waiting(r) # {} ->
           IF PendingNames[Min(Waiting(r))] \in Unexecuted
           THEN "issued" ELSE "executed"

Service == INSTANCE CommandService
              WITH Requests <- 1 .. MaxIO,
                   status <- [r \in 1 .. MaxIO |-> Status(r)]

ImplementsService == Service!Spec
=============================================================================
