------------------------------ MODULE NVMeAdmin ------------------------------
(***************************************************************************)
(* An NVMe device under a host that manages it: queues are deleted and     *)
(* created again, commands aborted, namespaces created, attached, detached *)
(* and deleted, while I/O goes on.  The driver of this repository uses     *)
(* none of this; the device offers it to any host.                         *)
(*                                                                         *)
(* The host keeps one admin command outstanding.  It begins where a        *)
(* bring-up ends: one completion queue and the submission queues that post *)
(* to it.  A quiescent host deletes a queue or a namespace only when no    *)
(* I/O is outstanding there.                                               *)
(***************************************************************************)
EXTENDS NVMeDevice

CONSTANTS
    Priorities,      \* priority of each I/O submission queue
    Weighted,        \* the host chose weighted round robin
    QueueSize,       \* entries of every queue
    Plans,           \* what a host may do: the admin operations it uses, and
                     \* bounds on its admin commands and on its I/O
    Sizes,           \* blocks of the namespaces the host creates
    Quiescent        \* the host waits for I/O before it deletes

ASSUME AdminAssumption ==
    /\ Priorities \in [1 .. NQueues -> Urgent .. Low]
    /\ QueueSize \in Nat /\ QueueSize > 1 /\ QueueSize <= MaxQueueEntries
    /\ Weighted \in BOOLEAN /\ Quiescent \in BOOLEAN
    /\ \A p \in Plans : p.admin \in Nat /\ p.io \in Nat

VARIABLE
    h                \* the host

vars == <<c, s, m, h>>

IOQueues == 1 .. NQueues
TheCQ == 1           \* the completion queue of all I/O

Blank(entry) == [q \in QueueIDs |-> [i \in 0 .. QueueSize - 1 |-> entry]]

Init ==
    /\ c = FoldLeft(LAMBDA x, q : CreateSQueue(x, q, QueueSize, TheCQ,
                                               Priorities[q]),
                    CreateCQueue(WriteConfiguration(
                                   CreateAdminQueues(ControllerInit, QueueSize),
                                   TRUE, FALSE, Weighted),
                                 TheCQ, QueueSize, TheCQ, TRUE),
                    [q \in IOQueues |-> q])
    /\ s = SubsystemInit
    /\ m = [sq |-> Blank(NoCommand),
            cq |-> Blank([sq |-> 0, cid |-> 0, ok |-> TRUE, phase |-> FALSE])]
    /\ \E plan \in Plans : h =
           [tail |-> [q \in QueueIDs |-> 0],
            out |-> {},          \* commands not answered yet
            plan |-> plan,
            admin |-> 0, io |-> 0]   \* commands issued so far

Running == c.panic = "none" /\ ~c.freedUsed /\ ~s.freedUsed

-----------------------------------------------------------------------------
(* The host *)

\* The host writes a command into ring q and rings the doorbell.
Send(q, op, nsid, arg) ==
    LET cmd == [cid |-> h.admin + h.io + 1, op |-> op, nsid |-> nsid,
                arg |-> arg]
    IN
    /\ Running
    /\ m' = [m EXCEPT !.sq[q][h.tail[q]] = cmd]
    /\ h' = [h EXCEPT !.tail[q] = Incr(@, QueueSize),
                      !.admin = IF q = 0 THEN @ + 1 ELSE @,
                      !.io = IF q = 0 THEN @ ELSE @ + 1,
                      !.out = @ \cup {[sq |-> q, cid |-> cmd.cid, op |-> op,
                                       arg |-> arg]}]
    /\ c' = RingSQTailDoorbell(c, q, Incr(h.tail[q], QueueSize))
    /\ UNCHANGED s

On(q) == {o \in h.out : o.sq = q}

\* I/O, as long as both rings have room and nothing is being deleted or
\* created under it.
IssueIO(q, nsid) ==
    /\ h.io < h.plan.io
    /\ c.ready /\ ~c.shutdownReserved
    /\ Exists(c.sq[q])
    /\ \E i \in DOMAIN s.ns : s.ns[i].nsid = nsid
    /\ Cardinality({o \in h.out : o.sq # 0}) < QueueSize - 1
    /\ ~\E o \in h.out : o.op \in {"deleteSQ", "createSQ", "deleteCQ", "delete"}
    /\ Send(q, "flush", nsid, << >>)

Manage(op, nsid, arg) ==
    /\ op \in h.plan.ops
    /\ h.admin < h.plan.admin
    /\ c.ready /\ ~c.shutdownReserved
    /\ On(0) = {}
    /\ Send(0, op, nsid, arg)

Quiet(q) == Quiescent => On(q) = {}

IssueDeleteSQ(q) == /\ Exists(c.sq[q]) /\ Quiet(q)
                    /\ Manage("deleteSQ", 0, <<q>>)
IssueDeleteCQ == /\ \A q \in IOQueues : Quiet(q)
                 /\ Manage("deleteCQ", 0, <<TheCQ>>)

\* The rings of a queue that is created again are zeroed.
IssueCreateCQ ==
    /\ ~Exists(c.cq[TheCQ])
    /\ Manage("createCQ", 0, <<TheCQ, QueueSize, TheCQ>>)
IssueCreateSQ(q) ==
    /\ ~Exists(c.sq[q]) /\ Exists(c.cq[TheCQ])
    /\ Manage("createSQ", 0, <<q, QueueSize, TheCQ, Priorities[q]>>)

\* A command to abort may have been answered meanwhile.
IssueAbort(o) == o.sq # 0 /\ Manage("abort", 0, <<o.sq, o.cid>>)
IssueFeatures(on) == Manage("features", 0, <<"coalescing", TheCQ, on>>)
IssueLog == Manage("log", AllNamespaces, <<"health">>)

IssueCreateNS(size) == Manage("create", 0, <<size, DefaultFormat>>)
IssueNS(op, nsid) ==
    /\ op = "delete" => \A q \in IOQueues : Quiet(q)
    /\ Manage(op, nsid, << >>)

\* The host shuts the controller down, waits for that, and enables it again.
Shutdown ==
    /\ Running
    /\ "shutdown" \in h.plan.ops
    /\ h.out = {}
    /\ c.ready /\ ~c.shutdownReserved
    /\ h.admin < h.plan.admin
    /\ h' = [h EXCEPT !.admin = @ + 1]
    /\ c' = WriteConfiguration(c, TRUE, TRUE, Weighted)
    /\ UNCHANGED <<s, m>>

Enable ==
    /\ Running
    /\ ~c.ready
    /\ c' = WriteConfiguration(c, TRUE, FALSE, Weighted)
    /\ UNCHANGED <<s, m, h>>

\* The host takes what is new in the rings of the vectors, rings the
\* doorbells, and forgets what was answered.
Entered(iv) == {q \in QueueIDs : Exists(c.cq[q]) /\ c.cq[q].iv = iv}

Answers(q) == ToSet(InCompletionRing(q, c.cq[q].head))

TakeRing(x, q) ==
    [c |-> RingCQHeadDoorbell(x.c, q, (x.c.cq[q].head + Unread(q, c.cq[q].head))
                                         % x.c.cq[q].size),
     h |-> [x.h EXCEPT !.out = {o \in @ : Name(o.sq, o.cid) \notin Answers(q)}]]

\* A queue whose deletion is answered starts again at index 0.
Renewed(x) ==
    LET q(o) == o.arg[1]
        gone == {o \in h.out \ x.h.out : o.op = "deleteSQ"}
    IN  [x EXCEPT !.h.tail = [i \in QueueIDs |->
                                IF \E o \in gone : q(o) = i THEN 0 ELSE @[i]]]

Interrupt ==
    /\ Running
    /\ CanSend(c)
    /\ LET rings == SetToSortSeq(UNION {Entered(v) : v \in ToSet(Vectors(c))}, <)
           x == Renewed(FoldLeft(TakeRing, [c |-> c, h |-> h], rings))
       IN  c' = AfterSend(x.c) /\ h' = x.h
    /\ UNCHANGED <<s, m>>

\* A coalescing window ends.
Window == \E v \in QueueIDs : /\ c.agg[v].open
                              /\ c' = WindowCloses(c, v)
                              /\ UNCHANGED <<s, m>>

-----------------------------------------------------------------------------
(* The whole *)

Alone(A) == Running /\ A /\ UNCHANGED h

Next ==
    \/ \E q \in IOQueues, i \in DOMAIN s.ns : IssueIO(q, s.ns[i].nsid)
    \/ \E q \in IOQueues : IssueDeleteSQ(q) \/ IssueCreateSQ(q)
    \/ IssueDeleteCQ \/ IssueCreateCQ
    \/ \E o \in h.out : IssueAbort(o)
    \/ \E on \in BOOLEAN : IssueFeatures(on)
    \/ IssueLog
    \/ \E size \in Sizes : IssueCreateNS(size)
    \/ \E op \in {"attach", "detach", "delete"}, n \in 1 .. 2 : IssueNS(op, n)
    \/ Shutdown \/ Enable
    \/ Interrupt
    \/ Alone(DoWork) \/ Alone(DoFetch) \/ Alone(DoRound)
    \/ Alone(DoHandleJob) \/ Alone(DoHandleEvent)
    \/ Alone(DoCompletion) \/ Alone(DoPost)
    \/ Alone(DoSubmit) \/ Alone(DoAdmin) \/ Alone(DoNamespace)
    \/ Alone(DoPart("hil"))
    \/ Alone(Window)

Spec == Init /\ [][Next]_vars

-----------------------------------------------------------------------------
(* Properties *)

\* Every command the host waits for is in exactly one place of the device or
\* its rings, also while queues are deleted, commands aborted and namespaces
\* removed under it; no queue and no namespace is used after its deletion.
OutNames == {Name(o.sq, o.cid) : o \in h.out}
Announced == FoldLeft(LAMBDA r, q : r \o InCompletionRing(q, c.cq[q].head),
                      << >>, [q \in 1 .. NQueues + 1 |-> q - 1])

Conserved ==
    /\ Running
    /\ Cardinality(h.out) = Len(Unserved) + Cardinality(s.jobs)
                              + Len(Unposted) + Len(Announced)
    /\ OutNames = Unexecuted \cup ToSet(Unposted \o Announced)

\* The namespaces own disjoint ranges of the pages of the device, their
\* identifiers are in ascending order, every block of a namespace is in its
\* own pages (convertUnit), and allocatedLogicalPages is the number of pages
\* in use: createNamespace and destroyNamespace compute the same sizes in
\* different orders of division.
NamespacesDisjoint ==
    /\ \A i, j \in DOMAIN s.ns : i < j =>
          /\ s.ns[i].nsid < s.ns[j].nsid
          /\ Pages(s.ns[i]) \cap Pages(s.ns[j]) = {}
    /\ \A i \in DOMAIN s.ns :
          /\ Pages(s.ns[i]) \subseteq 0 .. TotalLogicalPages - 1
          /\ \A b \in 0 .. s.ns[i].size - 1 :
                ConvertUnit(s.ns[i], b, 1) \subseteq Pages(s.ns[i])
    /\ s.allocated = Cardinality(UNION {Pages(s.ns[i]) : i \in DOMAIN s.ns})

\* A collection takes everything that the doorbells announced: no queue is
\* passed over, whatever its priority and however the bursts of the weighted
\* arbitration end (collectSQueue).
CollectsAll ==
    [][Len(c'.rounds) > Len(c.rounds) =>
          \A q \in QueueIDs : Exists(c'.sq[q]) => ItemCount(c'.sq[q]) = 0]_vars
=============================================================================
