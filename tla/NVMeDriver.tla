----------------------------- MODULE NVMeDriver -----------------------------
(***************************************************************************)
(* The host's NVMe driver (src/sil/nvme/nvme.cc) and its rings             *)
(* (src/sil/nvme/queue.cc).                                                *)
(*                                                                         *)
(* The state of the driver is one record d.  An operator takes             *)
(* x = [d, c, s, m], the driver and the device with the memory of the      *)
(* rings, because the driver rings doorbells while it submits and while it *)
(* handles an interrupt.                                                   *)
(***************************************************************************)
EXTENDS NVMeSubsystem

CONSTANTS
    QueueEntryAdmin,  \* QUEUE_ENTRY_ADMIN
    QueueEntryIO,     \* QUEUE_ENTRY_IO
    MaxCommandID,     \* maxID of increaseCommandID
    IDSpace           \* 2^16, the modulus of a command ID

ASSUME DriverAssumption ==
    /\ {QueueEntryAdmin, QueueEntryIO, MaxCommandID} \subseteq Nat \ {0}
    /\ IDSpace \in Nat /\ IDSpace > MaxCommandID

Least(a, b) == IF a < b THEN a ELSE b
AdminEntries == Least(QueueEntryAdmin, MaxQueueEntries)
IOEntries    == Least(QueueEntryIO, MaxQueueEntries)
Entries(iv)  == IF iv = 0 THEN AdminEntries ELSE IOEntries

\* A ring is zeroed when it is allocated.
NoEntry == [sq |-> 0, cid |-> 0, ok |-> TRUE, phase |-> FALSE]
Ring(entry, n) == [i \in 0 .. n - 1 |-> entry]

\* The constructor, with the command IDs it leaves uninitialised.
DriverInit(ids) ==
    [phase   |-> TRUE,
     sqTail  |-> <<0, 0>>,
     cqHead  |-> <<0, 0>>,
     ids     |-> ids,
     pending |-> << >>,      \* pendingCommandList
     stage   |-> "off",      \* the callback init waits for
     nsid    |-> 0,          \* namespaceID
     panic   |-> "none"]

MemoryInit == [sq |-> [q \in 0 .. 1 |-> Ring(NoCommand, Entries(q))],
               cq |-> [q \in 0 .. 1 |-> Ring(NoEntry, Entries(q))]]

\* increaseCommandID
IncreaseCommandID(id) ==
    LET next == (id + 1) % IDSpace IN IF next > MaxCommandID THEN 1 ELSE next

\* submitCommand.  context is the number of the I/O, or 0.
SubmitTo(x, iv, cmd, context) ==
    LET k    == iv + 1
        cid  == IncreaseCommandID(x.d.ids[k])
        tail == Incr(x.d.sqTail[k], Entries(iv))
    IN  [x EXCEPT !.d.ids[k] = cid,
                  !.m.sq[iv][x.d.sqTail[k]] = [cmd EXCEPT !.cid = cid],
                  !.d.sqTail[k] = tail,
                  !.d.pending = Append(@, [iv |-> iv, cid |-> cid,
                                           context |-> context]),
                  !.c = RingSQTailDoorbell(@, iv, tail)]

Command(op, nsid, arg) == [NoCommand EXCEPT !.op = op, !.nsid = nsid,
                                            !.arg = arg]

\* The next command of the initialisation, and the stage that waits for it.
Advance(x, stage, cmd) == SubmitTo([x EXCEPT !.d.stage = stage], 0, cmd, 0)

\* init: the admin queues, the controller, and the first Identify.
DriverStart(x) ==
    Advance([x EXCEPT !.c = WriteConfiguration(
                              CreateAdminQueues(@, AdminEntries),
                              TRUE, FALSE, FALSE)],
            "init0", Command("identify", 0, <<"controller">>))

\* The active namespaces, the lowest identifier first.
Active(s) == {s.ns[i].nsid : i \in {k \in DOMAIN s.ns : s.ns[k].attached}}

\* _init0 to _init5: the callback of the command that init waits for.
InitCallback(x, ok) ==
    CASE x.d.stage = "init0" ->
           Advance(x, "init1", Command("identify", 0, <<"list">>))
      [] x.d.stage = "init1" /\ Active(x.s) = {} ->
           [x EXCEPT !.d.panic = "no namespaces"]
      [] x.d.stage = "init1" /\ Active(x.s) # {} ->
           Advance([x EXCEPT !.d.nsid = Min(Active(x.s))], "init2",
                   Command("identify", Min(Active(x.s)), <<"namespace">>))
      [] x.d.stage = "init2" ->
           Advance(x, "init3", Command("features", 0, <<"queues">>))
      [] x.d.stage = "init3" ->
           Advance(x, "init4", Command("createCQ", 0, <<1, IOEntries, 1>>))
      [] x.d.stage = "init4" /\ ok ->
           Advance(x, "init5", Command("createSQ", 0,
                                       <<1, IOEntries, 1, Urgent>>))
      [] x.d.stage = "init5" /\ ok ->
           [x EXCEPT !.d.stage = "begun"]
      [] OTHER -> [x EXCEPT !.d.panic = "queue not created"]

\* submitIO
SubmitIO(x, op, id) == SubmitTo(x, 1, Command(op, x.d.nsid, << >>), id)

-----------------------------------------------------------------------------
(* updateInterrupt *)

\* How many entries the loop takes: up to the first whose phase is not the
\* driver's, which is inverted where the ring wraps.
NewEntries(x, iv) ==
    LET size == Entries(iv)
        at(i) == x.d.cqHead[iv + 1] + i
        new(i) == x.m.cq[iv][at(i) % size].phase
                     = (IF at(i) < size THEN x.d.phase ELSE ~x.d.phase)
    IN  Min({i \in 0 .. size : i = size \/ ~new(i)})

\* One pass of the loop.  The callback runs before the command leaves the
\* list; the head is moved and the phase inverted after it.
TakeEntry(x, iv) ==
    LET k     == iv + 1
        e     == x.m.cq[iv][x.d.cqHead[k]]
        found == {i \in DOMAIN x.d.pending : /\ x.d.pending[i].iv = iv
                                             /\ x.d.pending[i].cid = e.cid}
        next  == Incr(x.d.cqHead[k], Entries(iv))
        y     == IF iv = 0 THEN InitCallback(x, e.ok) ELSE x
    IN  IF found = {} THEN [x EXCEPT !.d.panic = "invalid interrupt"]
        ELSE [y EXCEPT !.d.pending = RemoveAt(@, Min(found)),
                       !.d.cqHead[k] = next,
                       !.d.phase = IF next = 0 THEN ~@ ELSE @]

\* The head is written to the doorbell when something was taken.
UpdateInterrupt(x, iv) ==
    LET n == NewEntries(x, iv)
        y == FoldLeft(LAMBDA z, i : IF z.d.panic = "none" THEN TakeEntry(z, iv)
                                                          ELSE z,
                      x, [i \in 1 .. n |-> i])
    IN  IF n = 0 THEN x
        ELSE [y EXCEPT !.c = RingCQHeadDoorbell(@, iv, y.d.cqHead[iv + 1])]
=============================================================================
