-------------------------------- MODULE PAL --------------------------------
(***************************************************************************)
(* The parallelism abstraction layer (pal/pal.cc, pal_old.cc, old/PAL2.cc):*)
(* a request of the FTL becomes commands to dies, and each command is      *)
(* given time of its channel and its die.  A command needs the channel for *)
(* its first transfer (DMA0), the die from there until the end, and the    *)
(* channel again for the second transfer (DMA1) after the flash operation. *)
(* Times are handed out ahead of the clock and in any order of arrival.    *)
(*                                                                         *)
(* Statistics (MergedTimeSlots, OpTimeStamp, PALStatistics) decide nothing *)
(* here and are left out.                                                  *)
(***************************************************************************)
EXTENDS Timeline, Sequences, SequencesExt

CONSTANTS
    Devices,         \* the devices examined; each with bounds on the commands
                     \* it gets and on the ticks it runs
    Timing,          \* ticks of each phase of each operation
    ChClasses,       \* classes of the free slots of a channel
    DieClasses,      \* classes of the free slots of a die
    FlushPeriod,     \* FLUSH_PERIOD
    FlushRange,      \* FLUSH_RANGE
    MaxAhead         \* how far ahead of the clock a request may arrive

Operations == {"read", "write", "erase"}
PageTypes == {"lsb", "csb", "msb"}
Dimensions == {"C", "W", "D", "P"}       \* channel, package, die, plane
Positive == Nat \ {0}

ASSUME PALAssumption ==
    /\ FlushPeriod \in Nat /\ FlushRange \in Nat /\ FlushRange <= FlushPeriod
    /\ MaxAhead \in Nat
    /\ ChClasses \subseteq Positive /\ DieClasses \subseteq Positive

\* A device has a size in each dimension, the blocks of a plane, the order in
\* which the dimensions are numbered (alloc: Config::update panics when one is
\* missing or named twice), the dimensions a superblock spans (super),
\* multi-plane operation (multi), a type of cell, and the pages that requests
\* name.
ASSUME DeviceAssumption ==
    \A d \in Devices :
        /\ d.size \in [Dimensions -> Positive] /\ d.blocks \in Positive
        /\ d.type \in {"SLC", "MLC", "TLC"} /\ d.pages \subseteq Nat
        /\ d.commands \in Nat /\ d.ticks \in Nat
        /\ d.alloc \in [1 .. 4 -> Dimensions]
        /\ \A k \in Dimensions : \E i \in 1 .. 4 : d.alloc[i] = k

ASSUME TimingAssumption ==
    /\ Timing.dma0 \in [Operations -> Positive]
    /\ Timing.dma1 \in [Operations -> Positive]
    /\ Timing.mem \in [{"read", "write"} -> [PageTypes -> Nat]]
    /\ Timing.erase \in Nat

VARIABLES
    device,
    ch,              \* ChFreeSlots and ChStartPoint
    die,             \* DieFreeSlots and DieStartPoint
    now,             \* tick of the simulator
    flushAt,         \* tick of flushEvent
    grants           \* every command so far with the time it was given

vars == <<device, ch, die, now, flushAt, grants>>

Init ==
    /\ device \in Devices
    /\ ch = [i \in 0 .. device.size["C"] - 1 |-> NewTimeline(ChClasses)]
    /\ die = [i \in 0 .. device.size["C"] * device.size["W"] * device.size["D"] - 1
                |-> NewTimeline(DieClasses)]
    /\ now = 0
    /\ flushAt = FlushPeriod
    /\ grants = << >>

-----------------------------------------------------------------------------
(* Addresses (PALOLD::convertCPDPBP, PAL::PAL, PAL::Config::update) *)

\* Multi-plane operation addresses the planes of a die as one, and they
\* belong to every superblock.  (Config::update also moves P to the front of
\* the order then, which leaves the order of the others as it is.)
Addressed(d) == {k \in Dimensions : ~(k = "P" /\ d.multi)}
Striped(d) == Addressed(d) \cap d.super
Divided(d) == Addressed(d) \ d.super

\* The product of the sizes of some dimensions.
Size(d, dims, k) == IF k \in dims THEN d.size[k] ELSE 1
Product(d, dims) ==
    Size(d, dims, "C") * Size(d, dims, "W") * Size(d, dims, "D") * Size(d, dims, "P")

SuperBlocks(d) == d.blocks * Product(d, Divided(d))
PageInSuperPage(d) == Product(d, Striped(d))

\* A number written in the mixed radix of the sizes: its digit of dimension k
\* and what is left above all digits.
Position(d, k) == CHOOSE i \in DOMAIN d.alloc : d.alloc[i] = k
Below(d, dims, k) == Product(d, {j \in dims : Position(d, j) < Position(d, k)})

\* Mutant: the digits below are not divided out.
DigitUndivided(d, dims, k, n) == n % d.size[k]

Digit(d, dims, k, n) == (n \div Below(d, dims, k)) % d.size[k]
Rest(d, dims, n) == n \div Product(d, dims)

\* The address of unit i of a page of superblock b.
Address(d, b, page, i) ==
    [at |-> [k \in Dimensions |->
                IF k \in Striped(d) THEN Digit(d, Striped(d), k, i)
                ELSE IF k \in Divided(d) THEN Digit(d, Divided(d), k, b)
                ELSE 0],
     block |-> Rest(d, Divided(d), b),
     page |-> page]

CPDPBPtoDieIdx(d, a) ==
    a.at["D"] + a.at["W"] * d.size["D"] + a.at["C"] * d.size["D"] * d.size["W"]

-----------------------------------------------------------------------------
(* Latencies (old/LatencySLC.cc, LatencyMLC.cc, LatencyTLC.cc) *)

PageType(type, page) ==
    CASE type = "SLC" -> "lsb"
      [] type = "MLC" -> IF page % 2 = 0 THEN "lsb" ELSE "msb"
      [] type = "TLC" -> IF page <= 5 THEN "lsb"
                         ELSE IF page <= 7 THEN "csb"
                         ELSE <<"lsb", "csb", "msb">>[1 + (((page - 8) \div 2) % 3)]

MemTime(d, page, op) == IF op = "erase" THEN Timing.erase
                        ELSE Timing.mem[op][PageType(d.type, page)]

\* The smallest class of a channel is not longer than a flash operation with
\* the transfer behind it: what DMA0 leaves of a slot that also has room for
\* DMA1 is never forgotten.
ASSUME ClassAssumption ==
    \A d \in Devices : \A op \in Operations, page \in d.pages :
        \E k \in ChClasses :
            k <= MemTime(d, page, op) + Timing.dma1[op] + Timing.dma0["read"]

GetLatency(page, op) ==
    [dma0 |-> Timing.dma0[op],
     mem  |-> MemTime(device, page, op),
     dma1 |-> Timing.dma1[op],
     anti |-> Timing.dma0["read"]]     \* kept free before each DMA1

-----------------------------------------------------------------------------
(* TimelineScheduling *)

\* LOOP1: a tick from which the channel is free for DMA0 and the die for the
\* flash operation.  One turn looks for both, from the tick "from" on; the
\* next turn starts where the die is free.
Loop1Die(c, lat, dma0, mem) ==
    [from |-> IF mem.tick = dma0.tick THEN dma0.from ELSE mem.from,
     dma0 |-> dma0.tick, mem |-> mem.tick,
     ends |-> mem.tick = dma0.tick \/ Place(c, lat.dma0, mem.from).tick = dma0.tick]

Loop1Channel(c, d, lat, dma0) ==
    Loop1Die(c, lat, dma0, Place(d, lat.dma0 + lat.mem, dma0.from))

Loop1Turn(c, d, lat, from) == Loop1Channel(c, d, lat, Place(c, lat.dma0, from))

Loop1(c, d, lat, from) ==
    LET loop[f \in Nat] == LET x == Loop1Turn(c, d, lat, f)
                           IN  IF x.ends THEN x ELSE loop[x.from]
    IN  loop[from]

\* Mutant: DMA1 does not wait for the flash operation.
DMA1FromEarly(lat, from) == from + lat.dma0

\* DMA1 is searched for after the flash operation, with the ticks kept free
\* before it.
DMA1From(lat, from) == from + lat.dma0 + lat.mem
FindDMA1(c, lat, from) == Place(c, lat.dma1 + lat.anti, from)

\* LOOP0: and the die is free up to the end of DMA1.  The next turn starts
\* at the slot of the die that is long enough.
Loop0Die(x, dma1From, total, slot) ==
    [from |-> x.from, dma0 |-> x.dma0, mem |-> x.mem,
     dma1From |-> dma1From, total |-> total,
     ends |-> slot = x.mem, next |-> slot]

Loop0DMA1(d, x, dma1From, total) ==
    Loop0Die(x, dma1From, total, Place(d, total, x.from).tick)

Loop0Placed(d, lat, x, dma1From) ==
    Loop0DMA1(d, x, dma1From, dma1From + lat.dma1 + lat.anti - x.from)

Loop0Found(c, d, lat, x) ==
    Loop0Placed(d, lat, x, FindDMA1(c, lat, DMA1From(lat, x.from)).from)

Loop0Turn(c, d, lat, from) == Loop0Found(c, d, lat, Loop1(c, d, lat, from))

Loop0(c, d, lat, from) ==
    LET loop[f \in Nat] == LET x == Loop0Turn(c, d, lat, f)
                           IN  IF x.ends THEN x ELSE loop[x.next]
    IN  loop[from]

\* Step 5: DMA0, then DMA1 behind its ticks kept free, and the die are taken;
\* twice the ticks of a read's DMA0 right after DMA0 stay free as a slot of
\* their own.
Begin(placed) == Max({placed.from, placed.tick})

SplitAfter(c, len, after, placed) ==
    IF placed.from = after THEN InsertFreeSlot(c, len, after, placed.tick, TRUE)
    ELSE c

SplitChannel(c, len, after) == SplitAfter(c, len, after, Place(c, len, after))

AssignDMA1(c, d, lat, x, at0, dma1) ==
    LET at1 == Begin(dma1) + lat.anti
    IN  [ch |-> SplitChannel(InsertFreeSlot(c, lat.dma1, at1, dma1.tick, FALSE),
                             lat.anti * 2, at0 + lat.dma0),
         die |-> InsertFreeSlot(d, x.total, x.from, x.mem, FALSE),
         dma0 |-> Slot(at0, lat.dma0),
         dma1 |-> Slot(at1, lat.dma1),
         mem |-> Slot(Max({x.from, x.mem}), x.total)]

AssignDMA0(c, d, lat, x) ==
    AssignDMA1(c, d, lat, x, Max({x.from, x.dma0}), FindDMA1(c, lat, x.dma1From))

Assign(c, d, lat, x) ==
    AssignDMA0(InsertFreeSlot(c, lat.dma0, x.from, x.dma0, FALSE), d, lat, x)

Schedule(c, d, lat, arrived) == Assign(c, d, lat, Loop0(c, d, lat, arrived))

\* submit: one command to one die.
Granted(x, i, j, arrived, lat, r) ==
    [ch |-> [x.ch EXCEPT ![i] = r.ch],
     die |-> [x.die EXCEPT ![j] = r.die],
     grants |-> Append(x.grants,
                   [ch |-> i, die |-> j, arrived |-> arrived, lat |-> lat,
                    dma0 |-> r.dma0, dma1 |-> r.dma1, mem |-> r.mem])]

SubmitTo(x, i, j, lat, arrived) ==
    Granted(x, i, j, arrived, lat, Schedule(x.ch[i], x.die[j], lat, arrived))

Submit(x, op, arrived, a) ==
    SubmitTo(x, a.at["C"], CPDPBPtoDieIdx(device, a), GetLatency(a.page, op), arrived)

-----------------------------------------------------------------------------
(* Requests of the FTL (PALOLD::read, write, erase) and the flush *)

\* The commands of a request, one for each unit that its I/O flag selects,
\* arrive together; the request is finished when the last of them is (MAX).
SubmitUnit(x, op, arrived, b, page, ioFlag, i) ==
    IF i \in ioFlag THEN Submit(x, op, arrived, Address(device, b, page, i)) ELSE x

Commands(x, op, arrived, b, page, ioFlag) ==
    FoldLeft(LAMBDA y, i : SubmitUnit(y, op, arrived, b, page, ioFlag, i - 1),
             x, [i \in 1 .. PageInSuperPage(device) |-> i])

Serve(op) ==
    /\ Len(grants) < device.commands
    /\ \E arrived \in now .. now + MaxAhead, b \in 0 .. SuperBlocks(device) - 1,
          page \in device.pages,
          ioFlag \in (SUBSET (0 .. PageInSuperPage(device) - 1)) \ {{}} :
            LET x == Commands([ch |-> ch, die |-> die, grants |-> grants],
                              op, arrived, b, page, ioFlag)
            IN  ch' = x.ch /\ die' = x.die /\ grants' = x.grants
    /\ UNCHANGED <<device, now, flushAt>>

Read == Serve("read")
Write == Serve("write")
Erase == Serve("erase")

\* flushFunction: slots that ended more than FlushRange ago are forgotten.
Flush ==
    /\ now = flushAt
    /\ ch' = [i \in DOMAIN ch |-> FlushAFreeSlot(ch[i], now - FlushRange)]
    /\ die' = [i \in DOMAIN die |-> FlushAFreeSlot(die[i], now - FlushRange)]
    /\ flushAt' = now + FlushPeriod
    /\ UNCHANGED <<device, now, grants>>

Tick ==
    /\ now < flushAt /\ now < device.ticks
    /\ now' = now + 1
    /\ UNCHANGED <<device, ch, die, flushAt, grants>>

Next == Read \/ Write \/ Erase \/ Flush \/ Tick

Spec == Init /\ [][Next]_vars

-----------------------------------------------------------------------------
(* Properties *)

\* No time is given twice: the transfers on a channel do not overlap, nor do
\* the commands on a die, although later requests are fitted in between
\* earlier ones; what is still recorded as free is in nobody's time, in one
\* slot only, and before the start point; no assertion of InsertFreeSlot
\* fails.
Transfers(i) == {a \in (DOMAIN grants) \X {"dma0", "dma1"} : grants[a[1]].ch = i}
Sound(t, taken) ==
    /\ ~t.failed
    /\ \A k, l \in DOMAIN t.free : \A s \in t.free[k], r \in t.free[l] :
          Overlap(s, r) => k = l /\ s = r
    /\ \A s \in FreeSlots(t) : s.to < t.start /\ \A x \in taken : ~Overlap(s, x)
    /\ \A x \in taken : x.to < t.start

Exclusive ==
    /\ \A i \in DOMAIN ch :
          /\ \A a, b \in Transfers(i) :
                a # b => ~Overlap(grants[a[1]][a[2]], grants[b[1]][b[2]])
          /\ Sound(ch[i], {grants[a[1]][a[2]] : a \in Transfers(i)})
    /\ \A j \in DOMAIN die :
          LET mine == {n \in DOMAIN grants : grants[n].die = j}
          IN  /\ \A a, b \in mine : a # b => ~Overlap(grants[a].mem, grants[b].mem)
              /\ Sound(die[j], {grants[n].mem : n \in mine})

\* The time given is time enough: nothing starts before the command arrived,
\* the flash operation has its whole latency between the transfers, and the
\* die is the command's from the first tick of DMA0 to the last of DMA1,
\* however often the two loops start over.
Served ==
    \A n \in DOMAIN grants :
        LET g == grants[n]
        IN  /\ g.arrived <= g.dma0.from
            /\ g.dma1.from >= g.dma0.to + 1 + g.lat.mem
            /\ Within(g.dma0, g.mem) /\ Within(g.dma1, g.mem)

\* Every block of every plane belongs to exactly one superblock, whatever the
\* order of the dimensions and the extent of a superblock, and two dies never
\* share a timeline.
Physical(d) ==
    [at : {f \in [Dimensions -> 0 .. Max({d.size[k] : k \in Dimensions}) - 1] :
              \A k \in Dimensions :
                 f[k] < IF k = "P" /\ d.multi THEN 1 ELSE d.size[k]},
     block : 0 .. d.blocks - 1, page : {0}]

Partitioned ==
    LET units == (0 .. SuperBlocks(device) - 1) \X (0 .. PageInSuperPage(device) - 1)
        blocks == {Address(device, u[1], 0, u[2]) : u \in units}
    IN  /\ blocks = Physical(device)
        /\ Cardinality(blocks) = Cardinality(units)
        /\ \A a, b \in blocks :
              CPDPBPtoDieIdx(device, a) = CPDPBPtoDieIdx(device, b)
                 => \A k \in {"C", "W", "D"} : a.at[k] = b.at[k]

\* Forgetting old slots changes no schedule: a command that arrives when
\* they are flushed is given the same time as if they were still there.
SameTimes(r, q) == r.dma0 = q.dma0 /\ r.dma1 = q.dma1 /\ r.mem = q.mem

FlushHarmless ==
    now = flushAt => \A op \in Operations, page \in device.pages,
                        i \in DOMAIN ch, j \in DOMAIN die :
        LET old == now - FlushRange
            lat == GetLatency(page, op)
        IN  SameTimes(Schedule(ch[i], die[j], lat, now),
                      Schedule(FlushAFreeSlot(ch[i], old),
                               FlushAFreeSlot(die[j], old), lat, now))
=============================================================================
