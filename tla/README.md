# A TLA+ model of the SSD simulator and its flash translation layers

The repository is a standalone SSD simulator (SimpleSSD) extended with four
page-mapping flash translation layers that differ in how they level wear, and
with experiments on the lifetime they reach. This directory models it from the
main program down to the time slots of the flash: event engine and process,
I/O generators, block layer, both drivers, the NVMe device with its queues,
data transfers and namespaces, the SATA, UFS and open-channel devices, host
interface layer, line cache, translation layers and the scheduling of channels
and dies. TLC checks the models on small instances. For every size, TLAPS
proves the storage invariants of the translation layer and its refinement of a
logical device, and the invariants of the engine, the request path, the line
cache, the FIFO of the NVMe device, the SATA, UFS and open-channel devices and
the flash scheduler.

    tlc -workers 2 -config FTLUnits.cfg FTL        one run, from this directory
    tlapm FTLProofs.tla                            the proofs of one part

`PROJECT.json` lists components, runs, hazards and theorems, and maps each
definition to the source lines it stands for.

## 1. Inventory

A run of the simulator is one thread that executes the events of one queue,
plus a progress thread and a signal handler. From top to bottom:

| component | source | state | operations |
|---|---|---|---|
| main, signals | `src/sim/main.cc`, `signal.cc` | globals, `killLock` | build the path, event loop, progress thread, cleanup |
| event engine | `src/sim/engine.cc` | `simTick`, event list, event queue, `forceStop` | allocate, schedule, deschedule, deallocate, doNextEvent, stop |
| request generator | `src/igl/request` | `io_count`, `io_depth`, `reserveTermination`, `submitEvent` | init, begin, submit, completion callback, reschedule |
| trace replayer | `src/igl/trace` | the same, current line, `nextIOIsSync` | parseLine, begin, submitIO, iocallback, reschedule |
| block layer | `src/bil` | `ioQueue`, latency statistics | submitIO, completion |
| drivers | `src/sil/none`, `src/sil/nvme` | none; rings, phase, pending commands, command IDs | init, submitIO, interrupts, DMA |
| NVMe controller, queues | `src/simplessd/hil/nvme/controller.cc`, `queue.cc` | registers, submission and completion queues, lists of commands and answers, coalescing state | doorbells, queue creation and deletion, arbitration, fetch, completion, abort |
| NVMe subsystem | `subsystem.cc`, `namespace.cc` | namespaces and their page ranges, attachment, jobs | admin commands, I/O commands |
| NVMe DMA | `dma.cc` | lists of PRP or SGL entries, counters | construct, read, write |
| interconnect FIFO | `src/simplessd/util/fifo.cc` | wait, transfer and completion queues, space in use | dmaRead, dmaWrite, insertion, transfer, merge |
| SATA, UFS devices | `src/simplessd/hil/sata`, `ufs` | port and controller registers, command slots, queues of requests and frames or completions | issue, polling, fetch, commands, frames, completion, interrupts; no driver here creates them |
| open-channel SSD | `src/simplessd/hil/nvme/ocssd.cc` | chunk descriptors (state, write pointer), completion queue | vector and scalar reads and writes, reset, log and geometry pages (2.0); page and block commands, bad block table (1.2); no driver here asks for it |
| host interface layer | `src/simplessd/hil/hil.cc` | completion queue, `lastScheduled`, busy time | read, write, flush, trim, format, completion |
| firmware cores | `src/simplessd/cpu` | job queue and event of each core | execute, submitJob, jobDone |
| line cache | `src/simplessd/icl` | lines (tag, valid, dirty, times), eviction table, prefetch state | read, write, evict, flush, trim, format |
| translation layer | `src/simplessd/ftl` | mapping table, blocks, free list, write slots, wear | initialize, read, write, trim, format, collection, erase |
| PAL | `src/simplessd/pal` | free time slots and start point of each channel and die | read, write, erase, flush of old slots |
| DRAM | `src/simplessd/dram` | bank state | read and write return a time |

The generator submits a request to the block layer, which lists it and hands
it to a driver. The pass-through driver calls the host interface layer
directly; the NVMe driver writes a command into a ring and rings a doorbell,
and the controller fetches the command, hands it to a namespace, moves its
data and posts the answer, each by DMA through the FIFO and in events of its
own. The host interface layer executes a function on a core; that function
calls cache, translation layer, PAL and DRAM in one nested call that returns
the time the request will be finished. The completion is an event; it calls
back driver, block layer and generator, and the generator schedules the next
submission. Everything below the host interface layer is therefore sequential,
and everything above it is events.

What is hard, and where it is kept in `PROJECT.json` under `hazards`:

- *collections inside writes*: a write runs a collection that updates table,
  valid bits and reverse map of many blocks, allocates blocks for its copies
  while it is short of them, and may lose blocks to wear half-way;
- *stale references*: write slots, victims, cache lines, queued commands and
  jobs name blocks, tags, queues and namespaces that another function may have
  erased or replaced;
- *order that others rely on*: the free list is sorted by wear because several
  functions insert with care, and others stop searching early; two phases of
  one transfer overlap and may end in either order;
- *event order*: submission and completion share events, completions arrive in
  any order, and one missed wake-up ends the simulation early and silently;
- *two sides of a ring*: driver and controller keep heads, tails and phases
  apart and see each other only through memory and doorbells;
- *registers shared with a host*: a bit set between the read and the clearing
  of a status, a frame that is written twice or retires the wrong slot;
- *numeric edges*: inclusive bounds, unsigned subtractions, thresholds,
  divisions in different orders;
- *shutdown*: signal handler, progress thread and main thread tear down shared
  objects.

What makes each part correct: the engine dispatches in time order and first
come first served, and the process comes to an end; every command of a driver
is in one place and is answered once; a transfer moves what its data pointer
names and ends; namespaces share no page; the translation layer never loses,
mixes up or overwrites data, never uses a block twice, retires blocks exactly
at their limit and keeps the promises its wear levelling is measured by; the
cache finds what it holds and writes back what it drops; no time of a channel
or die is given twice; the request path calls every request back once, keeps
to the configured depth and comes to an end.

## 2. Modules

| module | models | kind |
|---|---|---|
| `Engine` | the event engine, callbacks that call back into it | component |
| `Simulator` | engine, progress thread, signal handler, cleanup | composition |
| `IOGenerator`, `RequestGenerator`, `TraceReplayer` | the generators, as operators on a record | component |
| `HIL` | host interface layer on its cores | component |
| `HostPath` | generator, block layer, pass-through driver, HIL | composition |
| `NVMeController` | controller, queues and arbitration, as operators on a record | component |
| `NVMeSubsystem` | namespaces, admin and I/O commands, as operators on a record | component |
| `NVMeDevice` | controller, subsystem and the rings in memory: the steps of a device | composition |
| `NVMeDriver` | the NVMe driver, as operators on a record | component |
| `NVMePath` | driver and device under I/O | composition |
| `NVMeAdmin` | device under a host that manages queues and namespaces | composition |
| `CommandSlots` | slots, polling and fetch, common to SATA and UFS | component |
| `SATA` | AHCI adapter and SATA device, under an AHCI driver | component |
| `UFS` | UFS controller and device, under a UFS driver | component |
| `OpenChannel` | open-channel subsystems 1.2 and 2.0, under a host with several queues | component |
| `HostAdapters` | one of the three, their properties | composition |
| `CommandService` | what a block device promises | abstract specification |
| `FIFO` | the interconnect FIFO, as operators on a record | component |
| `DMA` | PRP lists, rings and SGLs: construction, walk, pieces | component |
| `Transfer` | data transfers of several commands through one FIFO | composition |
| `GenericCache` | the line cache | component |
| `MappingCore` | what the four mapping modes share, with the flash blocks | component |
| `VictimSelection` | selectVictimBlock, given a weight | component |
| `PageMapping`, `WLPageMapping`, `RBPAPageMapping`, `LAPageMapping` | allocation and victim weight of modes 0 to 3 | component |
| `FTL` | the four modes under one interface, their properties | composition |
| `LogicalDevice` | what a translation layer promises | abstract specification |
| `Timeline` | free time slots of one channel or die | component |
| `PAL` | requests of the FTL: from superblocks to channel, package, die, plane, block; time on channels and dies | component |
| `MCNVMePath`, `MCNVMeAdmin`, `MCTransfer`, `MCHostAdapters`, `MCPAL` | instances for TLC | instances |
| `SeqLemmas` | facts about sequences, least elements, sums and folds | lemmas |
| `EngineProofs`, `HostProofs`, `CacheProofs`, `FTLProofs`, `PALProofs`, `TransferProofs`, `AdapterProofs` | theorems about `Simulator`, `HostPath`, `GenericCache`, `MappingCore` with `FTL`, `PAL`, `Transfer` and `HostAdapters` | proofs |

**Engine and Simulator.** `eventQueue` is a sequence of event and tick in
queue order. Between two dispatches the main program, and inside a dispatch
the running callback, may make any engine call (allocate, schedule,
deschedule, deallocate, stop); `DoNextEvent` takes the front entry and
`CallbackDone` returns. `Simulator` adds the progress thread, one action per
call it makes, and cleanup, one action per stretch between two points where
the other thread can see a difference. The signal handler runs on the main
thread and never returns to it; `held` is the mutex it interrupted.

**HIL and HostPath.** An event is the tick it is scheduled for. `Serve` is the
part of a HIL function after its core has run it; what the layers below
contribute is a latency from a set. A generator is a record that the operators
of its module transform; `HostPath` has one action per engine event (begin,
submit, job, completion), each of which runs all the calls nested in it: the
completion of a request calls HIL, driver, block layer and generator. Of
events with equal ticks any may be next, which includes the engine's order.
The loop ends when the engine is stopped or has no event left.

**The NVMe device.** The records `c` (controller), `s` (subsystem) and `m`
(rings in memory) are transformed by the operators of `NVMeController` and
`NVMeSubsystem`; each action of `NVMeDevice` is one event, one job of a core
or the end of one DMA, with everything nested in it. A collection reads all
entries the doorbells announced (`rounds` holds the reads under way) and its
commands enter `lSQFIFO` when the last read is done; a completion writes its
entries likewise and then posts the vectors. Time is left out: what is
scheduled may run at any later moment, in any order the code does not fix.
Commands carry what decides their path (operation, namespace, queue, size) and
an I/O command passes through its parts (list, data, HIL) in the order its
handler nests them. Panics set `panic`, the use of a deleted queue or
namespace `freedUsed`; the run then stops. `NVMeDriver` keeps `phase`, the
pending list and the command identifiers of `src/sil/nvme`, and brings the
controller up step by step. The host of `NVMeAdmin` is not in this repository; it obeys the rules of
the interface (rings never overrun, one admin command at a time, a queue
drained before it is deleted).

**SATA and UFS.** `interface` picks one of them in the initial state. A command
is a context that goes through stages (fetch of header, table and PRDT, the
layer below, data, response), in the order the callbacks of its handler are
nested; `Path` lists them. In `SATA` a frame (FIS) waits in `responses` until
the driver's write to PxIS retires it; `reg.writes` counts the DMA writes of
frames under way, which the missing `submitFISPending` makes more numerous than
the frames. PxIS itself is left out because every write to it clears all bits
a frame can have set. In `UFS` a completion waits in `responses` until the
event that clears its doorbell bit. No driver of this repository constructs
either device; the one modelled brings the device up, reuses slots as they come
free, takes back what the registers report, and keeps two rules that the code
needs: it gives slot 0 to other commands only before the first queued one
(`MayUse`), and it reads IS again before it leaves its handler (`Collect`).

**The open-channel SSD.** A slot is a command of the host in one of the
controller's queues. `Path12` and `Path20` list the stages of each command in
the order its callbacks are nested. When the list of addresses is known,
`Internal` checks and updates the chunk descriptors for the whole list
(`WriteEntry`, `EraseEntry`); the flash is programmed later, when a core has run
the job ("nand" stage), so that other commands see descriptors that are ahead of
the flash. `reg.flash` is the set of programmed pages of each chunk, which the
code does not keep. Completion queue and event are those of `HIL`; here a
finished operation calls back at any later moment. The host lets commands
overlap, repeat and reorder pages as they like, with two rules (`MaySend`). No
other command under way changes a chunk that a reset changes, nor one that a
write of more pages than `ResultBits` changes (`Apart`). A reset of several
chunks names closed ones only and each once (`MayReset`), because eraseInternal
forgets to erase what follows a chunk it refuses; and such a long write has
pages above the write pointers, in order (`MayWrite`), because writeInternal
marks the entries it refuses in a result of 64 bits and leaves those beyond on
its list (`Refused`).

**FIFO, DMA, Transfer.** A FIFO queue is a record of its wait and transfer
queues, its flags, the space in use and its events, each as the ticks until it
runs. A data pointer is a record with the lists its memory holds; `HostPRP` is
the one the driver builds. A transfer first reads its list page by page (or
segment by segment) through the FIFO, then moves all its pieces through it;
`moved` records which place of the buffer went to which place of the memory.

**GenericCache.** `cacheData` maps set and way to a line. The simulator moves
no data, so three history variables say what a line would contain: `new` (the
line holds the last version the host wrote), `flash` (the last version has
been given to the FTL) and `live` (written and not discarded). A read runs its
whole loop (reserve, evict, fetch) in one action, as the call does; a policy
that compares times may pick any line it compares. All sizes and switches of
the constructor are chosen in the initial state.

**MappingCore.** One cell is one I/O unit of one physical page. `table` maps a
logical page and unit to a place; `valid`, `erased` and `owner` are the bit
sets and the reverse map of all blocks; `active`, `freeBlocks`, `deadBlocks`
the pool; `lastFreeBlock` the open block of each write slot. The constructor
and the loops of `initialize()` run step by step (`pc` is "ctor", "warmup",
"invalidate"). A host call is one action; if it needs a collection, `pc` goes
to "select", "copy" (one action per page copied) and "erase" (one per victim)
and no other call starts before it is back at "idle". Every panic and every
exit(0) of the code is a value of `outcome`, and `pc` is then "stopped". Which
block an allocation takes and which victims are chosen is left open here.
Times, statistics output and PAL are left out: no decision of modes 0 to 3
depends on them, except the age of the cost-benefit policy, which may
therefore produce any order.

**The modes.** Each mode's module defines its `GetFreeBlock` and
`CalculateVictimWeight` and lists its operations as the actions of
`MappingCore` restricted by them. Floating-point weights are scaled to
integers. `FTL` picks the mode in its initial state, as `FTL::FTL` does.

**PAL.** A timeline is the free slots of a channel or die by class of length,
and the tick from which everything is free. `Schedule` is TimelineScheduling
with its two nested searches; `grants` records the time every command was
given. `Address` takes the number of a superblock apart in the mixed radix of
the configured order of dimensions. Both loops are recursive functions of the
tick their next turn starts at; `failed` records that time was taken that the
slot it is taken from does not have.

## 3. Runs

Passing runs:

| run | question | bounds, and why they are enough |
|---|---|---|
| `Simulator` | Does the queue stay sorted, duplicate-free and first come first served under every sequence of calls, also calls made by callbacks; does the process end, wherever the progress thread and a signal are? | 3 events, ticks 0..2, 2 dispatches: an event can be rescheduled across two others in both directions, and deallocated while queued; the thread and the signal meet every point of the loop and of cleanup |
| `FTLUnits` | Do table and flash agree at every step of writes, partial writes, trims and collections, and does the layer implement the logical device? | mode 0, 4 blocks of 2 pages of 2 units, one block pre-worn, threshold 2, random victims: collections start with partly valid victims, blocks die, the layer runs out of space |
| `FTLWear` | Does the free list stay sorted, are blocks retired exactly at the threshold, is no sanity check reached, does every collection end? | modes 0 and 1, 4 blocks of 3 pages, threshold 3, reclaiming up to a ratio: several victims in one collection, of which some die |
| `FTLChannels` | Do the modes keep what each claims: channels kept, no dominated victim, a block below every average; does the initial fill never collect? | modes 0 to 3, two write slots, 5 blocks, formats, an initial fill that asks for more overwrites than there is room for |
| `GenericCache` | Does the lookup find every valid line, does a full set always yield a way, is no write lost? | 3 line addresses on 2 lines, fully associative and direct mapped, 1 and 2 lines in a page, read and write caching on and off: every set overflows, prefetches reach past the end, evictions pick lines of other sets. Eviction granularity is one page; MODE_ALL (`EvictAll`) can be switched on in the cfg and passes too |
| `HostPath` | Does every run come to an end with nothing in flight, with depths, wake-ups and accounts right? | 0 to 2 cores, latencies 1 and 3 so that completions overtake each other, depth 3 with 4 requests, time-based runs of 5 ticks, traces of 4 lines with time stamps up to 2 apart, with and without max_io |
| `NVMePath` | Is every command of the driver in exactly one place until it is answered, do the phases of both sides agree, does the path implement a service that answers each request once? | bring-up, then a write, a flush, a trim and a read at depth 2 on I/O rings of 3 entries: the completion ring wraps while answers are outstanding, identifiers wrap, data and HIL parts end in either order |
| `NVMeAdmin` | Does that hold while queues and namespaces are created and deleted, commands aborted, interrupts coalesced and the controller shut down; do namespaces stay disjoint; does a collection leave nothing behind? | two submission queues of different priority on one completion queue, 4 pages, two block sizes; plans of up to 4 admin commands or 2 with I/O around them |
| `HostAdapters` | Is no command slot forgotten, served twice or reported free too early, does nothing wait unannounced, do the descriptors of an open-channel SSD agree with its flash, does each interface implement the service? | 2 slots and 3 requests, so that a slot is reused while the other is busy and frames of its first use are left; 6 mixes of SATA commands with and without queueing and 4 of UFS commands, a port that is stopped once and a UIC command at any time; 12 mixes of open-channel commands on 3 chunks of 2 pages of 2 blocks, with writes that fill, repeat, overlap and reorder pages, resets while other chunks are written, and results of 2 bits, so that a write of 3 pages is longer than its result |
| `Transfer` | Does a transfer move what its data pointer names, does the FIFO account for its space and phases, does every transfer end? | 2 transfers at any distance, pages of 4 units, lists of 2 entries, a FIFO of 4 units that moves 2 at a time, a bus slower and faster than the FIFO: one, two and three pages, unaligned buffers, queue slots, SGLs with skipped parts and blocks larger than the FIFO |
| `PAL` | Is no time given twice and enough time given, does flushing old slots change nothing, does the address layout partition the flash? | 3 commands on two dies of one channel arriving up to 2 ticks ahead, or superblocks of both dies; every order of the dimensions and every extent of a superblock for 3 x 1 x 2 x 2 |

A disagreement of the code with its own comments, shown by a run that TLC
refutes (`findings` quotes the lines):

| run | property | what happens |
|---|---|---|
| `StaleCopy` | `CopiesOnlyValid` | with one unit per page a collection copies invalid pages over current data |

Further behaviour met while modelling, for which no run is kept. Some of it is
stated by a property that fails:

- `OpenBlocksInUse` with two write slots (`PageCountToMaxPerf = 2`): a full
  open block is reclaimed while the slot keeps naming it.
- `TrimsInUse`: the trim of a partly written page looks up units that were
  never written and meets a check meant for corruption.
- `EndOfLifeIsWear`: getFreeBlock takes the end-of-life exit whenever no block
  is free, also when a collection has just used the spare blocks for copies
  and no block is worn out.
- `DeathReported`: with StopAtFirstDeath the summary is printed before the
  dead block leaves `blocks`, and reports one dead block too few.
- `ErasesOnlyInvalid`: format hands every block it touched to the collector,
  the open one included; its copies land in that block and it is then erased.
- `SamplingCompletes`: the d-choice policy samples more blocks than there may
  be full ones, and its loop does not end.
- `InitNeverCollects` fails when the fill alone is larger than the room before
  the first collection: an unsigned subtraction wraps. `FTLChannels` checks it
  for fills that fit.
- `EvictedBeforeReuse`: with read caching, a read that replaces a dirty line
  clears its dirty flag before the eviction looks at it, and the write is lost.
- `StartsInRange`: the distribution of random addresses includes its upper
  bound, so a random request can start at the end of its region.
- `NoIOAfterReserve`: a time-based run submits the request that was already
  scheduled when it decided to end.
- `GeneratorOutlivesThread`: cleanup deletes the generator before it joins the
  progress thread, which may be about to ask it for its progress.
- `CollectsAll` with a queue of low priority: the loop for low priority looks
  for medium priority again, so such a queue is never served.
- `Conserved` in `NVMeAdmin` with `Quiescent = FALSE`: deleteSQueue skips
  entries, deleteCQueue ignores pending answers, and a namespace can be
  destroyed while a job still names it.
- `Accounted` in `HostAdapters` without the rule on slot 0: frames that name no
  slot clear PxCI bit 0 when they retire, whatever command is there.
- `Accounted` in `HostAdapters` for a reset that names a closed chunk after a
  chunk that is refused: the closed one is marked free, but its erase is taken
  off the list with all that follow the refusal. It also fails for a command on
  the chunk of a reset under way, which finds the chunk free before it is
  erased, and for a write longer than its result with a page that is refused:
  entries from the 65th on stay on the list and are programmed again.
- `DataMoved` with PRP lists of several pages: the entry that names the next
  page is counted as data, and the transfer is one page short for each.

The rest was read in the code and is kept out by the instances:

- A signal that arrives while the engine or cleanup holds a mutex blocks the
  process; `CleanupEnds` leaves this case out (`Interrupted`).
- createSQueue and createCQueue that are refused are never answered; a health
  log page of one namespace is answered twice; two namespace creations that
  overlap choose the same identifier; formatNVM gives a namespace the size of
  the whole device.
- Sizes of namespaces are divided by the page size before they are multiplied
  by the block size; sizes that are no multiple of a page get too few pages.
- A scatter-gather list whose first descriptor is to be skipped (a bit bucket):
  the constructor of `SGL` (dma.cc:319) takes neither of its branches and
  schedules nothing, so the transfer never starts (`Stuck`). No job of
  `Transfer` has such a list; `TransfersEnd` fails for one.
- UFS command types other than SCSI commands, queries and NOP are never
  answered or panic; an SATA slot issued again while its PxCI bit is still set
  is not queued.
- Of the open-channel SSD: a write to a free chunk may start at any page and an
  open one may be continued past a gap, although the descriptors say that
  writes are sequential; scalar reads and writes pass {first block, count}
  where a range is expected, so that most of them touch no flash; the result
  mask counts merged pages, not logical blocks; a trim with deallocation takes
  its DMA context for a command; a command that is refused as a whole and done
  at the tick whose completion event has already run waits for the next one.
- A coalescing window that ends with nothing in `lCQFIFO` posts no interrupt
  before the next answer.
- The read of a part of a list that ends inside an entry makes a request of
  size 0, which the FIFO ignores and never answers; a request larger than the
  FIFO passes its capacity check.
- A depth of at least the number of queue entries overruns the submission ring.
- After a flush, lines keep tag and dirty flag; a later flush writes them again
  over newer data, and unit bits of earlier lines stay set. `WritesKept` is
  therefore stated up to the first flush for most geometries.
- Trims reach the FTL only for addresses some line still carries, whole pages
  at a time; the model counts everything so dropped as discarded.
- The page count of the pass-through driver ignores the offset in the first
  page; an unaligned request loses its last page.
- The random eviction policy draws its way from the configured way count, 0
  for a fully associative cache.
- A request that takes no time (no ICL core, caches off, and a PAL that answers
  at once) would be due at the tick whose event has already run, and
  `CompletionArmed` would fail; latencies are positive in `HostPath.cfg`.
- Sequential addresses leave the region when a block is aligned to less than
  its size and the region is shorter than two blocks; `Accounts` is checked
  for a region of two and a half blocks.
- A completion postpones a submission that is already scheduled earlier; this
  changes timing, not the depth. Strict replay of unsorted time stamps wraps.

**Fairness.** `FairSpec` makes the steps of a collection weakly fair: they are
iterations of one function call, which nothing can interrupt. Nothing is said
of host calls. `HostPath`, `NVMePath` and `Transfer` make pending events weakly
fair: the loop `while (engine.doNextEvent());` runs events as long as there
are any, and every DMA and job ends in one. In `NVMePath` the generator is fair
as well: it submits when the depth allows (module `HostPath`). In
`HostAdapters` events and transfers are fair for the same reason, and so is the
driver: it brings the device up, issues its requests and runs its handler; it
need never stop a port or send a UIC command. The stages of open-channel
commands are fair in the same way, as their jobs, transfers and completions
are events. In `Transfer` the fairness is written with its enabling condition
spelled out. `Simulator` makes cleanup and the progress thread fair, as the operating system runs both
and a sleep ends; nothing is assumed of the engine or the signal.
`CHECK_DEADLOCK FALSE` is used where a model may stop: the cache after "Cache
corrupted!" and a cache that is switched off, and PAL when its bound on
commands and ticks is reached.

**Mutants.** Each property of a passing run has a mutant: an operator, marked
as such in its comment, that replaces one definition by a plausible slip, under
which the run finds the property violated.

## 4. Proofs

Every theorem holds for every value of the constants that the named
assumptions of the modules allow. Conditions beyond these are hypotheses of
the theorem, named below.

**Mapping layer** (`FTLProofs`, first part): for every geometry, wear, fill and host
behaviour, and for every choice of free block and victims.

- `StorageInvariant`: `Inductive` holds always. It is the conjunction of
  `TypeOK`, `BlocksPartitioned`, `WritePointers` and `FreeBlocksBlank`. None of
  these is inductive alone: that a write programs only erased cells needs the
  block it opens to be blank, which holds because free blocks are blank, which
  an erase re-establishes only for blocks that are in no other list; and an
  insertion into the list keeps it free of duplicates only because the victim
  was in use.
- `TypeCorrect`, `PoolPartitioned`, `ProgramOnce`: its parts.
- `MappingInvariant`: with more than one unit per page, table and flash agree
  (`MappingConsistent`), also between two steps of a collection. Together with
  `Inductive` it is inductive; a host write and a copy of a collection are two
  instances of one lemma about moving data (`MoveKeepsMapping`). The assumption
  `IoUnitInPage > 1` is needed: with one unit per page the code copies invalid
  pages (`StaleCopy`).
- `DeviceRefinement`: under the same assumption the layer implements
  `LogicalDevice`: a write adds its units, a trim or format drops whole pages,
  and every step of a collection is a stutter.

**Wear and sanity checks** (`FTLProofs`, second part).

- `WearAccounted`: the free list is in order of wear, exactly the worn-out
  blocks are retired, and the statistics sum over every block. Condition
  `FreshDevice`: no block starts worn out, since applyInitialWear retires none.
- `WearSafe`: with one write slot and no format (`OneSlot`) the open block is
  also in use in every state. The invariant (`Collecting`) says how far a
  collection is: the open block holds data when it starts and can be a victim
  only until the first page is copied. With several slots the property is
  false (section 3).
- `InitializationNeverCollects`: initialize() never starts a collection if the
  fill alone fits (`WarmupFits`). The proof counts pages: what was written is
  the sum of the write pointers of the open blocks and the blocks that were
  opened (`Counted`). Without the condition the subtraction wraps.
- `NeverPanics`: `NoPanic` under `OneSlot`, `WarmupFits` and `TrimsWhole` (a host
  that trims writes whole pages); the three hazards these exclude are listed.

**The four modes** (`FTLProofs`, last part).

- `ModesImplementCore`: a step of any mode under any eviction policy is a step
  of `MappingCore`, because the block it opens is listed and the victims it
  selects are full blocks in use. Hence `LayerSafe` and `LayerImplementsDevice`.
- `LeastWornIsOpened`, `SlotsKeepChannel`, `AverageBoundsOpened`: what each
  allocation promises. They rest on the order of the free list: the first match
  is the least worn, and the lowest of several averages, compared by cross
  multiplication, bounds its channel's first block.
- `NoVictimDominated`: mode 1, greedy policy, lambda positive. Weight is strictly
  monotone in wear and monotone in valid pages, so a dominated block is never
  ranked above the one that dominates it. With lambda zero wear has no weight,
  and the sampling policies do not look at every candidate.

**Engine and process** (`EngineProofs`).

- `QueueSafe`, `ServedInOrder`: `QueueInvariant` and `FirstComeFirstServed` for
  every number of events, range of ticks and sequence of calls. The invariant
  adds that a callback runs only below the bound on dispatches. The work is in
  insertEvent, whose one pass inserts an entry and erases the old one.
- `ProcessRunsEngine`: main, signal handler and progress thread leave the engine
  to its own steps, so both carry over (`ProcessQueueSafe`,
  `ProcessServesInOrder`). `BlockLayerSafe`: the block layer is deleted by the
  step that ends the process.

**Request path** (`HostProofs`): both generators in all their modes, for every
number of cores, depth, trace length and set of latencies, with identifiers
that never run out (`Requests = Nat`).

- `CompletionsArmed`: no lost wake-up, if no call takes zero ticks
  (`CallsTakeTime`). `CompletionArmed` is not inductive: updateCompletion compares
  with the time scheduled last, so `Armed` also relates `lastScheduled` to the
  event while something waits, and to the clock while nothing does.
- `AccountsAgree`: `Accounts`. `HostInv` adds that a submission is scheduled only
  while there is room for it and before the end is reserved, that `sync` marks
  a submission that is held back, that a core is busy exactly while it has
  jobs, that what lies ahead of the clock is covered without a gap up to
  `lastBusyAt`, and that the identifiers in flight are below the next one.
  completion() calls back all that is due in one event: `CalledBackOK` follows
  the fold over these callbacks. `TwoFit` (a region of two blocks) is needed
  for sequential addresses only.
- `NoIOIsLate`: `NoLateIO`; a submission that was scheduled before the end was
  reserved is never left over. Time-based runs are excluded by the property.

**Line cache** (`CacheProofs`): every number of lines, sets and ways, of lines in a
page and of pages in an I/O, every switch, and every choice a policy can make.

- `CacheIndexed`: `Indexed`. `CacheInv` adds that the end of the last prefetch lies
  half a prefetch ahead of the trigger, which bounds how far past the device a
  tag can reach. Neither half of the property holds while a read reserves
  lines. What holds then (`Reserved`) is about the list of reservations: their
  addresses are distinct and fall into the sets of their slots, slots that are
  not on the list are as they were, and a slot that had one of the addresses is
  itself on it. The second loop then gives every slot on the list an address
  of its own (`FetchLoop`), also a slot that was reserved twice.
- `CacheNeverCorrupted`: `NeverCorrupted`. Lines are in the sets of their tags, so
  the line that the selection must contain for the set of the request leaves
  an empty way in that set.
- `CacheWritesKept`: `WritesKept`. `KeptInv` adds that a line an eviction would
  write over a live address holds its last version; where flushes are
  included, this is so of invalid lines too, since flush writes them.

**Flash scheduler** (`PALProofs`): every device, timing, division of lengths into
classes, number of commands and order of arrival.

- `PALInvariant`: the inductive invariant. Every timeline is `Tidy` (free slots
  disjoint and in front of the start point, nothing taken that was not there), every command
  so far is `Settled` (what it was given is behind the start point and in no
  free slot, so nobody can be given it again) and given `Enough`, and no two
  commands share a channel or die (`Clear`). That a timeline never offers the
  ticks of a command is what makes the pairwise statement inductive.
- `ExclusiveHolds`: `Exclusive` follows from it.
- `ServedHolds`: `Served`, which includes that both loops of TimelineScheduling
  end. Every turn that is not the last starts its next search later, and no
  later than the start points of channel and die, behind which there is always
  room. FindFreeTime finds the same room again when asked from the place it
  found, which is what the loops compare. `ClassAssumption` is needed here: some
  channel class is no longer than a flash operation with the transfer behind
  it. Otherwise what is left of a free slot behind DMA0 can be too short for
  every class; InsertFreeSlot forgets it and the second transfer finds no room
  where the search had seen it (TLC refutes `Served` in `PAL.cfg` with a single
  class of 8 ticks). In the code the smallest channel class is 100000 / SPDIV
  picoseconds (`PAL2.cc:91`), far less than any read, program or erase time.
- `FlushHarmlessHolds`: `FlushHarmless`. A slot that a flush forgets ends before
  the tick of the flush, so that no search from there on would settle on it,
  and the searches that end elsewhere do not see it (`SamePlace`).
- `PartitionedHolds`: `Partitioned`. convertCPDPBP divides the number of a
  superblock by the sizes of the dimensions it does not span, in the order of
  `alloc`, and enumerates those it spans (`Extents`). Every physical address is
  a digit for each dimension and a block, so two units agree only when superblock
  and place within it agree (`UnitsDiffer`), every block is the unit of some
  superblock (`BlockIsUnit`), and dies of different addresses have timelines of
  their own (`DiesDiffer`). `DeviceAssumption` says that `alloc` names
  every dimension once, without which Config::update panics.

**Data transfers** (`TransferProofs`): every unit, capacity and latency of the
FIFO, every speed of the bus, number of transfers, and data pointer with the
lists behind it. `JobAssumption` says what the host's memory holds: a page or
segment of a list is not empty, and what its last entry names can be read.

- `TransferInvariant`: `IInv`, that is `WritesOrderly`, `ReadsOrderly` and what
  each stage of a transfer needs of its list (`Listing`). An entry keeps its
  place in `waitQueue` while it is inserted or transferred, also when requests
  larger than the queue are split in front of it (`FrontFits`). beginTransfer is
  scheduled only for an entry whose own second phase has not begun (`Begins`);
  without this a phase could start with nothing queued. For reads, whose
  phases overlap and may end in either order, the ids of the queued entries are
  consecutive, a completion in `readCompletion` carries one of them, no two the
  same; and the entry in transfer has one only if it is queued alone and its
  insertion, which is over, is what still counts as pending.
- `FifoAccountsHold`: `FifoAccounts` follows; that completions are no more than
  entries is an injection from completions to ids. `Space` is a fold, so its
  facts (`SpaceAppend`, `SpaceTail`) rest on the running sum (`SumRuns`).

**SATA, UFS and open-channel devices** (`AdapterProofs`): every set of slots and
requests, every workload of known commands, every number of stops and UIC
commands, chunks, pages and results of any size. `Accounted` counts places; the
invariants say the same with quantifiers, as facts about what may name the same
slot.

- `AdapterInvariant`: `UInv`, `SInv` or `OInv`, by interface.
  `UInv`: queue entries and contexts name issued slots, completions executed
  ones, no two the same; every issued slot is named; the doorbell bits are those
  of issued slots and waiting completions. processUTPTransfer is a fold over the
  32 bits, which queues each new bit once.
  `SInv` tells two kinds of tokens apart: the work of a command (`InWork`), and
  what clears its PxCI bit when it is over (`InReg` and frames). A queued command
  gives its PxCI bit back when it is accepted, long before its work is done, so
  the two go separate ways. Frames that name no slot clear bit 0, hence slot 0
  is followed only until the first queued command (`Counted`), and the host
  gives slot 0 to nothing else afterwards (`MayUse`).
  `OInv` has one context per issued command, and for version 2.0 `OMedia`: a
  path has one job and the flash directly behind it; what is on a list for the
  flash lies below the write pointer of its chunk, is not programmed, and is on
  no other list; what is programmed lies below the write pointer or is about to
  be erased. The fold of writeInternal keeps `OGrown` (what it lists is at or
  above the old write pointers), that of eraseInternal `OCleared`, entry by
  entry (`OInternal`), and neither touches another chunk (`OInternalWithin`).
  What the host keeps to when it sends a command still holds at its job
  (`OMay`), because no other command changes the same chunks (`ODisjoint`).
- `AccountedHolds`, `AwakeHolds`: `Accounted` and `Awake`, for the open-channel
  SSD under the rules of `MaySend`.
- `ServiceRefinement`: every step is a step of `CommandService` or none. This is
  the safety part of `ImplementsService`; that requests are answered eventually
  is left to TLC.

`SeqLemmas` holds the facts these share: taking an element out of a sequence
and inserting one, least elements of sets of numbers and of families of finite
sets, sums over finite sets, and folds. The proof system cannot use the induction
rules of its library, so inductions are by least counterexample (`LeastNat`,
`SmallestSubset`). A fold over a sequence is a recursive function on sets of
indices: `FoldExists` shows that there is one, `FoldReaches` that what every step
keeps holds at the end; states and steps are sets and functions there, so that
no operator is a parameter.

Proofs corrected the model: in `TraceReplayer` and `NVMeSubsystem` a CASE had
overlapping guards, of which TLC takes the first and the semantics any. The
queue of the block layer in `HostPath` is a set, as its order is never used. The
loop of flush in `GenericCache` goes over all lines and skips those it does not
write, as the code does. processUTPTransfer in `UFS` queues new bits in the order
of their numbers. The proof of `Accounted` showed that the rule of the
open-channel host on resets was too weak: a chunk named twice, or a closed one
behind one that is refused, is set free without being erased. In `FIFO` and
`DMA` the requests that are kept are picked by a fold that appends, as the loops
of the code do.

Only model-checked: the NVMe device and its driver (`Conserved`, `PhaseAgrees`,
`NamespacesDisjoint`, `CollectsAll`), what transfers move (`DataMoved`) and all
liveness. Liveness under fairness is outside what the proof system handles. The
others need invariants over every stage of a command or a request in several
queues at once, which have not been worked out; `DataMoved` is moreover about
what a recursion over a list computes.

## 5. Not modelled, and the plan

- Of the SATA and UFS devices: reset of the adapter, registers that are only
  stored, task management, the contents of identify data, descriptors, UPIUs
  and sense data.
- Of the open-channel SSD, which is built only for a vendor ID that the NVMe
  driver of this repository does not report: trim with deallocation, the
  contents of geometry, log and identification pages and of the bad block
  table, the disk image.
- `dca_mapping.cc` and `a2c_mapping.cc` are not in the list of sources that is
  compiled, and `FTL::FTL` cannot select them.
- DRAM, power, PAL statistics, configuration, logging and the vendored
  libraries, which are more than half of all lines, compute numbers or text
  that no modelled decision reads.
- Of the NVMe device: contents of identify and log pages, capability
  registers, features that only report a value, the compare command (its steps
  are those of a read) and the disk image. Of the block
  layer and the drivers: latency statistics.
- The compositions stop where a layer only returns a time: cache over FTL over
  PAL is one call whose parts are checked separately.

A theorem that could follow: `NamespacesDisjoint` for every device whose host asks
for sizes that both orders of division agree on.
