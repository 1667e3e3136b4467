----------------------------- MODULE MappingCore -----------------------------
(***************************************************************************)
(* The flash translation layer shared by the four mapping modes            *)
(* (src/simplessd/ftl/page_mapping.cc and its wl_, rbpa_ and la_ variants) *)
(* with the erase blocks it manages (src/simplessd/ftl/common/block.cc).   *)
(*                                                                         *)
(* The modes differ in two decisions only: which free block getFreeBlock   *)
(* opens and which full blocks selectVictimBlock reclaims.  Here both are  *)
(* left open, so that what holds of this module holds of every mode; the   *)
(* modules PageMapping, WLPageMapping, RBPAPageMapping and LAPageMapping   *)
(* restrict them to what each mode's code decides.                         *)
(*                                                                         *)
(* The layer is single threaded.  A host call is one action, except that   *)
(* the garbage collection it may run is broken into its loop iterations:   *)
(* pc says where the call is, and no other call starts before it returns.  *)
(***************************************************************************)
EXTENDS Integers, FiniteSets, Sequences, SequencesExt

CONSTANTS
    TotalBlocks,         \* param.totalPhysicalBlocks
    LogicalBlocks,       \* param.totalLogicalBlocks
    PagesInBlock,        \* param.pagesInBlock
    IoUnitInPage,        \* param.ioUnitInPage
    PageCountToMaxPerf,  \* param.pageCountToMaxPerf: blocks written in turn
    RandomTweak,         \* bRandomTweak
    BadBlockThreshold,   \* FTL_BAD_BLOCK_THRESHOLD, erases a block survives
    StopAtFirstDeath,    \* FTL_STOP_AT_FIRST_DEATH
    GCThresholdPct,      \* FTL_GC_THRESHOLD_RATIO in percent
    NWorn, PreEC,        \* applyInitialWear: pre-worn blocks, their count
    FillingMode,         \* FTL_FILLING_MODE
    NPagesToWarmup,      \* pages written by initialize()
    NPagesToInvalidate,  \* pages overwritten by initialize()
    HostOps              \* the calls the host makes: a subset of
                         \* {"write", "partial", "trim", "format"}

Blocks == 0 .. TotalBlocks - 1
Pages  == 0 .. PagesInBlock - 1
Slots  == 0 .. PageCountToMaxPerf - 1
LPNs   == 0 .. LogicalBlocks * PagesInBlock - 1

\* The units one mapping entry tracks: bitsetSize of them.
Units  == IF RandomTweak THEN 0 .. IoUnitInPage - 1 ELSE {0}

\* One unit of one physical page.
Cells  == Blocks \X Pages \X Units

\* The pair an empty mapping entry holds.
Unset  == <<TotalBlocks, PagesInBlock>>
Places == (Blocks \X Pages) \cup {Unset}

\* The last conjunct but one is the check of the FTL constructor; the last is
\* the range in which maxPagesBeforeGC is a count.
ASSUME ParameterAssumption ==
    /\ TotalBlocks \in Nat \ {0}
    /\ LogicalBlocks \in Nat \ {0}
    /\ PagesInBlock \in Nat \ {0}
    /\ IoUnitInPage \in Nat \ {0}
    /\ PageCountToMaxPerf \in Nat \ {0}
    /\ RandomTweak \in BOOLEAN
    /\ BadBlockThreshold \in Nat
    /\ StopAtFirstDeath \in BOOLEAN
    /\ GCThresholdPct \in 0 .. 100
    /\ NWorn \in 0 .. TotalBlocks
    /\ PreEC \in Nat
    /\ FillingMode \in {0, 1, 2}
    /\ NPagesToWarmup \in Nat
    /\ NPagesToInvalidate \in Nat
    /\ HostOps \subseteq {"write", "partial", "trim", "format"}
    /\ TotalBlocks > LogicalBlocks + PageCountToMaxPerf
    /\ TotalBlocks * (100 - GCThresholdPct) >= 100 * PageCountToMaxPerf

VARIABLES
    present,            \* keys of table
    table,              \* table: LPN and unit to physical place
    valid,              \* validBits of all blocks: set of cells
    erased,             \* erasedBits of all blocks: set of cells
    owner,              \* pLPNs / ppLPNs: the LPN stored in a cell
    nextPage,           \* pNextWritePageIndex
    eraseCount,         \* Block::eraseCount
    active,             \* keys of blocks: the blocks in use
    freeBlocks,         \* freeBlocks, in list order
    nFreeBlocks,        \* nFreeBlocks
    deadBlocks,         \* deadBlocks
    lastFreeBlock,      \* lastFreeBlock: the open block of each slot
    lastFreeBlockIndex, \* lastFreeBlockIndex
    lastFreeBlockIOMap, \* lastFreeBlockIOMap
    bReclaimMore,       \* bReclaimMore
    pc,                 \* where the current call is
    loop,               \* counter of the constructor's and initialize's loops
    victims,            \* blocksToReclaim of the running collection
    vi, page,           \* its two loop variables (vi counts from 1)
    outcome             \* how the process ended, "run" while it has not

media   == <<present, table, valid, erased, owner, nextPage>>
pool    == <<active, freeBlocks, nFreeBlocks, lastFreeBlock, bReclaimMore>>
wear    == <<eraseCount, deadBlocks>>
cursor  == <<lastFreeBlockIndex, lastFreeBlockIOMap>>
control == <<pc, loop, victims, vi, page, outcome>>
vars    == <<media, pool, wear, cursor, control>>

Locations == {"ctor", "warmup", "invalidate", "idle", "select", "copy",
              "erase", "stopped"}

\* "eol" and "firstdeath" are the two exit(0), "sampling" is the loop of
\* selectVictimBlock that cannot finish, the others are panics.
Panics   == {"corrupted", "nonerased", "nomapping", "notinuse", "nosuchblock",
             "validpages", "initgc"}
Outcomes == {"run", "eol", "firstdeath", "sampling"} \cup Panics

-----------------------------------------------------------------------------
(* Observers of the blocks and of the table *)

CellsOf(b) == {c \in Cells : c[1] = b}

\* getNextWritePageIndex() = pagesInBlock for some unit
Full(b) == \E u \in Units : nextPage[b][u] = PagesInBlock

\* getValidPageCountRaw
ValidCount(b) == Cardinality({c \in valid : c[1] = b})

Mapped(l, u) == table[l][u] # Unset
CellOf(l, u) == <<table[l][u][1], table[l][u][2], u>>

\* The units that getPageInfo reports for a page.  With one unit per page it
\* reports every page, whatever its valid bit.
PageInfo(b, p) ==
    IF IoUnitInPage = 1 THEN Units ELSE {u \in Units : <<b, p, u>> \in valid}

\* freeBlockRatio() < gcThreshold
NeedsGC(n) == n * 100 < GCThresholdPct * TotalBlocks

Listed(b) == \E i \in 1 .. Len(freeBlocks) : freeBlocks[i] = b

-----------------------------------------------------------------------------
(* The constructor: applyInitialWear leaves the list sorted by erase count *)

FreshOrder(s, ec) ==
    /\ s \in [1 .. TotalBlocks -> Blocks]
    /\ \A b \in Blocks : \E i \in 1 .. TotalBlocks : s[i] = b
    /\ \A i, j \in 1 .. TotalBlocks :
          i < j => \/ ec[s[i]] < ec[s[j]]
                   \/ (ec[s[i]] = ec[s[j]] /\ s[i] < s[j])

Init ==
    /\ present = {}
    /\ table = [l \in LPNs |-> [u \in Units |-> Unset]]
    /\ valid = {}
    /\ erased = Cells
    /\ owner = [c \in Cells |-> 0]
    /\ nextPage = [b \in Blocks |-> [u \in Units |-> 0]]
    /\ \E Worn \in SUBSET Blocks :
          /\ Cardinality(Worn) = NWorn
          /\ eraseCount = [b \in Blocks |-> IF b \in Worn THEN PreEC ELSE 0]
    /\ freeBlocks \in [1 .. TotalBlocks -> Blocks]
    /\ FreshOrder(freeBlocks, eraseCount)
    /\ nFreeBlocks = TotalBlocks
    /\ active = {}
    /\ deadBlocks = {}
    /\ lastFreeBlock = [i \in Slots |-> 0]
    /\ lastFreeBlockIndex = 0
    /\ lastFreeBlockIOMap = {}
    /\ bReclaimMore = FALSE
    /\ pc = "ctor"
    /\ loop = 0
    /\ victims = << >>
    /\ vi = 1
    /\ page = 0
    /\ outcome = "run"

\* panic() and exit(): nothing runs afterwards, so the state is left as it was
\* when the failing call began.
Stop(why) ==
    /\ pc' = "stopped"
    /\ outcome' = why
    /\ UNCHANGED <<media, pool, wear, cursor, loop, victims, vi, page>>

-----------------------------------------------------------------------------
(* Allocation *)

\* Mutant: the counter of free blocks is not decremented.
TakeFreeBlockUncounted(d) ==
    /\ \E at \in 1 .. Len(freeBlocks) :
          /\ freeBlocks[at] = d
          /\ freeBlocks' = RemoveAt(freeBlocks, at)
    /\ nFreeBlocks' = nFreeBlocks
    /\ active' = active \cup {d}

\* getFreeBlock: move the chosen block d from the free list to blocks.
TakeFreeBlock(d) ==
    /\ \E at \in 1 .. Len(freeBlocks) :
          /\ freeBlocks[at] = d
          /\ freeBlocks' = RemoveAt(freeBlocks, at)
    /\ nFreeBlocks' = nFreeBlocks - 1
    /\ active' = active \cup {d}

\* getLastFreeBlock: the units F collide with those already written to the
\* current slot's page, or the tweak is off: go to the next slot.
Advances(F)  == ~RandomTweak \/ lastFreeBlockIOMap \cap F # {}
SlotFor(F)   == IF Advances(F)
                THEN (lastFreeBlockIndex + 1) % PageCountToMaxPerf
                ELSE lastFreeBlockIndex
IOMapFor(F)  == IF Advances(F) THEN F ELSE lastFreeBlockIOMap \cup F
OpenBlock(F) == lastFreeBlock[SlotFor(F)]

\* The call takes a block from the free list.
Opens(F) == Full(OpenBlock(F))

NewCells(F, d) == {<<d, nextPage[d][u], u>> : u \in F}

\* Why the allocation for F, and the Block::write calls that follow it, end
\* the process when d is the block they are given; "run" when they do not.
Refusal(F, d) ==
    IF OpenBlock(F) \notin active THEN "corrupted"
    ELSE IF Opens(F) /\ nFreeBlocks = 0 THEN "eol"
    ELSE IF Opens(F) /\ d \in active THEN "corrupted"
    ELSE IF ~(NewCells(F, d) \subseteq erased) THEN "nonerased"
    ELSE "run"

\* The block that getLastFreeBlock may return for F.
Target(F, d) == IF OpenBlock(F) \in active /\ Opens(F) /\ nFreeBlocks > 0
                THEN Listed(d)
                ELSE d = OpenBlock(F)

GetLastFreeBlock(F, d) ==
    /\ lastFreeBlockIndex' = SlotFor(F)
    /\ lastFreeBlockIOMap' = IOMapFor(F)
    /\ IF Opens(F)
       THEN /\ TakeFreeBlock(d)
            /\ lastFreeBlock' = [lastFreeBlock EXCEPT ![SlotFor(F)] = d]
            /\ bReclaimMore' = TRUE
       ELSE UNCHANGED pool

\* Block::write for the units F: the cells at the block's write pointers.
\* gone are the cells invalidated just before, lpnOf gives each unit's LPN.
WriteCells(F, d, gone, lpnOf) ==
    /\ valid' = (valid \ gone) \cup NewCells(F, d)
    /\ erased' = erased \ NewCells(F, d)
    /\ nextPage' = [nextPage EXCEPT ![d] =
                       [u \in Units |-> IF u \in F THEN nextPage[d][u] + 1
                                                   ELSE nextPage[d][u]]]
    /\ owner' = [c \in Cells |->
                    IF c \in NewCells(F, d) THEN lpnOf[c[3]]
                    ELSE IF IoUnitInPage = 1 \/ c \in valid' THEN owner[c]
                    ELSE 0]

\* Mutant: trimmed data stays valid.
KeepCells(gone) == UNCHANGED <<valid, owner, erased, nextPage>>

\* invalidate without a write (trim, format).  The LPN left in an invalid
\* cell is read again only when IoUnitInPage = 1; otherwise it is forgotten.
InvalidateCells(gone) ==
    /\ valid' = valid \ gone
    /\ owner' = [c \in Cells |->
                    IF IoUnitInPage = 1 \/ c \in valid' THEN owner[c] ELSE 0]
    /\ UNCHANGED <<erased, nextPage>>

-----------------------------------------------------------------------------
(* The constructor's getFreeBlock calls and initialize() *)

OpenSlot(d) ==
    /\ pc = "ctor"
    /\ Listed(d)
    /\ IF d \in active THEN Stop("corrupted")
       ELSE /\ TakeFreeBlock(d)
            /\ lastFreeBlock' = [lastFreeBlock EXCEPT ![loop] = d]
            /\ IF loop + 1 = PageCountToMaxPerf
               THEN pc' = "warmup" /\ loop' = 0
               ELSE loop' = loop + 1 /\ UNCHANGED pc
            /\ UNCHANGED <<media, wear, cursor, bReclaimMore, victims, vi,
                           page, outcome>>

\* Mutant: the old version of the data stays valid.
NoOldCells(l, F) == {}

\* The cells of the units F that writeInternal invalidates.
OldCells(l, F) == {CellOf(l, u) : u \in {v \in F : Mapped(l, v)}}

\* Mutant: a partial write starts from an empty entry.
FreshEntry(l, F, d) ==
    [u \in Units |-> IF u \in F THEN <<d, nextPage[d][u]>> ELSE Unset]

\* The entry writeInternal leaves.
NewEntry(l, F, d) ==
    [u \in Units |-> IF u \in F THEN <<d, nextPage[d][u]>> ELSE table[l][u]]

\* writeInternal up to the collection: invalidate the old cells of the units
\* F, take the next cells of block d, map them.
WriteUnits(l, F, d) ==
    /\ GetLastFreeBlock(F, d)
    /\ WriteCells(F, d, OldCells(l, F), [u \in Units |-> l])
    /\ table' = [table EXCEPT ![l] = NewEntry(l, F, d)]
    /\ present' = present \cup {l}
    /\ UNCHANGED wear

\* maxPagesBeforeGC, and the number of pages that initialize() overwrites
\* after adjusting it.  The subtraction is unsigned in the code: a negative
\* result stands for the huge count it wraps to.
MaxPagesBeforeGC ==
    (PagesInBlock * (TotalBlocks * (100 - GCThresholdPct)
                     - 100 * PageCountToMaxPerf)) \div 100
\* Mutant: the number is not adjusted.
PagesToInvalidateAsAsked == NPagesToInvalidate
PagesToInvalidate ==
    IF NPagesToWarmup + NPagesToInvalidate > MaxPagesBeforeGC
    THEN MaxPagesBeforeGC - NPagesToWarmup ELSE NPagesToInvalidate
MoreToInvalidate == PagesToInvalidate < 0 \/ loop < PagesToInvalidate

\* writeInternal(req, tick, false) with all flags set.
InitialWrite(l, d) ==
    /\ Target(Units, d)
    /\ IF Refusal(Units, d) # "run" THEN Stop(Refusal(Units, d))
       ELSE /\ WriteUnits(l, Units, d)
            /\ loop' = loop + 1
            /\ IF NeedsGC(nFreeBlocks')
               THEN pc' = "stopped" /\ outcome' = "initgc"
               ELSE UNCHANGED <<pc, outcome>>
            /\ UNCHANGED <<victims, vi, page>>

Warmup(l, d) ==
    /\ pc = "warmup"
    /\ loop < NPagesToWarmup
    /\ FillingMode \in {0, 1} => l = loop
    /\ InitialWrite(l, d)

Invalidation(l, d) ==
    /\ pc = "invalidate"
    /\ MoreToInvalidate
    /\ FillingMode = 0 => l = loop
    /\ FillingMode = 1 => l < NPagesToWarmup
    /\ InitialWrite(l, d)

\* The end of each of the two loops.
InitializeNext ==
    /\ \/ /\ pc = "warmup"
          /\ loop >= NPagesToWarmup
          /\ pc' = "invalidate"
       \/ /\ pc = "invalidate"
          /\ ~MoreToInvalidate
          /\ pc' = "idle"
    /\ loop' = 0
    /\ UNCHANGED <<media, pool, wear, cursor, victims, vi, page, outcome>>

-----------------------------------------------------------------------------
(* Host calls *)

Flags == IF ~RandomTweak \/ "partial" \notin HostOps
         THEN {Units} ELSE (SUBSET Units) \ {{}}

\* readInternal changes nothing, but panics on a block that is not in use.
Read(l) ==
    /\ pc = "idle"
    /\ l \in present
    /\ IF \E u \in Units : Mapped(l, u) /\ table[l][u][1] \notin active
       THEN Stop("notinuse") ELSE UNCHANGED vars

Write(l, F, d) ==
    /\ pc = "idle"
    /\ "write" \in HostOps
    /\ Target(F, d)
    /\ IF Refusal(F, d) # "run" THEN Stop(Refusal(F, d))
       ELSE /\ WriteUnits(l, F, d)
            /\ pc' = IF NeedsGC(nFreeBlocks') THEN "select" ELSE "idle"
            /\ UNCHANGED <<loop, victims, vi, page, outcome>>

\* trimInternal and format find the block of every unit of an entry, mapped
\* or not.
AllInUse(L) == \A l \in L : \A u \in Units : table[l][u][1] \in active

DropEntries(L) ==
    /\ InvalidateCells({CellOf(x[1], x[2]) : x \in L \X Units})
    /\ table' = [l \in LPNs |-> IF l \in L THEN [u \in Units |-> Unset]
                                           ELSE table[l]]
    /\ present' = present \ L

Trim(l) ==
    /\ pc = "idle"
    /\ "trim" \in HostOps
    /\ l \in present
    /\ IF ~AllInUse({l}) THEN Stop("notinuse")
       ELSE /\ DropEntries({l})
            /\ UNCHANGED <<pool, wear, cursor, control>>

\* The lists of members of S that are not longer than the device.
Lists(S) == UNION {[1 .. n -> S] : n \in 0 .. TotalBlocks}

\* The blocks that hold the units of the pages L, and list as their sorted,
\* duplicate-free list.
HeldBy(L) == {table[x[1]][x[2]][1] : x \in L \X Units}
SortedList(S, list) ==
    /\ \A i, j \in 1 .. Len(list) : i < j => list[i] < list[j]
    /\ \A b \in S : \E i \in 1 .. Len(list) : list[i] = b

Format(lo, hi) ==
    /\ pc = "idle"
    /\ "format" \in HostOps
    /\ LET L == {l \in present : lo <= l /\ l <= hi}
       IN  /\ L # {}
           /\ IF ~AllInUse(L) THEN Stop("notinuse")
              ELSE /\ DropEntries(L)
                   /\ \E list \in Lists(HeldBy(L)) :
                         SortedList(HeldBy(L), list) /\ victims' = list
                   /\ pc' = "copy"
                   /\ vi' = 1
                   /\ page' = 0
                   /\ UNCHANGED <<pool, wear, cursor, loop, outcome>>

-----------------------------------------------------------------------------
(* Garbage collection *)

\* The blocks calculateVictimWeight gives a weight.
Candidates == {b \in active : Full(b)}

\* Mutant: a collection that finds nothing tries again.
RetrySelect(list) == IF list = << >> THEN "select" ELSE "copy"

\* doGarbageCollection returns at once when there is nothing to reclaim.
AfterSelect(list) == IF list = << >> THEN "idle" ELSE "copy"

\* selectVictimBlock: some list of distinct candidates ...
SelectVictimBlock(list) ==
    /\ pc = "select"
    /\ \A i, j \in 1 .. Len(list) : list[i] = list[j] => i = j
    /\ victims' = list
    /\ bReclaimMore' = FALSE
    /\ pc' = AfterSelect(list)
    /\ vi' = 1
    /\ page' = 0
    /\ UNCHANGED <<media, active, freeBlocks, nFreeBlocks, lastFreeBlock,
                   wear, cursor, loop, outcome>>

\* ... or, with the sampling policies, no list at all.
SamplingStuck == pc = "select" /\ Stop("sampling")

\* The page p of the i-th victim is the next one that holds something.
NextCopy(i, p) ==
    LET Ahead(j, q) == j > vi \/ (j = vi /\ q >= page)
        Holds(j, q) == PageInfo(victims[j], q) # {}
    IN  /\ Ahead(i, p) /\ Holds(i, p)
        /\ \A j \in vi .. i : \A q \in Pages :
              Ahead(j, q) /\ (j < i \/ q < p) => ~Holds(j, q)

NothingToCopy ==
    \A j \in vi .. Len(victims) : \A q \in Pages :
        (j > vi \/ q >= page) => PageInfo(victims[j], q) = {}

\* One iteration of the page loop of doGarbageCollection.
CopyPage(i, p, d) ==
    LET b == victims[i]
        F == PageInfo(b, p)
    IN  /\ pc = "copy"
        /\ NextCopy(i, p)
        /\ Target(F, d)
        /\ IF Refusal(F, d) # "run" THEN Stop(Refusal(F, d))
           ELSE IF \E u \in F : owner[<<b, p, u>>] \notin present
           THEN Stop("nomapping")
           ELSE /\ GetLastFreeBlock(F, d)
                /\ WriteCells(F, d, {<<b, p, u>> : u \in F},
                              [u \in Units |-> owner[<<b, p, u>>]])
                /\ table' = [l \in LPNs |-> [u \in Units |->
                                IF u \in F /\ owner[<<b, p, u>>] = l
                                THEN <<d, nextPage[d][u]>> ELSE table[l][u]]]
                /\ vi' = i
                /\ page' = p + 1
                /\ UNCHANGED <<present, wear, pc, loop, victims, outcome>>

\* Mutant: the erase loop starts one too early.
CopyDoneOffByOne ==
    /\ pc = "copy"
    /\ NothingToCopy
    /\ pc' = "erase"
    /\ vi' = 0
    /\ page' = 0
    /\ UNCHANGED <<media, pool, wear, cursor, loop, victims, outcome>>

CopyDone ==
    /\ pc = "copy"
    /\ NothingToCopy
    /\ pc' = "erase"
    /\ vi' = 1
    /\ page' = 0
    /\ UNCHANGED <<media, pool, wear, cursor, loop, victims, outcome>>

\* eraseInternal's reverse search: at is the position behind the last block
\* of the list that is not more worn.  With an empty list the search reads
\* the list's sentinel as if it were a block; whatever that read returns, both
\* outcomes of the comparison insert at the only position there is.
FreePosition(ec, at) ==
    /\ at > 1 => eraseCount[freeBlocks[at - 1]] <= ec
    /\ \A i \in at .. Len(freeBlocks) : eraseCount[freeBlocks[i]] > ec

\* Mutant: one erase more than the threshold allows.
SurvivesOnce(ec) == ec <= BadBlockThreshold
Survives(ec) == ec < BadBlockThreshold

\* Block::erase on the write pointers.  Mutant: they are not reset.
KeptPointers(b) == nextPage
ErasedPointers(b) == [nextPage EXCEPT ![b] = [u \in Units |-> 0]]

EraseInternal ==
    LET b  == victims[vi]
        ec == eraseCount[b] + 1
    IN  /\ pc = "erase"
        /\ IF b \notin active THEN Stop("nosuchblock")
           ELSE IF valid \cap CellsOf(b) # {} THEN Stop("validpages")
           ELSE /\ eraseCount' = [eraseCount EXCEPT ![b] = ec]
                /\ erased' = erased \cup CellsOf(b)
                /\ nextPage' = ErasedPointers(b)
                /\ IF Survives(ec)
                   THEN /\ \E at \in 1 .. Len(freeBlocks) + 1 :
                              /\ FreePosition(ec, at)
                              /\ freeBlocks' = InsertAt(freeBlocks, at, b)
                        /\ nFreeBlocks' = nFreeBlocks + 1
                        /\ UNCHANGED deadBlocks
                   ELSE /\ deadBlocks' = deadBlocks \cup {b}
                        /\ UNCHANGED <<freeBlocks, nFreeBlocks>>
                /\ IF ~Survives(ec) /\ StopAtFirstDeath
                   THEN /\ pc' = "stopped"
                        /\ outcome' = "firstdeath"
                        /\ UNCHANGED <<active, vi, victims>>
                   ELSE /\ active' = active \ {b}
                        /\ IF vi = Len(victims)
                           THEN pc' = "idle" /\ victims' = << >> /\ vi' = 1
                           ELSE vi' = vi + 1 /\ UNCHANGED <<pc, victims>>
                        /\ UNCHANGED outcome
                /\ UNCHANGED <<present, table, valid, owner, lastFreeBlock,
                               bReclaimMore, cursor, loop, page>>

\* The process has ended.
Over == pc = "stopped" /\ UNCHANGED vars

-----------------------------------------------------------------------------
Next ==
    \/ \E d \in Blocks : OpenSlot(d)
    \/ \E l \in LPNs, d \in Blocks : Warmup(l, d) \/ Invalidation(l, d)
    \/ InitializeNext
    \/ \E l \in LPNs : Read(l) \/ Trim(l)
    \/ \E l \in LPNs, F \in Flags, d \in Blocks : Write(l, F, d)
    \/ \E lo, hi \in LPNs : Format(lo, hi)
    \/ \E list \in Lists(Candidates) : SelectVictimBlock(list)
    \/ SamplingStuck
    \/ \E i \in 1 .. Len(victims), p \in Pages, d \in Blocks : CopyPage(i, p, d)
    \/ CopyDone
    \/ EraseInternal
    \/ Over

Spec == Init /\ [][Next]_vars

-----------------------------------------------------------------------------
(* Properties *)

\* Types of the state of the layer; the pools and places are those the
\* geometry allows.
TypeOK ==
    /\ present \subseteq LPNs
    /\ table \in [LPNs -> [Units -> Places]]
    /\ valid \subseteq Cells
    /\ erased \subseteq Cells
    /\ owner \in [Cells -> LPNs]
    /\ nextPage \in [Blocks -> [Units -> 0 .. PagesInBlock]]
    /\ eraseCount \in [Blocks -> Nat]
    /\ active \subseteq Blocks
    /\ freeBlocks \in Seq(Blocks)
    /\ nFreeBlocks \in Nat
    /\ deadBlocks \subseteq Blocks
    /\ lastFreeBlock \in [Slots -> Blocks]
    /\ lastFreeBlockIndex \in Slots
    /\ lastFreeBlockIOMap \subseteq Units
    /\ bReclaimMore \in BOOLEAN
    /\ pc \in Locations
    /\ loop \in Nat
    /\ victims \in Seq(Blocks)
    /\ vi \in Nat \ {0}
    /\ page \in 0 .. PagesInBlock
    /\ outcome \in Outcomes

\* The table and the flash agree, also in the middle of a collection: a
\* mapped unit lies in a block in use, in a valid cell that stores its LPN,
\* and every valid cell is the one its LPN is mapped to.  (writeInternal,
\* trimInternal, format and doGarbageCollection each update both sides.)
MappingConsistent ==
    /\ \A l \in LPNs : \A u \in Units : Mapped(l, u) =>
          /\ l \in present
          /\ table[l][u][1] \in active
          /\ CellOf(l, u) \in valid
          /\ owner[CellOf(l, u)] = l
    /\ \A b \in Blocks : \A p \in Pages : \A u \in Units :
          <<b, p, u>> \in valid => table[owner[<<b, p, u>>]][u] = <<b, p>>

\* A cell is programmed once between two erases, in page order: the erased
\* cells are exactly those at or behind the write pointer of their unit.
WritePointers ==
    \A b \in Blocks : \A p \in Pages : \A u \in Units :
        /\ <<b, p, u>> \in erased <=> p >= nextPage[b][u]
        /\ <<b, p, u>> \in valid => p < nextPage[b][u]

\* Until the process ends a block is in exactly one place - in use, once in
\* the free list, or retired - and the separate counter nFreeBlocks is the
\* length of the list.
BlocksPartitioned ==
    pc # "stopped" =>
    /\ \A b \in Blocks : b \in active \/ Listed(b) \/ b \in deadBlocks
    /\ \A b \in active : ~Listed(b) /\ b \notin deadBlocks
    /\ \A b \in deadBlocks : ~Listed(b)
    /\ \A i, j \in 1 .. Len(freeBlocks) : freeBlocks[i] = freeBlocks[j] => i = j
    /\ nFreeBlocks = Len(freeBlocks)

\* Blocks in the free list are blank.
FreeBlocksBlank ==
    pc # "stopped" =>
    \A b \in Blocks : Listed(b) => \A u \in Units : nextPage[b][u] = 0

\* The list stays sorted by erase count, which getFreeBlock relies on to find
\* the least worn block first and calculateWearLeveling to stop early.
FreeListSorted ==
    \A i, j \in 1 .. Len(freeBlocks) :
        i < j => eraseCount[freeBlocks[i]] <= eraseCount[freeBlocks[j]]

\* A block is retired when its erase count reaches the threshold, and only
\* then: no worn-out block goes back to the list, no other one is lost.
WornOutRetired ==
    \A b \in Blocks : b \in deadBlocks <=> eraseCount[b] >= BadBlockThreshold

\* calculateWearLeveling sums the list from its worn end and stops at the
\* first zero.
WearLevelingSum ==
    MapThenSumSet(LAMBDA b : eraseCount[b], active)
    + MapThenSumSet(LAMBDA i : eraseCount[freeBlocks[i]],
                    {i \in 1 .. Len(freeBlocks) :
                        \A j \in i .. Len(freeBlocks) : eraseCount[freeBlocks[j]] > 0})

\* Stopping early loses nothing: the sum is the wear of all blocks that are
\* not retired.
WearSumComplete ==
    pc # "stopped" =>
        WearLevelingSum = MapThenSumSet(LAMBDA b : eraseCount[b],
                                        Blocks \ deadBlocks)

\* The sanity check "Corrupted" of getLastFreeBlock: the open block of every
\* slot is in use.
OpenBlocksInUse ==
    pc \notin {"ctor", "stopped"} => \A i \in Slots : lastFreeBlock[i] \in active

\* Wear is accounted for: the list is in order of it, worn-out blocks and only
\* those are retired, the statistics miss none of it, and the open block of
\* every slot is still in use, through collections, copies and block deaths.
WearInvariant ==
    /\ FreeListSorted
    /\ WornOutRetired
    /\ WearSumComplete
    /\ OpenBlocksInUse

\* None of the sanity checks of the layer fires.
NoPanic == outcome \notin Panics

\* "I assumed that init procedure never invokes GC" (writeInternal).
InitNeverCollects == outcome # "initgc"

\* "Copy valid pages to free block" (doGarbageCollection): what the next
\* iteration copies is valid data.
CopiesOnlyValid ==
    pc = "copy" =>
        \A i \in 1 .. Len(victims) : \A p \in Pages : NextCopy(i, p) =>
            \A u \in PageInfo(victims[i], p) : <<victims[i], p, u>> \in valid

\* The sanity check of eraseInternal: a victim holds no valid page any more
\* when it is erased.
ErasesOnlyInvalid == outcome # "validpages"

\* The sanity check of trimInternal: the entry it removes lies in blocks that
\* are in use.
TrimsInUse == outcome # "notinuse"

\* "Device end-of-life: every spare block has worn past the erase threshold"
\* (getFreeBlock): at the very least one block is worn out.
EndOfLifeIsWear == outcome = "eol" => deadBlocks # {}

\* The dead_blocks column of printWLSummary.
ReportedDead == TotalBlocks - Cardinality(active) - nFreeBlocks

\* The summary written when the run stops at the first block death counts the
\* blocks that died.
DeathReported ==
    outcome = "firstdeath" => ReportedDead = Cardinality(deadBlocks)

\* "total blocks to erase * DChoiceParam will be selected" (sample.cfg): the
\* sampling of victims always completes.
SamplingCompletes == outcome # "sampling"

\* The layer implements the logical device: collections, erases and retired
\* blocks never add, lose or move a logical unit out of the mapped set.
MappedUnits == {x \in LPNs \X Units : Mapped(x[1], x[2])}
Device == INSTANCE LogicalDevice WITH mapped <- MappedUnits,
                                      up <- (pc # "stopped")
ImplementsDevice == Device!DSpec

=============================================================================
