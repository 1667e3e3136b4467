---------------------------- MODULE GenericCache ----------------------------
(***************************************************************************)
(* The internal cache layer: the set-associative line cache in front of    *)
(* the FTL (src/simplessd/icl/generic_cache.cc), called line by line by    *)
(* ICL (src/simplessd/icl/icl.cc).                                         *)
(*                                                                         *)
(* The simulator moves no data, so what a line "contains" is kept here as  *)
(* history: new says that a line holds the last version the host wrote of  *)
(* its tag, flash which lines' last version the FTL was given, live which  *)
(* lines were written and not discarded since.  Data is followed per line, *)
(* not per byte.  Times are left out: a policy that compares insertedAt or *)
(* lastAccessed may pick any of the lines it compares.                     *)
(***************************************************************************)
EXTENDS Integers, Sequences, SequencesExt

CONSTANTS
    LCAs,            \* number of logical cache-line addresses of the device
    CacheLines,      \* cacheSize / lineSize
    WaySizes,        \* configured CacheWaySize values; 0: fully associative
    LineCounts,      \* possible lineCountInSuperPage values
    ParallelIO,      \* parallelIO: super pages of the widest I/O
    ReadCaching,     \* possible values of useReadCaching,
    WriteCaching,    \*   of useWriteCaching,
    ReadPrefetch,    \*   of useReadPrefetch,
    EvictAll,        \*   of evictMode = MODE_ALL,
    PrefetchAll      \*   of prefetchMode = MODE_ALL

ASSUME GeometryAssumption ==
    /\ LCAs \in Nat \ {0}
    /\ CacheLines \in Nat
    /\ WaySizes \subseteq Nat
    /\ LineCounts \subseteq Nat \ {0}
    /\ ParallelIO \in Nat \ {0}
    /\ \A s \in {ReadCaching, WriteCaching, ReadPrefetch, EvictAll,
                 PrefetchAll} : s \subseteq BOOLEAN

VARIABLES
    conf,            \* the configuration the constructor read
    cacheData,       \* cacheData: [set and way -> line]
    prefetchTrigger, \* prefetchTrigger, None for the largest integer
    lastPrefetched,  \* lastPrefetched
    flash,           \* history: last version handed to the FTL
    live,            \* history: written and not discarded
    flushed,         \* history: a flush was served
    fault            \* "Cache corrupted!" was raised

vars == <<conf, cacheData, prefetchTrigger, lastPrefetched, flash, live,
          flushed, fault>>

None   == -1
NoSlot == <<None, None>>
Larger(a, b) == IF a > b THEN a ELSE b

-----------------------------------------------------------------------------
(* The constructor *)

\* waySize, setSize and the configured switches.  super is bSuperPage: more
\* than one I/O unit in a page, whether or not lines are that small (k > 1).
Configurations ==
    {[read |-> r, write |-> w, prefetch |-> p, k |-> k,
      evictAll |-> e, prefetchAll |-> a \/ ~super,
      ways |-> IF n = 0 THEN Larger(CacheLines, 1) ELSE n,
      sets |-> IF n = 0 THEN 1 ELSE Larger(CacheLines \div n, 1)] :
     r \in ReadCaching, w \in WriteCaching, p \in ReadPrefetch,
     k \in LineCounts, e \in EvictAll, a \in PrefetchAll, n \in WaySizes,
     super \in BOOLEAN}

\* Lines smaller than a page need more than one unit in a page.
Possible(c) == c.k > 1 => c.prefetchAll \in PrefetchAll

Sets  == 0 .. conf.sets - 1
Ways  == 0 .. conf.ways - 1
Slots == Sets \X Ways
Enabled == conf.read \/ conf.write

BlankLine == [valid |-> FALSE, dirty |-> FALSE, tag |-> 0, new |-> FALSE]

\* lineCountInMaxIO and the number of lines one prefetch reads.
LineCountInMaxIO == ParallelIO * conf.k
PrefetchSpan     == IF conf.prefetchAll THEN LineCountInMaxIO ELSE conf.k

\* Tags reach past the device by what a prefetch reads ahead.
Tags == 0 .. LCAs + 2 * PrefetchSpan

Init ==
    /\ conf \in Configurations
    /\ Possible(conf)
    /\ cacheData = [l \in Slots |-> BlankLine]
    /\ prefetchTrigger = None
    /\ lastPrefetched = 0
    /\ flash = {}
    /\ live = {}
    /\ flushed = FALSE
    /\ fault = FALSE

-----------------------------------------------------------------------------
(* Addressing and lookup; c is the content of cacheData *)

CalcSetIndex(lca) == lca % conf.sets

CalcIOPosition(lca) ==
    LET tmp == lca % LineCountInMaxIO IN <<tmp % conf.k, tmp \div conf.k>>

IOPositions == (0 .. conf.k - 1) \X (0 .. ParallelIO - 1)

\* The slots getValidWay and getEmptyWay can return; {} stands for waySize.
GetValidWay(c, lca) ==
    {l \in Slots : l[1] = CalcSetIndex(lca) /\ c[l].valid /\ c[l].tag = lca}

GetEmptyWay(c, set) == {l \in Slots : l[1] = set /\ ~c[l].valid}

-----------------------------------------------------------------------------
(* The FTL as the cache uses it *)

\* What flash holds after the lines ls of c were written to it in any order.
WriteBack(c, ls, fl) ==
    (fl \ {c[l].tag : l \in {x \in ls : ~c[x].new}})
        \cup {c[l].tag : l \in {x \in ls : c[x].new}}

\* The lines of logical page lpn.
LinesOf(lpn) == conf.k * lpn .. conf.k * lpn + conf.k - 1

-----------------------------------------------------------------------------
(* Eviction: evict maps I/O positions to slots, NoSlot if empty *)

NoEviction == [p \in IOPositions |-> NoSlot]
Chosen(evict) == {evict[p] : p \in IOPositions} \ {NoSlot}

\* evictCache(tick, true): valid dirty lines are written, all are dropped.
EvictCache(c, evict) ==
    [l \in Slots |-> IF l \in Chosen(evict) THEN BlankLine ELSE c[l]]

EvictedToFlash(c, evict, fl) ==
    WriteBack(c, {l \in Chosen(evict) : c[l].valid /\ c[l].dirty}, fl)

\* The valid lines compareFunction folds into one position.
Comparable(c, p) ==
    {l \in Slots :
        /\ c[l].valid
        /\ \/ conf.evictAll /\ CalcIOPosition(c[l].tag) = p
           \/ /\ ~conf.evictAll
              /\ p[2] = ParallelIO - 1
              /\ CalcIOPosition(c[l].tag)[1] = p[1]}

\* One comparable line per position, whichever the policy prefers.
Preferred(c, p) == IF Comparable(c, p) = {} THEN {NoSlot} ELSE Comparable(c, p)

Selections(c) ==
    LET choice == [p \in IOPositions |-> Preferred(c, p)] IN
    {e \in [IOPositions -> UNION {choice[p] : p \in IOPositions}] :
        \A p \in IOPositions : e[p] \in choice[p]}

\* Mutant: the selection is taken as it is.
WithoutSetToFlush(c, e, set) == {e}

\* The set the request falls into must lose a line.
WithSetToFlush(c, e, set) ==
    IF \E l \in Chosen(e) : CalcSetIndex(c[l].tag) = set
    THEN {e}
    ELSE {[e EXCEPT ![CalcIOPosition(c[l].tag)] = l] :
              l \in {x \in Slots : x[1] = set /\ c[x].valid}}

-----------------------------------------------------------------------------
(* write *)

\* The host's version of lca supersedes every other copy.
Supersede(c, lca) ==
    [l \in Slots |-> IF c[l].tag = lca THEN [c[l] EXCEPT !.new = FALSE]
                                       ELSE c[l]]

Fresh(lca, dirty) ==
    [valid |-> TRUE, dirty |-> dirty, tag |-> lca, new |-> TRUE]

\* Mutant: every write leaves the line clean.
NeverDirty(partial) == FALSE

\* A write shorter than a line makes the line dirty; a full line is written
\* through before the cache is looked at.
DirtyOf(partial) == partial

FlashAfterWrite(lca, partial) ==
    IF partial THEN flash \ {lca} ELSE flash \cup {lca}

Placed(c, l, lca, dirty) == [c EXCEPT ![l] = Fresh(lca, dirty)]

WriteCached(lca, partial) ==
    LET c  == Supersede(cacheData, lca)
        fl == FlashAfterWrite(lca, partial)
        set == CalcSetIndex(lca)
        here == IF GetValidWay(c, lca) # {} THEN GetValidWay(c, lca)
                                            ELSE GetEmptyWay(c, set)
    IN  \/ /\ here # {}
           /\ \E l \in here :
                  cacheData' = Placed(c, l, lca, DirtyOf(partial))
           /\ flash' = fl
           /\ UNCHANGED fault
        \/ /\ here = {}
           /\ \E s \in Selections(c) : \E e \in WithSetToFlush(c, s, set) :
                LET c2 == EvictCache(c, e) IN
                /\ flash' = EvictedToFlash(c, e, fl)
                /\ IF GetEmptyWay(c2, set) = {}
                   THEN fault' = TRUE /\ cacheData' = c2
                   ELSE /\ UNCHANGED fault
                        /\ \E l \in GetEmptyWay(c2, set) :
                               cacheData' = Placed(c2, l, lca, TRUE)

Write(lca, partial) ==
    /\ ~fault
    /\ \/ conf.write /\ WriteCached(lca, partial)
       \/ /\ ~conf.write
          /\ cacheData' = Supersede(cacheData, lca)
          /\ flash' = flash \cup {lca}
          /\ UNCHANGED fault
    /\ live' = live \cup {lca}
    /\ UNCHANGED <<conf, prefetchTrigger, lastPrefetched, flushed>>

-----------------------------------------------------------------------------
(* read *)

\* Mutant: a line that is cached already is read again.
ReserveAlways(s, lca, pick) ==
    LET set   == CalcSetIndex(lca)
        empty == GetEmptyWay(s.c, set)
        l     == IF empty = {} \/ <<set, pick>> \in empty THEN <<set, pick>>
                 ELSE CHOOSE x \in empty : TRUE
    IN  [c     |-> [s.c EXCEPT ![l].valid = TRUE, ![l].dirty = FALSE],
         evict |-> s.evict,
         list  |-> Append(s.list, [lca |-> lca, line |-> l])]

\* One iteration of the loop that reserves a line for lca.  pick is the way
\* a policy prefers; an empty way goes first.  A full set gives up a line,
\* remembered for eviction if it is dirty, and the line is marked valid and
\* clean at once, under its old tag.
Reserve(s, lca, pick) ==
    LET set   == CalcSetIndex(lca)
        empty == GetEmptyWay(s.c, set)
        l     == IF empty = {} \/ <<set, pick>> \in empty THEN <<set, pick>>
                 ELSE CHOOSE x \in empty : TRUE
    IN  IF GetValidWay(s.c, lca) # {} THEN s
        ELSE [c     |-> [s.c EXCEPT ![l].valid = TRUE, ![l].dirty = FALSE],
              evict |-> IF empty = {} /\ s.c[l].dirty
                        THEN [s.evict EXCEPT
                                 ![CalcIOPosition(s.c[l].tag)] = l]
                        ELSE s.evict,
              list  |-> Append(s.list, [lca |-> lca, line |-> l])]

\* The reading loop: tag and content of the reserved lines.
Fetch(c, r) == [c EXCEPT ![r.line].tag = r.lca,
                         ![r.line].new = r.lca \in flash]

\* Reading the lines from begin to end - 1 into the cache.
Fill(begin, end, pick) ==
    LET s0 == [c |-> cacheData, evict |-> NoEviction, list |-> << >>]
        s  == FoldLeft(LAMBDA s1, i : Reserve(s1, begin + i - 1, pick[i]),
                       s0, [i \in 1 .. end - begin |-> i])
    IN  /\ cacheData' = FoldLeft(Fetch, EvictCache(s.c, s.evict), s.list)
        /\ flash' = EvictedToFlash(s.c, s.evict, flash)

\* checkSequential decides whether the stream is sequential (enabled).
FillFrom(begin, enabled) ==
    LET end == begin + (IF enabled THEN PrefetchSpan ELSE 1) IN
    /\ \E pick \in [1 .. end - begin -> Ways] : Fill(begin, end, pick)
    /\ prefetchTrigger' = IF enabled THEN begin + PrefetchSpan \div 2
                                     ELSE prefetchTrigger
    /\ lastPrefetched' = IF enabled THEN end ELSE lastPrefetched

\* Without read caching a read leaves the cache as it is.
Read(lca) ==
    /\ ~fault
    /\ conf.read
    /\ \E enabled \in {FALSE, conf.prefetch} :
          \/ GetValidWay(cacheData, lca) = {} /\ FillFrom(lca, enabled)
          \/ /\ GetValidWay(cacheData, lca) # {}
             /\ conf.prefetch /\ lca = prefetchTrigger
             /\ FillFrom(lastPrefetched, enabled)
    /\ UNCHANGED <<conf, live, flushed, fault>>

-----------------------------------------------------------------------------
(* flush, trim and format of the n lines from a on *)

InRange(lca, a, n) == lca >= a /\ lca < a + n

\* Lines are matched by tag alone, valid or not, and only lose their valid
\* flag.
Invalidated(a, n) ==
    [l \in Slots |-> IF InRange(cacheData[l].tag, a, n)
                     THEN [cacheData[l] EXCEPT !.valid = FALSE]
                     ELSE cacheData[l]]

\* Sets and ways in loop order.
SlotOrder ==
    [i \in 1 .. conf.sets * conf.ways |->
        <<(i - 1) \div conf.ways, (i - 1) % conf.ways>>]

\* The lines a flush writes: by tag and dirty flag, valid or not.
ToFlush(a, n) ==
    {l \in Slots : InRange(cacheData[l].tag, a, n) /\ cacheData[l].dirty}

\* One line written by flush.  The unit bits of the lines written before stay
\* set in the request, so units of other lines of the page are overwritten
\* with what is not theirs.
FlushLine(s, l) ==
    LET tag  == cacheData[l].tag
        bits == s.bits \cup {tag % conf.k}
        lost == {conf.k * (tag \div conf.k) + b : b \in bits}
    IN  [bits |-> bits, fl |-> WriteBack(cacheData, {l}, s.fl \ lost)]

Flush(a, n) ==
    /\ ~fault
    /\ Enabled
    /\ cacheData' = Invalidated(a, n)
    /\ flash' = FoldLeft(LAMBDA s, l : IF l \in ToFlush(a, n)
                                       THEN FlushLine(s, l) ELSE s,
                         [bits |-> {}, fl |-> flash], SlotOrder).fl
    /\ flushed' = TRUE
    /\ UNCHANGED <<conf, prefetchTrigger, lastPrefetched, live, fault>>

\* Dropped lines: a copy left in the cache is no longer what the host wrote.
Discard(c, gone) ==
    /\ live' = live \ gone
    /\ flash' = flash \ gone
    /\ cacheData' = [l \in Slots |->
                        IF c[l].tag \in gone THEN [c[l] EXCEPT !.new = FALSE]
                                             ELSE c[l]]

\* Only addresses some line carries as its tag are trimmed, whole pages each.
Trim(a, n) ==
    LET hit == {cacheData[l].tag : l \in {x \in Slots :
                    InRange(cacheData[x].tag, a, n)}}
    IN  /\ ~fault
        /\ Enabled
        /\ Discard(Invalidated(a, n),
                   UNION {LinesOf(t \div conf.k) : t \in hit})
        /\ UNCHANGED <<conf, prefetchTrigger, lastPrefetched, flushed, fault>>

Format(a, n) ==
    LET first == a \div conf.k
        count == (n - 1) \div conf.k + 1
        c     == [l \in Slots |->
                    IF Enabled /\ cacheData[l].valid /\
                       InRange(cacheData[l].tag, a, n)
                    THEN [cacheData[l] EXCEPT !.valid = FALSE]
                    ELSE cacheData[l]]
    IN  /\ ~fault
        /\ Discard(c, (a .. a + n - 1) \cup
                      UNION {LinesOf(p) : p \in first .. first + count - 1})
        /\ UNCHANGED <<conf, prefetchTrigger, lastPrefetched, flushed, fault>>

\* Ranges of the device.
Ranges == {r \in (0 .. LCAs - 1) \X (1 .. LCAs) : r[1] + r[2] <= LCAs}

Next ==
    \/ \E lca \in 0 .. LCAs - 1, partial \in BOOLEAN : Write(lca, partial)
    \/ \E lca \in 0 .. LCAs - 1 : Read(lca)
    \/ \E r \in Ranges : Flush(r[1], r[2])
    \/ \E r \in Ranges : Trim(r[1], r[2])
    \/ \E r \in Ranges : Format(r[1], r[2])

Spec == Init /\ [][Next]_vars

-----------------------------------------------------------------------------
(* Properties *)

Lines == [valid : BOOLEAN, dirty : BOOLEAN, tag : Tags, new : BOOLEAN]

\* Types of the state of the cache.
TypeOK ==
    /\ conf \in Configurations
    /\ cacheData \in [Slots -> Lines]
    /\ prefetchTrigger \in Tags \cup {None}
    /\ lastPrefetched \in Tags
    /\ flash \subseteq Tags
    /\ live \subseteq 0 .. LCAs - 1
    /\ flushed \in BOOLEAN
    /\ fault \in BOOLEAN

\* What getValidWay relies on when it stops at the first match of the one
\* set it searches: a valid line lies in the set of its tag, and no two valid
\* lines carry the same tag.  A prefetch marks lines valid under tags it is
\* about to replace and may reserve one line twice, so this is not a matter
\* of one assignment.  The state is well typed.
Indexed ==
    /\ TypeOK
    /\ \A l \in Slots : cacheData[l].valid =>
          GetValidWay(cacheData, cacheData[l].tag) = {l}

\* The eviction a write starts always frees a way of its own set: the panic
\* "Cache corrupted!" cannot be reached.
NeverCorrupted == ~fault

\* The last version of a line is in flash or in a line that an eviction or a
\* flush will still write.
Kept(lca) ==
    \/ lca \in flash
    \/ \E l \in Slots : LET c == cacheData[l] IN
          c.valid /\ c.dirty /\ c.new /\ c.tag = lca

\* Without read caching no write is lost: evictions write what they drop, in
\* every geometry.  With flushes this holds of the direct-mapped cache with
\* one line per page; elsewhere a flush rewrites lines it wrote before and
\* units that are not in the cache.
WritesKept ==
    \/ conf.read
    \/ flushed /\ (conf.ways > 1 \/ conf.k > 1)
    \/ \A lca \in live : Kept(lca)

\* The comment in read() on a dirty line that makes room: "We need to evict
\* data before write".  Before a flush is served, no write is lost, read
\* caching or not.
EvictedBeforeReuse == flushed \/ \A lca \in live : Kept(lca)

=============================================================================
