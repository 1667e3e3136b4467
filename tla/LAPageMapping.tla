--------------------------- MODULE LAPageMapping ----------------------------
(***************************************************************************)
(* MappingMode 3 (src/simplessd/ftl/la_page_mapping.cc): the first free    *)
(* block of the channel whose free blocks have the lowest average erase    *)
(* count (the slot's own channel on a tie), and victims whose weight is    *)
(* lowered in channels more worn than the average.                         *)
(***************************************************************************)
EXTENDS VictimSelection

CONSTANT LAAlphaPct   \* FTL_LA_ALPHA_SCALE in percent

Channel(b) == b % PageCountToMaxPerf

\* Sum and number of the erase counts of the members of S in channel ch.
WearSum(S, ch) == MapThenSumSet(LAMBDA b : eraseCount[b],
                                {b \in S : Channel(b) = ch})
WearNum(S, ch) == Cardinality({b \in S : Channel(b) = ch})

\* Mutant: sums are compared instead of averages.
LowerSum(S, a, b) ==
    WearNum(S, a) > 0 /\ (WearNum(S, b) = 0 \/ WearSum(S, a) < WearSum(S, b))

\* The average of channel a is below that of channel b; an empty channel
\* compares as larger than all.
LowerAverage(S, a, b) ==
    /\ WearNum(S, a) > 0
    /\ \/ WearNum(S, b) = 0
       \/ WearSum(S, a) * WearNum(S, b) < WearSum(S, b) * WearNum(S, a)

\* targetCh: the slot's own channel unless another average is lower; then
\* the first of the lowest.
TargetChannel(idx) ==
    LET S      == ToSet(freeBlocks)
        lowest == {c \in Slots : WearNum(S, c) > 0
                                 /\ \A e \in Slots : ~LowerAverage(S, e, c)}
    IN  IF idx \in lowest THEN idx ELSE Min(lowest)

GetFreeBlock(idx) ==
    LET at == SelectInSeq(freeBlocks, LAMBDA b : Channel(b) = TargetChannel(idx))
    IN  {freeBlocks[IF at = 0 THEN 1 ELSE at]}

\* The weight valid - (avg(ch) - total) / total * alpha, where total is the
\* mean of the channel averages, over a common positive denominator.
CalculateVictimWeight(b) ==
    LET S        == active \cup ToSet(freeBlocks)
        channels == {c \in Slots : WearNum(S, c) > 0}
        nums     == FoldSet(LAMBDA c, acc : WearNum(S, c) * acc, 1, channels)
        Avg(c)   == WearSum(S, c) * (nums \div WearNum(S, c))
        total    == MapThenSumSet(Avg, channels)
    IN  IF total = 0 THEN ValidCount(b)
        ELSE 100 * total * ValidCount(b)
             - LAAlphaPct * PagesInBlock
               * (Avg(Channel(b)) * Cardinality(channels) - total)

\* getLastFreeBlock: if the allocation for F opens a block, d is one that
\* getFreeBlock may return.
Allots(F, d) ==
    OpenBlock(F) \in active /\ Opens(F) /\ nFreeBlocks > 0
        => d \in GetFreeBlock(SlotFor(F))

-----------------------------------------------------------------------------
(* The operations of the mode *)

Construct == pc = "ctor" /\ \E d \in GetFreeBlock(loop) : OpenSlot(d)

Initialize ==
    \/ \E l \in LPNs, d \in Blocks :
          Allots(Units, d) /\ (Warmup(l, d) \/ Invalidation(l, d))
    \/ InitializeNext

ReadInternal == \E l \in LPNs : Read(l)

WriteInternal ==
    \E l \in LPNs, F \in Flags, d \in Blocks : Allots(F, d) /\ Write(l, F, d)

TrimInternal == \E l \in LPNs : Trim(l)

FormatRange == \E lo, hi \in LPNs : Format(lo, hi)

SelectVictims ==
    SelectByWeight([b \in Candidates |-> CalculateVictimWeight(b)])

DoGarbageCollection ==
    \/ \E i \in 1 .. Len(victims), p \in Pages, d \in Blocks :
          /\ Allots(PageInfo(victims[i], p), d)
          /\ CopyPage(i, p, d)
    \/ CopyDone

EraseVictim == EraseInternal

LAPageMappingNext ==
    \/ Construct
    \/ Initialize
    \/ ReadInternal
    \/ WriteInternal
    \/ TrimInternal
    \/ FormatRange
    \/ SelectVictims
    \/ DoGarbageCollection
    \/ EraseVictim
    \/ Over

=============================================================================
