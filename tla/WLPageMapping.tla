--------------------------- MODULE WLPageMapping ----------------------------
(***************************************************************************)
(* MappingMode 1 (src/simplessd/ftl/wl_page_mapping.cc): free blocks as in *)
(* the baseline; a victim's weight is its valid units plus lambda times    *)
(* its erase count, lambda = WLLambdaScale * pagesInBlock / threshold.     *)
(***************************************************************************)
EXTENDS VictimSelection

CONSTANT WLLambdaPct   \* FTL_WL_LAMBDA_SCALE in percent

GetFreeBlock(idx) ==
    LET own == SelectInSeq(freeBlocks, LAMBDA b : b % PageCountToMaxPerf = idx)
    IN  {freeBlocks[IF own = 0 THEN 1 ELSE own]}

\* Mutant: wear attracts the collector.
WearRewarded(b) == -(WLLambdaPct * PagesInBlock * eraseCount[b])

\* lambda times the erase count.
WearTerm(b) == WLLambdaPct * PagesInBlock * eraseCount[b]

\* The weight times 100 * threshold.
CalculateVictimWeight(b) ==
    IF BadBlockThreshold = 0 THEN ValidCount(b)
    ELSE 100 * BadBlockThreshold * ValidCount(b)
         + WearTerm(b)

\* getLastFreeBlock: if the allocation for F opens a block, d is one that
\* getFreeBlock may return.
Allots(F, d) ==
    OpenBlock(F) \in active /\ Opens(F) /\ nFreeBlocks > 0
        => d \in GetFreeBlock(SlotFor(F))

-----------------------------------------------------------------------------
(* The operations of the mode *)

Construct == pc = "ctor" /\ \E d \in GetFreeBlock(loop) : OpenSlot(d)

Initialize ==
    \/ \E l \in LPNs, d \in Blocks :
          Allots(Units, d) /\ (Warmup(l, d) \/ Invalidation(l, d))
    \/ InitializeNext

ReadInternal == \E l \in LPNs : Read(l)

WriteInternal ==
    \E l \in LPNs, F \in Flags, d \in Blocks : Allots(F, d) /\ Write(l, F, d)

TrimInternal == \E l \in LPNs : Trim(l)

FormatRange == \E lo, hi \in LPNs : Format(lo, hi)

SelectVictims ==
    SelectByWeight([b \in Candidates |-> CalculateVictimWeight(b)])

DoGarbageCollection ==
    \/ \E i \in 1 .. Len(victims), p \in Pages, d \in Blocks :
          /\ Allots(PageInfo(victims[i], p), d)
          /\ CopyPage(i, p, d)
    \/ CopyDone

EraseVictim == EraseInternal

WLPageMappingNext ==
    \/ Construct
    \/ Initialize
    \/ ReadInternal
    \/ WriteInternal
    \/ TrimInternal
    \/ FormatRange
    \/ SelectVictims
    \/ DoGarbageCollection
    \/ EraseVictim
    \/ Over

=============================================================================
