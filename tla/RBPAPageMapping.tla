-------------------------- MODULE RBPAPageMapping ---------------------------
(***************************************************************************)
(* MappingMode 2 (src/simplessd/ftl/rbpa_page_mapping.cc): a free block of *)
(* the slot's channel drawn at random with a probability that grows with   *)
(* its remaining erase budget (never zero, so any of them can come up); a  *)
(* victim's weight is its valid units plus a worn fraction.                *)
(***************************************************************************)
EXTENDS VictimSelection

CONSTANT WLLambdaPct   \* FTL_WL_LAMBDA_SCALE in percent

\* Mutant: the channel is ignored.
AnyFreeBlock(idx) == ToSet(freeBlocks)

\* getFreeBlock: any free block of the slot's channel; the head of the list
\* when the channel has none.
GetFreeBlock(idx) ==
    LET own == {b \in ToSet(freeBlocks) : b % PageCountToMaxPerf = idx}
    IN  IF own = {} THEN {freeBlocks[1]} ELSE own

\* The weight times 100 * threshold.
CalculateVictimWeight(b) ==
    IF BadBlockThreshold = 0 THEN ValidCount(b)
    ELSE 100 * BadBlockThreshold * ValidCount(b)
         + WLLambdaPct * PagesInBlock * Min({eraseCount[b], BadBlockThreshold})

\* getLastFreeBlock: if the allocation for F opens a block, d is one that
\* getFreeBlock may return.
Allots(F, d) ==
    OpenBlock(F) \in active /\ Opens(F) /\ nFreeBlocks > 0
        => d \in GetFreeBlock(SlotFor(F))

-----------------------------------------------------------------------------
(* The operations of the mode *)

Construct == pc = "ctor" /\ \E d \in GetFreeBlock(loop) : OpenSlot(d)

Initialize ==
    \/ \E l \in LPNs, d \in Blocks :
          Allots(Units, d) /\ (Warmup(l, d) \/ Invalidation(l, d))
    \/ InitializeNext

ReadInternal == \E l \in LPNs : Read(l)

WriteInternal ==
    \E l \in LPNs, F \in Flags, d \in Blocks : Allots(F, d) /\ Write(l, F, d)

TrimInternal == \E l \in LPNs : Trim(l)

FormatRange == \E lo, hi \in LPNs : Format(lo, hi)

SelectVictims ==
    SelectByWeight([b \in Candidates |-> CalculateVictimWeight(b)])

DoGarbageCollection ==
    \/ \E i \in 1 .. Len(victims), p \in Pages, d \in Blocks :
          /\ Allots(PageInfo(victims[i], p), d)
          /\ CopyPage(i, p, d)
    \/ CopyDone

EraseVictim == EraseInternal

RBPAPageMappingNext ==
    \/ Construct
    \/ Initialize
    \/ ReadInternal
    \/ WriteInternal
    \/ TrimInternal
    \/ FormatRange
    \/ SelectVictims
    \/ DoGarbageCollection
    \/ EraseVictim
    \/ Over

=============================================================================
