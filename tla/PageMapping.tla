---------------------------- MODULE PageMapping -----------------------------
(***************************************************************************)
(* MappingMode 0, the baseline (src/simplessd/ftl/page_mapping.cc): the    *)
(* first free block of the slot's own channel, and the victims with the    *)
(* fewest valid units.                                                     *)
(***************************************************************************)
EXTENDS VictimSelection

\* Mutant: the last block of the list that falls on the slot.
LastOfChannel(idx) ==
    LET own == SelectLastInSeq(freeBlocks, LAMBDA b : b % PageCountToMaxPerf = idx)
    IN  {freeBlocks[IF own = 0 THEN 1 ELSE own]}

\* getFreeBlock: the first block of the list whose index falls on the slot,
\* the first of all when there is none.
GetFreeBlock(idx) ==
    LET own == SelectInSeq(freeBlocks, LAMBDA b : b % PageCountToMaxPerf = idx)
    IN  {freeBlocks[IF own = 0 THEN 1 ELSE own]}

CalculateVictimWeight(b) == ValidCount(b)

\* getLastFreeBlock: if the allocation for F opens a block, d is one that
\* getFreeBlock may return.
Allots(F, d) ==
    OpenBlock(F) \in active /\ Opens(F) /\ nFreeBlocks > 0
        => d \in GetFreeBlock(SlotFor(F))

-----------------------------------------------------------------------------
(* The operations of the mode *)

Construct == pc = "ctor" /\ \E d \in GetFreeBlock(loop) : OpenSlot(d)

Initialize ==
    \/ \E l \in LPNs, d \in Blocks :
          Allots(Units, d) /\ (Warmup(l, d) \/ Invalidation(l, d))
    \/ InitializeNext

ReadInternal == \E l \in LPNs : Read(l)

WriteInternal ==
    \E l \in LPNs, F \in Flags, d \in Blocks : Allots(F, d) /\ Write(l, F, d)

TrimInternal == \E l \in LPNs : Trim(l)

FormatRange == \E lo, hi \in LPNs : Format(lo, hi)

SelectVictims ==
    SelectByWeight([b \in Candidates |-> CalculateVictimWeight(b)])

DoGarbageCollection ==
    \/ \E i \in 1 .. Len(victims), p \in Pages, d \in Blocks :
          /\ Allots(PageInfo(victims[i], p), d)
          /\ CopyPage(i, p, d)
    \/ CopyDone

EraseVictim == EraseInternal

PageMappingNext ==
    \/ Construct
    \/ Initialize
    \/ ReadInternal
    \/ WriteInternal
    \/ TrimInternal
    \/ FormatRange
    \/ SelectVictims
    \/ DoGarbageCollection
    \/ EraseVictim
    \/ Over

=============================================================================
