--------------------------- MODULE VictimSelection ---------------------------
(***************************************************************************)
(* selectVictimBlock, which the four mapping modes share: how many blocks  *)
(* a collection reclaims and which ones, given the weight that the mode's  *)
(* calculateVictimWeight assigns to each full block.                       *)
(*                                                                         *)
(* Weights are exact: a mode scales its float expression to integers.  The *)
(* order of equal weights is that of an unordered_map and an unstable      *)
(* sort, so it is left open.  The age in the cost-benefit weight comes     *)
(* from a time stamp that doGarbageCollection never sets, so that policy   *)
(* may produce any order.                                                  *)
(***************************************************************************)
EXTENDS MappingCore

CONSTANTS
    GCMode,          \* FTL_GC_MODE: 0 a number of blocks, 1 up to a ratio
    GCReclaimBlocks, \* FTL_GC_RECLAIM_BLOCK (GCMode = 0)
    GCReclaimPct,    \* FTL_GC_RECLAIM_THRESHOLD in percent (GCMode = 1)
    EvictPolicy,     \* FTL_GC_EVICT_POLICY
    DChoiceParam     \* FTL_GC_D_CHOICE_PARAM

\* "n > 0" and "t > GCThreshold" of the sample configuration.
ASSUME CollectionAssumption ==
    /\ GCMode \in {0, 1}
    /\ GCReclaimBlocks \in Nat \ {0}
    /\ GCReclaimPct \in GCThresholdPct + 1 .. 100
    /\ EvictPolicy \in {"greedy", "costbenefit", "random", "dchoice"}
    /\ DChoiceParam \in Nat \ {0}

\* nBlocks before the candidates are known.
BlocksToReclaim ==
    (IF GCMode = 0 THEN GCReclaimBlocks
     ELSE (TotalBlocks * GCReclaimPct) \div 100 - nFreeBlocks)
    + (IF bReclaimMore THEN PageCountToMaxPerf ELSE 0)

\* The sets of candidates that get sorted: all of them, or a random sample.
SampleSize == IF EvictPolicy = "random" THEN BlocksToReclaim
              ELSE DChoiceParam * BlocksToReclaim
Samples ==
    IF EvictPolicy \in {"random", "dchoice"}
    THEN {S \in SUBSET Candidates : Cardinality(S) = SampleSize}
    ELSE {Candidates}

\* list holds the lightest members of S, lightest first.
Lightest(list, S, weight) ==
    LET Before(a, b) == EvictPolicy = "costbenefit" \/ weight[a] <= weight[b]
    IN  /\ \A i, j \in 1 .. Len(list) : i < j => Before(list[i], list[j])
        /\ \A b \in S \ ToSet(list) :
              \A i \in 1 .. Len(list) : Before(list[i], b)

\* The sampling loop ends only when there are enough candidates.
SelectByWeight(weight) ==
    \/ /\ Samples = {}
       /\ SamplingStuck
    \/ \E S \in Samples :
          \E list \in [1 .. Min({BlocksToReclaim, Cardinality(S)}) -> S] :
              /\ Lightest(list, S, weight)
              /\ SelectVictimBlock(list)

=============================================================================
