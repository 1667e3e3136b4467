--------------------------------- MODULE FTL ---------------------------------
(***************************************************************************)
(* FTL::FTL (src/simplessd/ftl/ftl.cc): the configuration picks one of     *)
(* four mapping modes, and from then on every call goes to that mode.      *)
(***************************************************************************)
EXTENDS VictimSelection

CONSTANTS
    MappingModes,  \* the values of FTL_MAPPING_MODE to consider
    WLLambdaPct,   \* FTL_WL_LAMBDA_SCALE in percent
    LAAlphaPct     \* FTL_LA_ALPHA_SCALE in percent

ASSUME ModeAssumption ==
    /\ MappingModes \subseteq 0 .. 3
    /\ WLLambdaPct \in Nat
    /\ LAAlphaPct \in Nat

VARIABLE mode   \* which class pFTL points to

fvars == <<vars, mode>>

Baseline == INSTANCE PageMapping
WL       == INSTANCE WLPageMapping
RBPA     == INSTANCE RBPAPageMapping
LA       == INSTANCE LAPageMapping

FTLInit == Init /\ mode \in MappingModes

FTLNext ==
    /\ \/ mode = 0 /\ Baseline!PageMappingNext
       \/ mode = 1 /\ WL!WLPageMappingNext
       \/ mode = 2 /\ RBPA!RBPAPageMappingNext
       \/ mode = 3 /\ LA!LAPageMappingNext
    /\ UNCHANGED mode

FTLSpec == FTLInit /\ [][FTLNext]_fvars

\* A collection or a format, once started, runs to its end: the call is one
\* sequential function, so its next step is never postponed for ever.
FairSpec == FTLSpec /\ WF_fvars(pc \in {"select", "copy", "erase"} /\ FTLNext)

-----------------------------------------------------------------------------
(* Properties of the modes *)

\* Modes 0 and 1: whatever erases, deaths and reinsertions came before, a
\* block that is opened is the least worn free block of its channel
\* (getFreeBlock looks no further than the first match in the list).
LeastWornOpened ==
    [][(mode \in {0, 1}) =>
        \A d \in active' \ active : \A b \in Blocks :
            (Listed(b) /\ b % PageCountToMaxPerf = d % PageCountToMaxPerf)
                => eraseCount[d] <= eraseCount[b]]_fvars

\* Mode 1: a collection never wears a block out in place of one that is no
\* fuller and less worn: both terms of the weight pull the same way, also
\* when many victims are taken at once.
NoDominatedVictim ==
    [][mode = 1 /\ pc = "select" =>
        \A a \in ToSet(victims') : \A b \in Candidates \ ToSet(victims') :
            ~(ValidCount(b) <= ValidCount(a) /\ eraseCount[b] < eraseCount[a])]_fvars

\* Modes 0 to 2: parallelism is kept while it can be: a slot is given a block
\* of another channel only when its own channel has no free block left.
ChannelKept ==
    [][(mode \in 0 .. 2) =>
        \A i \in Slots : lastFreeBlock'[i] # lastFreeBlock[i] =>
            \/ lastFreeBlock'[i] % PageCountToMaxPerf = i
            \/ \A b \in Blocks : Listed(b) => b % PageCountToMaxPerf # i]_fvars

\* Mode 3: the block that is opened is no more worn than the average free
\* block of any channel: the lowest average and the first, least worn block
\* of the sorted list together, whatever channel the slot asked for.
OpensBelowEveryAverage ==
    [][mode = 3 =>
        \A d \in active' \ active : \A c \in Slots :
            LA!WearNum(ToSet(freeBlocks), c) > 0 =>
                eraseCount[d] * LA!WearNum(ToSet(freeBlocks), c)
                    <= LA!WearSum(ToSet(freeBlocks), c)]_fvars

\* Every collection returns to the host, also the ones that run out of free
\* blocks, lose victims to wear or find nothing to do.
CollectionEnds ==
    pc \in {"select", "copy", "erase"} ~> pc \in {"idle", "stopped"}

=============================================================================
