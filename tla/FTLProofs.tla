----------------------------- MODULE FTLProofs ------------------------------
(***************************************************************************)
(* Proofs about the mapping layer, for every geometry, threshold, policy   *)
(* and mode.                                                               *)
(*                                                                         *)
(* First MappingCore, which the four modes share.  None of its invariants  *)
(* is inductive by itself.  That nFreeBlocks stays a natural number needs  *)
(* the list it counts (BlocksPartitioned), that a write stays inside its   *)
(* block needs the write pointers (WritePointers), and that a block from   *)
(* the free list can be written needs the list's blocks to be blank        *)
(* (FreeBlocksBlank): Inductive is their conjunction.  On top of it        *)
(* MappingConsistent is inductive when a page has more than one unit; with *)
(* one unit getPageInfo reports invalid pages as well and a collection may *)
(* move stale data (run StaleCopy).                                        *)
(*                                                                         *)
(* Then the modes.  Each decides which free block to open and which        *)
(* victims to reclaim; all else is MappingCore's.  So every step of every  *)
(* mode is a step of MappingCore, and what is proved of that module holds  *)
(* of the layer in each mode.  The decisions themselves are the subject of *)
(* the action properties proved at the end.  The modes reach MappingCore   *)
(* through instances of their own, whose definitions are the same word for *)
(* word; the first lemmas about them say so.                               *)
(***************************************************************************)
EXTENDS FTL, SeqLemmas

-----------------------------------------------------------------------------
(* MappingCore: what its invariants need *)

\* The inductive storage invariant.
Inductive == TypeOK /\ BlocksPartitioned /\ WritePointers /\ FreeBlocksBlank

\* The sets the parameters define are not empty.
LEMMA Nonempty == 0 \in LPNs /\ 0 \in Slots /\ Units # {} /\ Slots \subseteq Nat
<1>1. LogicalBlocks * PagesInBlock >= 1
  BY ParameterAssumption, SMT
<1>2. LogicalBlocks * PagesInBlock \in Nat
  BY ParameterAssumption, SMT
<1> QED
  BY <1>1, <1>2, ParameterAssumption DEF LPNs, Slots, Units

\* The slot counter of getLastFreeBlock wraps around within the slots.
LEMMA SlotInRange ==
  ASSUME TypeOK, NEW F
  PROVE  SlotFor(F) \in Slots
<1>1. \A n \in Nat : n % PageCountToMaxPerf \in 0 .. PageCountToMaxPerf - 1
  BY ParameterAssumption, SMT
<1>2. lastFreeBlockIndex + 1 \in Nat
  BY Nonempty DEF TypeOK
<1> QED
  BY <1>1, <1>2 DEF TypeOK, SlotFor, Slots

\* getFreeBlock takes a listed block out of the list and nothing else.
LEMMA TakeFreeBlockKeepsPool ==
  ASSUME TypeOK, BlocksPartitioned, pc # "stopped",
         NEW d \in Blocks, TakeFreeBlock(d), UNCHANGED deadBlocks
  PROVE  /\ freeBlocks' \in Seq(Blocks)
         /\ nFreeBlocks' \in Nat
         /\ active' = active \cup {d}
         /\ \A b \in Blocks : Listed(b)' <=> Listed(b) /\ b # d
         /\ BlocksPartitioned'
<1>1. PICK at \in 1 .. Len(freeBlocks) :
         freeBlocks[at] = d /\ freeBlocks' = RemoveAt(freeBlocks, at)
  BY DEF TakeFreeBlock
<1> DEFINE n == Len(freeBlocks)
<1>2. /\ freeBlocks \in Seq(Blocks)
      /\ n \in Nat
      /\ nFreeBlocks = n
      /\ \A i, j \in 1 .. n : freeBlocks[i] = freeBlocks[j] => i = j
  BY DEF TypeOK, BlocksPartitioned
<1>3. /\ freeBlocks' \in Seq(Blocks)
      /\ Len(freeBlocks') = n - 1
      /\ \A j \in 1 .. n - 1 :
            freeBlocks'[j] = IF j < at THEN freeBlocks[j] ELSE freeBlocks[j + 1]
  BY <1>1, <1>2, RemoveAtProperties
<1>4. nFreeBlocks' = n - 1 /\ n - 1 \in Nat
  BY <1>1, <1>2 DEF TakeFreeBlock
<1>5. active' = active \cup {d}
  BY DEF TakeFreeBlock
<1> HIDE DEF n
<1>6. ASSUME NEW b \in Blocks PROVE Listed(b)' <=> Listed(b) /\ b # d
  <2>1. ASSUME Listed(b)' PROVE Listed(b) /\ b # d
    <3>1. PICK j \in 1 .. n - 1 : freeBlocks'[j] = b
      BY <2>1, <1>3 DEF Listed
    <3>2. PICK k \in 1 .. n : freeBlocks[k] = b /\ k # at
      BY <3>1, <1>1, <1>2, <1>3 DEF n
    <3> QED
      BY <3>2, <1>1, <1>2 DEF Listed, n
  <2>2. ASSUME Listed(b), b # d PROVE Listed(b)'
    <3>1. PICK k \in 1 .. n : freeBlocks[k] = b
      BY <2>2 DEF Listed, n
    <3>2. k # at
      BY <3>1, <2>2, <1>1
    <3>3. CASE k < at
      <4>1. k \in 1 .. n - 1 /\ freeBlocks'[k] = b
        BY <3>1, <3>3, <1>1, <1>2, <1>3 DEF n
      <4> QED
        BY <4>1, <1>3 DEF Listed
    <3>4. CASE k > at
      <4>1. k - 1 \in 1 .. n - 1 /\ freeBlocks'[k - 1] = b
        BY <3>1, <3>4, <1>1, <1>2, <1>3 DEF n
      <4> QED
        BY <4>1, <1>3 DEF Listed
    <3> QED
      BY <3>2, <3>3, <3>4, <1>1, <1>2 DEF n
  <2> QED
    BY <2>1, <2>2
<1>7. ASSUME NEW i \in 1 .. Len(freeBlocks'), NEW j \in 1 .. Len(freeBlocks'),
             freeBlocks'[i] = freeBlocks'[j]
      PROVE  i = j
  <2>1. i \in 1 .. n - 1 /\ j \in 1 .. n - 1
    BY <1>3
  <2>2. freeBlocks'[i] = IF i < at THEN freeBlocks[i] ELSE freeBlocks[i + 1]
    BY <1>3, <2>1
  <2>3. freeBlocks'[j] = IF j < at THEN freeBlocks[j] ELSE freeBlocks[j + 1]
    BY <1>3, <2>1
  <2>4. /\ (IF i < at THEN i ELSE i + 1) \in 1 .. n
        /\ (IF j < at THEN j ELSE j + 1) \in 1 .. n
    BY <2>1, <1>1, <1>2 DEF n
  <2>5. (IF i < at THEN i ELSE i + 1) = (IF j < at THEN j ELSE j + 1)
    BY <2>2, <2>3, <2>4, <1>2, <1>7
  <2> QED
    BY <2>1, <2>5, <1>1
<1>8. /\ \A b \in Blocks : b \in active \/ Listed(b) \/ b \in deadBlocks
      /\ \A b \in active : ~Listed(b) /\ b \notin deadBlocks
      /\ \A b \in deadBlocks : ~Listed(b)
      /\ active \subseteq Blocks /\ deadBlocks \subseteq Blocks
      /\ Listed(d)
  BY <1>1 DEF BlocksPartitioned, TypeOK, Listed
<1>9. /\ \A b \in Blocks : b \in active' \/ Listed(b)' \/ b \in deadBlocks'
      /\ \A b \in active' : ~Listed(b)' /\ b \notin deadBlocks'
      /\ \A b \in deadBlocks' : ~Listed(b)'
  BY <1>5, <1>6, <1>8
<1>10. BlocksPartitioned'
  BY <1>3, <1>4, <1>7, <1>9 DEF BlocksPartitioned
<1> QED
  BY <1>3, <1>4, <1>5, <1>6, <1>10

\* What an allocation and the Block::write calls behind it leave typed.
AllocationTyped ==
    /\ valid \subseteq Cells
    /\ erased \subseteq Cells
    /\ owner \in [Cells -> LPNs]
    /\ nextPage \in [Blocks -> [Units -> 0 .. PagesInBlock]]
    /\ active \subseteq Blocks
    /\ freeBlocks \in Seq(Blocks)
    /\ nFreeBlocks \in Nat
    /\ lastFreeBlock \in [Slots -> Blocks]
    /\ lastFreeBlockIndex \in Slots
    /\ lastFreeBlockIOMap \subseteq Units
    /\ bReclaimMore \in BOOLEAN

\* An allocation that is not refused hands out a block that is in use from
\* then on; the pool stays partitioned and its free blocks stay blank.
LEMMA AllocationKeepsPool ==
  ASSUME Inductive, pc # "stopped", NEW F \in SUBSET Units, NEW d \in Blocks,
         Target(F, d), Refusal(F, d) = "run", GetLastFreeBlock(F, d),
         UNCHANGED wear
  PROVE  /\ active' = active \cup {d}
         /\ \A b \in Blocks : Listed(b)' <=> Listed(b) /\ b # d
         /\ freeBlocks' \in Seq(Blocks)
         /\ nFreeBlocks' \in Nat
         /\ lastFreeBlock' \in [Slots -> Blocks]
         /\ lastFreeBlockIndex' \in Slots
         /\ lastFreeBlockIOMap' \subseteq Units
         /\ bReclaimMore' \in BOOLEAN
         /\ BlocksPartitioned'
<1> USE DEF Inductive
<1>1. OpenBlock(F) \in active /\ SlotFor(F) \in Slots
  BY SlotInRange DEF Refusal
<1>2. UNCHANGED deadBlocks
  BY DEF wear
<1>3. lastFreeBlockIndex' \in Slots /\ lastFreeBlockIOMap' \subseteq Units
  BY <1>1 DEF GetLastFreeBlock, IOMapFor, TypeOK
<1>4. CASE Opens(F)
  <2>1. /\ TakeFreeBlock(d)
        /\ lastFreeBlock' = [lastFreeBlock EXCEPT ![SlotFor(F)] = d]
        /\ bReclaimMore' = TRUE
    BY <1>4 DEF GetLastFreeBlock
  <2>2. lastFreeBlock' \in [Slots -> Blocks]
    BY <2>1, <1>1 DEF TypeOK
  <2> QED
    BY <1>2, <1>3, <2>1, <2>2, TakeFreeBlockKeepsPool
<1>5. CASE ~Opens(F)
  <2>1. UNCHANGED <<active, freeBlocks, nFreeBlocks, lastFreeBlock, bReclaimMore>>
    BY <1>5 DEF GetLastFreeBlock, pool
  <2>2. d \in active
    BY <1>1, <1>5 DEF Target
  <2>3. \A b \in Blocks : Listed(b)' <=> Listed(b) /\ b # d
    BY <2>1, <2>2 DEF BlocksPartitioned, Listed
  <2>4. BlocksPartitioned'
    BY <2>1, <1>2 DEF BlocksPartitioned, Listed
  <2> QED
    BY <1>3, <2>1, <2>2, <2>3, <2>4 DEF TypeOK
<1> QED
  BY <1>4, <1>5

\* Block::write programs erased cells only, so the cells it takes lie within
\* the block and hold nothing valid.
LEMMA NewCellsErased ==
  ASSUME TypeOK, WritePointers, NEW F \in SUBSET Units, NEW d \in Blocks,
         Refusal(F, d) = "run"
  PROVE  /\ NewCells(F, d) \subseteq Cells
         /\ NewCells(F, d) \subseteq erased
         /\ NewCells(F, d) \cap valid = {}
         /\ \A u \in F : nextPage[d][u] \in Pages
<1>1. NewCells(F, d) \subseteq erased /\ erased \subseteq Cells
  BY DEF Refusal, TypeOK
<1>2. ASSUME NEW u \in F
      PROVE  nextPage[d][u] \in Pages /\ <<d, nextPage[d][u], u>> \notin valid
  <2>1. <<d, nextPage[d][u], u>> \in Cells
    BY <1>1 DEF NewCells
  <2>2. nextPage[d][u] \in Pages
    BY <2>1 DEF Cells
  <2>3. nextPage[d][u] \in Nat
    BY <2>2, ParameterAssumption DEF Pages
  <2> QED
    BY <2>2, <2>3 DEF WritePointers
<1> QED
  BY <1>1, <1>2 DEF NewCells

\* A successful allocation followed by Block::write keeps every part of the
\* storage invariant.
LEMMA WriteKeepsBlocks ==
  ASSUME Inductive, pc # "stopped", NEW F \in SUBSET Units, NEW d \in Blocks,
         NEW gone, NEW lpnOf \in [Units -> LPNs],
         Target(F, d), Refusal(F, d) = "run", GetLastFreeBlock(F, d),
         WriteCells(F, d, gone, lpnOf), UNCHANGED wear
  PROVE  /\ AllocationTyped'
         /\ BlocksPartitioned'
         /\ WritePointers'
         /\ FreeBlocksBlank'
<1> USE DEF Inductive
<1> DEFINE New == NewCells(F, d)
<1>1. /\ New \subseteq Cells
      /\ New \subseteq erased
      /\ New \cap valid = {}
      /\ \A u \in F : nextPage[d][u] \in Pages
  BY NewCellsErased
<1>2. /\ valid' = (valid \ gone) \cup New
      /\ erased' = erased \ New
      /\ nextPage' = [nextPage EXCEPT ![d] =
                         [u \in Units |-> IF u \in F THEN nextPage[d][u] + 1
                                                     ELSE nextPage[d][u]]]
      /\ owner' = [c \in Cells |->
                      IF c \in New THEN lpnOf[c[3]]
                      ELSE IF IoUnitInPage = 1 \/ c \in valid' THEN owner[c]
                      ELSE 0]
  BY DEF WriteCells
<1>3. ASSUME NEW c \in New PROVE c[3] \in Units
  BY DEF NewCells
<1>4. valid' \subseteq Cells /\ erased' \subseteq Cells
  BY <1>1, <1>2 DEF TypeOK
<1>5. owner' \in [Cells -> LPNs]
  <2>1. ASSUME NEW c \in Cells PROVE owner'[c] \in LPNs
    BY <1>2, <1>3, Nonempty DEF TypeOK
  <2> HIDE DEF New
  <2> QED
    BY <1>2, <2>1
<1>6. /\ nextPage \in [Blocks -> [Units -> 0 .. PagesInBlock]]
      /\ \A b \in Blocks : \A u \in Units :
            nextPage'[b][u] = IF b = d /\ u \in F THEN nextPage[b][u] + 1
                                                  ELSE nextPage[b][u]
  BY <1>2 DEF TypeOK
<1>7. nextPage' \in [Blocks -> [Units -> 0 .. PagesInBlock]]
  <2>1. ASSUME NEW u \in Units
        PROVE  (IF u \in F THEN nextPage[d][u] + 1 ELSE nextPage[d][u])
                  \in 0 .. PagesInBlock
    BY <1>1, <1>6, ParameterAssumption DEF Pages
  <2>2. [u \in Units |-> IF u \in F THEN nextPage[d][u] + 1 ELSE nextPage[d][u]]
          \in [Units -> 0 .. PagesInBlock]
    BY <2>1
  <2> QED
    BY <1>2, <1>6, <2>2
<1>8. /\ active' = active \cup {d}
      /\ \A b \in Blocks : Listed(b)' <=> Listed(b) /\ b # d
      /\ freeBlocks' \in Seq(Blocks)
      /\ nFreeBlocks' \in Nat
      /\ lastFreeBlock' \in [Slots -> Blocks]
      /\ lastFreeBlockIndex' \in Slots
      /\ lastFreeBlockIOMap' \subseteq Units
      /\ bReclaimMore' \in BOOLEAN
      /\ BlocksPartitioned'
  BY AllocationKeepsPool
<1>9. AllocationTyped'
  BY <1>4, <1>5, <1>7, <1>8 DEF AllocationTyped, TypeOK
<1>10. WritePointers'
  <2> SUFFICES ASSUME NEW b \in Blocks, NEW p \in Pages, NEW u \in Units
               PROVE  /\ <<b, p, u>> \in erased' <=> p >= nextPage'[b][u]
                      /\ <<b, p, u>> \in valid' => p < nextPage'[b][u]
    BY DEF WritePointers
  <2>1. /\ <<b, p, u>> \in erased <=> p >= nextPage[b][u]
        /\ <<b, p, u>> \in valid => p < nextPage[b][u]
    BY DEF WritePointers
  <2>2. <<b, p, u>> \in New <=> b = d /\ u \in F /\ p = nextPage[d][u]
    BY DEF NewCells
  <2>3. p \in Int /\ nextPage[b][u] \in Int
    BY <1>6, ParameterAssumption DEF Pages
  <2>4. nextPage'[b][u] = IF b = d /\ u \in F THEN nextPage[b][u] + 1
                                              ELSE nextPage[b][u]
    BY <1>6
  <2> HIDE DEF New
  <2>5. <<b, p, u>> \in erased' <=> p >= nextPage'[b][u]
    BY <1>2, <2>1, <2>2, <2>3, <2>4
  <2>6. <<b, p, u>> \in valid' => p < nextPage'[b][u]
    BY <1>2, <2>1, <2>2, <2>3, <2>4
  <2> QED
    BY <2>5, <2>6
<1>11. FreeBlocksBlank'
  <2> SUFFICES ASSUME NEW b \in Blocks, Listed(b)', NEW u \in Units
               PROVE  nextPage'[b][u] = 0
    BY DEF FreeBlocksBlank
  <2>1. Listed(b) /\ b # d
    BY <1>8
  <2> QED
    BY <1>6, <2>1 DEF FreeBlocksBlank
<1> QED
  BY <1>8, <1>9, <1>10, <1>11

-----------------------------------------------------------------------------
(* The initial state and the steps *)

\* The state the constructor starts from: all blocks free, blank and listed
\* once, in the order applyInitialWear sorts them.
LEMMA InitInductive == Init => Inductive
<1> SUFFICES ASSUME Init PROVE Inductive
  OBVIOUS
<1>1. /\ freeBlocks \in [1 .. TotalBlocks -> Blocks]
      /\ eraseCount \in [Blocks -> Nat]
      /\ FreshOrder(freeBlocks, eraseCount)
      /\ TotalBlocks \in Nat
  BY ParameterAssumption DEF Init
<1>2. freeBlocks \in Seq(Blocks) /\ Len(freeBlocks) = TotalBlocks
  BY <1>1
<1>3. \A i, j \in 1 .. TotalBlocks : freeBlocks[i] = freeBlocks[j] => i = j
  <2> SUFFICES ASSUME NEW i \in 1 .. TotalBlocks, NEW j \in 1 .. TotalBlocks, i < j
               PROVE  freeBlocks[i] # freeBlocks[j]
    BY <1>1
  <2>1. freeBlocks[i] \in Int /\ freeBlocks[j] \in Int
    BY <1>1 DEF Blocks
  <2>2. eraseCount[freeBlocks[i]] \in Nat /\ eraseCount[freeBlocks[j]] \in Nat
    BY <1>1
  <2> QED
    BY <1>1, <2>1, <2>2 DEF FreshOrder
<1>4. TypeOK
  <2>1. /\ table \in [LPNs -> [Units -> Places]]
        /\ owner \in [Cells -> LPNs]
    BY Nonempty DEF Init, Places
  <2>2. nextPage \in [Blocks -> [Units -> 0 .. PagesInBlock]]
    BY ParameterAssumption DEF Init
  <2>3. 0 \in Blocks /\ lastFreeBlock \in [Slots -> Blocks]
    BY ParameterAssumption DEF Init, Blocks
  <2>4. page \in 0 .. PagesInBlock /\ nFreeBlocks \in Nat
    BY ParameterAssumption DEF Init
  <2>5. /\ present \subseteq LPNs /\ valid \subseteq Cells /\ erased \subseteq Cells
        /\ active \subseteq Blocks /\ deadBlocks \subseteq Blocks
        /\ lastFreeBlockIOMap \subseteq Units /\ bReclaimMore \in BOOLEAN
    BY DEF Init
  <2>6. /\ pc \in Locations /\ outcome \in Outcomes /\ victims \in Seq(Blocks)
        /\ loop \in Nat /\ vi \in Nat \ {0} /\ lastFreeBlockIndex \in Slots
    BY Nonempty DEF Init, Locations, Outcomes
  <2> QED
    BY <1>1, <1>2, <2>1, <2>2, <2>3, <2>4, <2>5, <2>6 DEF TypeOK
<1>5. BlocksPartitioned
  <2>1. \A b \in Blocks : Listed(b)
    BY <1>1, <1>2 DEF FreshOrder, Listed
  <2> QED
    BY <1>2, <1>3, <2>1 DEF Init, BlocksPartitioned
<1>6. WritePointers
  BY ParameterAssumption DEF Init, WritePointers, Cells, Pages
<1>7. FreeBlocksBlank
  BY DEF Init, FreeBlocksBlank
<1> QED
  BY <1>4, <1>5, <1>6, <1>7 DEF Inductive

\* The state that panic() and exit() freeze.
LEMMA StopKeeps ==
  ASSUME Inductive, NEW why \in Outcomes, Stop(why)
  PROVE  Inductive'
<1>1. /\ UNCHANGED <<present, table, valid, erased, owner, nextPage, active,
                     freeBlocks, nFreeBlocks, lastFreeBlock, bReclaimMore,
                     eraseCount, deadBlocks, lastFreeBlockIndex,
                     lastFreeBlockIOMap, loop, victims, vi, page>>
      /\ pc' = "stopped"
      /\ outcome' \in Outcomes
  BY DEF Stop, media, pool, wear, cursor
<1>2. TypeOK'
  BY <1>1 DEF Inductive, TypeOK, Locations
<1>3. WritePointers'
  BY <1>1 DEF Inductive, WritePointers
<1> QED
  BY <1>1, <1>2, <1>3 DEF Inductive, BlocksPartitioned, FreeBlocksBlank

\* A refused allocation ends the process in one of the listed ways.
LEMMA RefusalOutcome ==
  ASSUME NEW F, NEW d
  PROVE  Refusal(F, d) \in Outcomes
BY DEF Refusal, Outcomes, Panics

\* A step that changes nothing.
LEMMA StutterKeeps ==
  ASSUME Inductive, UNCHANGED vars
  PROVE  Inductive'
<1>1. UNCHANGED <<present, table, valid, erased, owner, nextPage, active,
                  freeBlocks, nFreeBlocks, lastFreeBlock, bReclaimMore,
                  eraseCount, deadBlocks, lastFreeBlockIndex,
                  lastFreeBlockIOMap, loop, victims, vi, page, pc, outcome>>
  BY DEF vars, media, pool, wear, cursor, control
<1>2. TypeOK'
  BY <1>1 DEF Inductive, TypeOK
<1>3. WritePointers'
  BY <1>1 DEF Inductive, WritePointers
<1>4. BlocksPartitioned'
  BY <1>1 DEF Inductive, BlocksPartitioned, Listed
<1>5. FreeBlocksBlank'
  BY <1>1 DEF Inductive, FreeBlocksBlank, Listed
<1> QED
  BY <1>2, <1>3, <1>4, <1>5 DEF Inductive

\* writeInternal up to its collection keeps the storage invariant.
LEMMA WriteUnitsKeeps ==
  ASSUME Inductive, pc # "stopped", NEW l \in LPNs, NEW F \in SUBSET Units,
         NEW d \in Blocks, Target(F, d), Refusal(F, d) = "run",
         WriteUnits(l, F, d)
  PROVE  /\ AllocationTyped'
         /\ BlocksPartitioned' /\ WritePointers' /\ FreeBlocksBlank'
         /\ table' \in [LPNs -> [Units -> Places]]
         /\ present' \subseteq LPNs
         /\ UNCHANGED wear
<1> DEFINE lpnOf == [u \in Units |-> l]
<1>1. /\ GetLastFreeBlock(F, d)
      /\ WriteCells(F, d, OldCells(l, F), lpnOf)
      /\ table' = [table EXCEPT ![l] = NewEntry(l, F, d)]
      /\ present' = present \cup {l}
      /\ UNCHANGED wear
  BY DEF WriteUnits
<1>2. lpnOf \in [Units -> LPNs]
  OBVIOUS
<1> HIDE DEF lpnOf
<1>3. AllocationTyped' /\ BlocksPartitioned' /\ WritePointers' /\ FreeBlocksBlank'
  BY <1>1, <1>2, WriteKeepsBlocks
<1>4. NewEntry(l, F, d) \in [Units -> Places]
  <2>1. \A u \in F : nextPage[d][u] \in Pages
    BY NewCellsErased DEF Inductive
  <2>2. ASSUME NEW u \in Units
        PROVE  (IF u \in F THEN <<d, nextPage[d][u]>> ELSE table[l][u]) \in Places
    BY <2>1 DEF Inductive, TypeOK, Places
  <2> QED
    BY <2>2 DEF NewEntry
<1> QED
  BY <1>1, <1>3, <1>4 DEF Inductive, TypeOK

\* The constructor's getFreeBlock calls keep the storage invariant.
LEMMA OpenSlotKeeps ==
  ASSUME Inductive, NEW d \in Blocks, OpenSlot(d)
  PROVE  Inductive'
<1>1. CASE d \in active
  BY <1>1, StopKeeps DEF OpenSlot, Outcomes, Panics
<1>2. CASE d \notin active
  <2>1. /\ TakeFreeBlock(d)
        /\ lastFreeBlock' = [lastFreeBlock EXCEPT ![loop] = d]
        /\ pc = "ctor"
        /\ \/ pc' = "warmup" /\ loop' = 0
           \/ pc' = pc /\ loop' = loop + 1
        /\ UNCHANGED <<media, wear, cursor, bReclaimMore, victims, vi, page, outcome>>
    BY <1>2 DEF OpenSlot
  <2>2. UNCHANGED <<present, table, valid, erased, owner, nextPage, eraseCount,
                    deadBlocks, lastFreeBlockIndex, lastFreeBlockIOMap>>
    BY <2>1 DEF media, wear, cursor
  <2>3. /\ freeBlocks' \in Seq(Blocks)
        /\ nFreeBlocks' \in Nat
        /\ active' = active \cup {d}
        /\ \A b \in Blocks : Listed(b)' <=> Listed(b) /\ b # d
        /\ BlocksPartitioned'
    BY <2>1, <2>2, TakeFreeBlockKeepsPool DEF Inductive
  <2>4. lastFreeBlock' \in [Slots -> Blocks]
    BY <2>1 DEF Inductive, TypeOK
  <2>5. TypeOK'
    BY <2>1, <2>2, <2>3, <2>4, SMTT(20) DEF Inductive, TypeOK, Locations
  <2>6. WritePointers'
    BY <2>2 DEF Inductive, WritePointers
  <2>7. FreeBlocksBlank'
    BY <2>1, <2>2, <2>3 DEF Inductive, FreeBlocksBlank
  <2> QED
    BY <2>3, <2>5, <2>6, <2>7 DEF Inductive
<1> QED
  BY <1>1, <1>2

\* The writes of initialize() keep the storage invariant.
LEMMA InitialWriteKeeps ==
  ASSUME Inductive, pc # "stopped", NEW l \in LPNs, NEW d \in Blocks,
         InitialWrite(l, d)
  PROVE  Inductive'
<1>1. CASE Refusal(Units, d) # "run"
  BY <1>1, RefusalOutcome, StopKeeps DEF InitialWrite
<1>2. CASE Refusal(Units, d) = "run"
  <2>1. /\ Target(Units, d) /\ WriteUnits(l, Units, d)
        /\ loop' = loop + 1
        /\ \/ pc' = "stopped" /\ outcome' = "initgc"
           \/ UNCHANGED <<pc, outcome>>
        /\ UNCHANGED <<victims, vi, page>>
    BY <1>2 DEF InitialWrite
  <2>2. /\ AllocationTyped'
        /\ BlocksPartitioned' /\ WritePointers' /\ FreeBlocksBlank'
        /\ table' \in [LPNs -> [Units -> Places]]
        /\ present' \subseteq LPNs
        /\ UNCHANGED wear
    BY <1>2, <2>1, WriteUnitsKeeps
  <2>3. TypeOK'
    BY <2>1, <2>2, SMTT(20) DEF Inductive, TypeOK, AllocationTyped, wear, Locations, Outcomes, Panics
  <2> QED
    BY <2>2, <2>3 DEF Inductive
<1> QED
  BY <1>1, <1>2

\* A host write keeps the storage invariant.
LEMMA WriteKeeps ==
  ASSUME Inductive, NEW l \in LPNs, NEW F \in SUBSET Units, NEW d \in Blocks,
         Write(l, F, d)
  PROVE  Inductive'
<1>0. pc # "stopped"
  BY DEF Write
<1>1. CASE Refusal(F, d) # "run"
  BY <1>1, RefusalOutcome, StopKeeps DEF Write
<1>2. CASE Refusal(F, d) = "run"
  <2>1. /\ Target(F, d) /\ WriteUnits(l, F, d)
        /\ pc' \in {"select", "idle"}
        /\ UNCHANGED <<loop, victims, vi, page, outcome>>
    BY <1>2 DEF Write
  <2>2. /\ AllocationTyped'
        /\ BlocksPartitioned' /\ WritePointers' /\ FreeBlocksBlank'
        /\ table' \in [LPNs -> [Units -> Places]]
        /\ present' \subseteq LPNs
        /\ UNCHANGED wear
    BY <1>0, <1>2, <2>1, WriteUnitsKeeps
  <2>3. TypeOK'
    BY <2>1, <2>2 DEF Inductive, TypeOK, AllocationTyped, wear, Locations
  <2> QED
    BY <2>2, <2>3 DEF Inductive
<1> QED
  BY <1>1, <1>2

\* The ends of the loops of initialize() keep the storage invariant.
LEMMA InitializeNextKeeps ==
  ASSUME Inductive, InitializeNext
  PROVE  Inductive'
<1>1. /\ pc # "stopped" /\ pc' \in Locations /\ loop' = 0
      /\ UNCHANGED <<present, table, valid, erased, owner, nextPage, active,
                     freeBlocks, nFreeBlocks, lastFreeBlock, bReclaimMore,
                     eraseCount, deadBlocks, lastFreeBlockIndex,
                     lastFreeBlockIOMap, victims, vi, page, outcome>>
  BY DEF InitializeNext, media, pool, wear, cursor, Locations
<1>2. TypeOK'
  BY <1>1 DEF Inductive, TypeOK
<1>3. WritePointers'
  BY <1>1 DEF Inductive, WritePointers
<1>4. BlocksPartitioned'
  BY <1>1 DEF Inductive, BlocksPartitioned, Listed
<1>5. FreeBlocksBlank'
  BY <1>1 DEF Inductive, FreeBlocksBlank, Listed
<1> QED
  BY <1>2, <1>3, <1>4, <1>5 DEF Inductive

\* Dropping entries (trim, format) keeps the storage invariant.
LEMMA DropEntriesKeeps ==
  ASSUME Inductive, pc # "stopped", NEW L, DropEntries(L),
         UNCHANGED <<pool, wear, cursor>>
  PROVE  /\ AllocationTyped'
         /\ BlocksPartitioned' /\ WritePointers' /\ FreeBlocksBlank'
         /\ table' \in [LPNs -> [Units -> Places]]
         /\ present' \subseteq LPNs
<1> DEFINE gone == {CellOf(x[1], x[2]) : x \in L \X Units}
<1>1. /\ valid' = valid \ gone
      /\ owner' = [c \in Cells |->
                      IF IoUnitInPage = 1 \/ c \in valid' THEN owner[c] ELSE 0]
      /\ UNCHANGED <<erased, nextPage>>
      /\ table' = [l \in LPNs |-> IF l \in L THEN [u \in Units |-> Unset]
                                             ELSE table[l]]
      /\ present' = present \ L
  BY DEF DropEntries, InvalidateCells
<1> HIDE DEF gone
<1>2. UNCHANGED <<active, freeBlocks, nFreeBlocks, lastFreeBlock, bReclaimMore,
                  eraseCount, deadBlocks, lastFreeBlockIndex, lastFreeBlockIOMap>>
  BY DEF pool, wear, cursor
<1>3. owner' \in [Cells -> LPNs]
  BY <1>1, Nonempty DEF Inductive, TypeOK
<1>4. table' \in [LPNs -> [Units -> Places]]
  BY <1>1 DEF Inductive, TypeOK, Places
<1>5. AllocationTyped'
  BY <1>1, <1>2, <1>3 DEF Inductive, TypeOK, AllocationTyped
<1>6. BlocksPartitioned'
  BY <1>2 DEF Inductive, BlocksPartitioned, Listed
<1>7. WritePointers'
  BY <1>1 DEF Inductive, WritePointers
<1>8. FreeBlocksBlank'
  BY <1>1, <1>2 DEF Inductive, FreeBlocksBlank, Listed
<1> QED
  BY <1>1, <1>4, <1>5, <1>6, <1>7, <1>8 DEF Inductive, TypeOK

\* A host read keeps the storage invariant.
LEMMA ReadKeeps ==
  ASSUME Inductive, NEW l \in LPNs, Read(l)
  PROVE  Inductive'
<1>1. Stop("notinuse") \/ UNCHANGED vars
  BY DEF Read
<1> QED
  BY <1>1, StopKeeps, StutterKeeps DEF Outcomes, Panics

\* A host trim keeps the storage invariant.
LEMMA TrimKeeps ==
  ASSUME Inductive, NEW l \in LPNs, Trim(l)
  PROVE  Inductive'
<1>1. CASE ~AllInUse({l})
  BY <1>1, StopKeeps DEF Trim, Outcomes, Panics
<1>2. CASE AllInUse({l})
  <2>1. DropEntries({l}) /\ UNCHANGED <<pool, wear, cursor, control>> /\ pc # "stopped"
    BY <1>2 DEF Trim
  <2>2. /\ AllocationTyped'
        /\ BlocksPartitioned' /\ WritePointers' /\ FreeBlocksBlank'
        /\ table' \in [LPNs -> [Units -> Places]]
        /\ present' \subseteq LPNs
    BY <2>1, DropEntriesKeeps
  <2>3. TypeOK'
    BY <2>1, <2>2 DEF Inductive, TypeOK, AllocationTyped, wear, control
  <2> QED
    BY <2>2, <2>3 DEF Inductive
<1> QED
  BY <1>1, <1>2

\* The lists a collection works on are sequences.
LEMMA ListsAreSequences ==
  ASSUME NEW S, NEW list \in Lists(S)
  PROVE  list \in Seq(S)
<1>1. PICK n \in 0 .. TotalBlocks : list \in [1 .. n -> S]
  BY DEF Lists
<1>2. n \in Nat
  BY <1>1, ParameterAssumption
<1> QED
  BY <1>1, <1>2

\* A host format keeps the storage invariant.
LEMMA FormatKeeps ==
  ASSUME Inductive, NEW lo \in LPNs, NEW hi \in LPNs, Format(lo, hi)
  PROVE  Inductive'
<1> DEFINE L == {l \in present : lo <= l /\ l <= hi}
<1>1. CASE ~AllInUse(L)
  BY <1>1, StopKeeps DEF Format, Outcomes, Panics
<1>2. CASE AllInUse(L)
  <2>1. /\ DropEntries(L)
        /\ victims' \in Lists(HeldBy(L))
        /\ pc # "stopped" /\ pc' = "copy" /\ vi' = 1 /\ page' = 0
        /\ UNCHANGED <<pool, wear, cursor, loop, outcome>>
    BY <1>2 DEF Format
  <2>2. HeldBy(L) \subseteq Blocks
    BY <1>2 DEF HeldBy, AllInUse, Inductive, TypeOK
  <2>3. L \subseteq LPNs
    BY DEF Inductive, TypeOK
  <2> HIDE DEF L
  <2>4. /\ AllocationTyped'
        /\ BlocksPartitioned' /\ WritePointers' /\ FreeBlocksBlank'
        /\ table' \in [LPNs -> [Units -> Places]]
        /\ present' \subseteq LPNs
    BY <2>1, DropEntriesKeeps
  <2>5. victims' \in Seq(Blocks)
    BY <2>1, <2>2, ListsAreSequences
  <2>6. page' \in 0 .. PagesInBlock
    BY <2>1, ParameterAssumption
  <2>7. TypeOK'
    BY <2>1, <2>4, <2>5, <2>6, SMTT(20) DEF Inductive, TypeOK, AllocationTyped, wear, Locations
  <2> QED
    BY <2>4, <2>7 DEF Inductive
<1> QED
  BY <1>1, <1>2

\* selectVictimBlock keeps the storage invariant.
LEMMA SelectKeeps ==
  ASSUME Inductive, NEW list \in Lists(Candidates), SelectVictimBlock(list)
  PROVE  Inductive'
<1>1. /\ victims' = list
      /\ bReclaimMore' \in BOOLEAN
      /\ pc # "stopped" /\ pc' \in Locations /\ vi' = 1 /\ page' = 0
      /\ UNCHANGED <<present, table, valid, erased, owner, nextPage, active,
                     freeBlocks, nFreeBlocks, lastFreeBlock, eraseCount,
                     deadBlocks, lastFreeBlockIndex, lastFreeBlockIOMap, loop,
                     outcome>>
  BY DEF SelectVictimBlock, AfterSelect, Locations, media, wear, cursor
<1>2. list \in Seq(Blocks)
  BY ListsAreSequences DEF Candidates, Inductive, TypeOK
<1>3. 0 \in 0 .. PagesInBlock
  BY ParameterAssumption
<1>4. TypeOK'
  BY <1>1, <1>2, <1>3 DEF Inductive, TypeOK
<1>5. WritePointers'
  BY <1>1 DEF Inductive, WritePointers
<1>6. BlocksPartitioned'
  BY <1>1 DEF Inductive, BlocksPartitioned, Listed
<1>7. FreeBlocksBlank'
  BY <1>1 DEF Inductive, FreeBlocksBlank, Listed
<1> QED
  BY <1>4, <1>5, <1>6, <1>7 DEF Inductive

\* getPageInfo reports units.
LEMMA PageInfoUnits ==
  ASSUME NEW b, NEW p
  PROVE  PageInfo(b, p) \in SUBSET Units
BY DEF PageInfo

\* One iteration of the copy loop keeps the storage invariant.
LEMMA CopyPageKeeps ==
  ASSUME Inductive, NEW i \in 1 .. Len(victims), NEW p \in Pages,
         NEW d \in Blocks, CopyPage(i, p, d)
  PROVE  Inductive'
<1> DEFINE b == victims[i]
           F == PageInfo(b, p)
           lpnOf == [u \in Units |-> owner[<<b, p, u>>]]
           gone == {<<b, p, u>> : u \in F}
<1>1. /\ b \in Blocks
      /\ F \in SUBSET Units
      /\ pc = "copy"
  BY PageInfoUnits DEF Inductive, TypeOK, CopyPage
<1>2. CASE Stop(Refusal(F, d)) \/ Stop("nomapping")
  BY <1>2, RefusalOutcome, StopKeeps DEF Outcomes, Panics
<1>3. CASE ~(Stop(Refusal(F, d)) \/ Stop("nomapping"))
  <2>1. /\ Target(F, d)
        /\ Refusal(F, d) = "run"
        /\ GetLastFreeBlock(F, d)
        /\ WriteCells(F, d, gone, lpnOf)
        /\ table' = [l \in LPNs |-> [u \in Units |->
                        IF u \in F /\ owner[<<b, p, u>>] = l
                        THEN <<d, nextPage[d][u]>> ELSE table[l][u]]]
        /\ vi' = i
        /\ page' = p + 1
        /\ UNCHANGED <<present, wear, pc, loop, victims, outcome>>
    BY <1>3 DEF CopyPage
  <2>2. lpnOf \in [Units -> LPNs]
    BY <1>1 DEF Inductive, TypeOK, Cells
  <2>3. \A u \in F : nextPage[d][u] \in Pages
    BY <1>1, <2>1, NewCellsErased DEF Inductive
  <2> HIDE DEF b, F, lpnOf, gone
  <2>4. AllocationTyped' /\ BlocksPartitioned' /\ WritePointers' /\ FreeBlocksBlank'
    BY <1>1, <2>1, <2>2, WriteKeepsBlocks
  <2>5. table' \in [LPNs -> [Units -> Places]]
    <3>1. ASSUME NEW l \in LPNs, NEW u \in Units
          PROVE  (IF u \in F /\ owner[<<b, p, u>>] = l
                  THEN <<d, nextPage[d][u]>> ELSE table[l][u]) \in Places
      BY <2>3, SMTT(20) DEF Inductive, TypeOK, Places
    <3> QED
      BY <2>1, <3>1
  <2>6. page' \in 0 .. PagesInBlock /\ vi' \in Nat \ {0}
    BY <2>1, ParameterAssumption DEF Pages, Inductive, TypeOK
  <2>7. TypeOK'
    BY <2>1, <2>4, <2>5, <2>6 DEF Inductive, TypeOK, AllocationTyped, wear
  <2> QED
    BY <2>4, <2>7 DEF Inductive
<1> QED
  BY <1>2, <1>3

\* The end of the copy loop keeps the storage invariant.
LEMMA CopyDoneKeeps ==
  ASSUME Inductive, CopyDone
  PROVE  Inductive'
<1>1. /\ pc # "stopped" /\ pc' \in Locations /\ vi' = 1 /\ page' = 0
      /\ UNCHANGED <<present, table, valid, erased, owner, nextPage, active,
                     freeBlocks, nFreeBlocks, lastFreeBlock, bReclaimMore,
                     eraseCount, deadBlocks, lastFreeBlockIndex,
                     lastFreeBlockIOMap, loop, victims, outcome>>
  BY DEF CopyDone, media, pool, wear, cursor, Locations
<1>2. 0 \in 0 .. PagesInBlock
  BY ParameterAssumption
<1>3. TypeOK'
  BY <1>1, <1>2 DEF Inductive, TypeOK
<1>4. WritePointers'
  BY <1>1 DEF Inductive, WritePointers
<1>5. BlocksPartitioned'
  BY <1>1 DEF Inductive, BlocksPartitioned, Listed
<1>6. FreeBlocksBlank'
  BY <1>1 DEF Inductive, FreeBlocksBlank, Listed
<1> QED
  BY <1>3, <1>4, <1>5, <1>6 DEF Inductive

\* Putting an unlisted block back into the list.
LEMMA InsertListed ==
  ASSUME freeBlocks \in Seq(Blocks), NEW b \in Blocks, ~Listed(b),
         \A i, j \in 1 .. Len(freeBlocks) : freeBlocks[i] = freeBlocks[j] => i = j,
         NEW at \in 1 .. Len(freeBlocks) + 1,
         freeBlocks' = InsertAt(freeBlocks, at, b)
  PROVE  /\ freeBlocks' \in Seq(Blocks)
         /\ Len(freeBlocks') = Len(freeBlocks) + 1
         /\ \A x \in Blocks : Listed(x)' <=> Listed(x) \/ x = b
         /\ \A i, j \in 1 .. Len(freeBlocks') :
               freeBlocks'[i] = freeBlocks'[j] => i = j
<1> DEFINE n == Len(freeBlocks)
<1>1. n \in Nat
  OBVIOUS
<1>2. /\ freeBlocks' \in Seq(Blocks)
      /\ Len(freeBlocks') = n + 1
      /\ \A j \in 1 .. n + 1 :
            freeBlocks'[j] = IF j < at THEN freeBlocks[j]
                             ELSE IF j = at THEN b ELSE freeBlocks[j - 1]
  <2> DEFINE fb == freeBlocks
  <2>1. fb \in Seq(Blocks) /\ at \in 1 .. Len(fb) + 1
    OBVIOUS
  <2> HIDE DEF fb
  <2>2. /\ InsertAt(fb, at, b) \in Seq(Blocks)
        /\ Len(InsertAt(fb, at, b)) = Len(fb) + 1
        /\ \A j \in 1 .. Len(fb) + 1 :
              InsertAt(fb, at, b)[j] = IF j < at THEN fb[j]
                                       ELSE IF j = at THEN b ELSE fb[j - 1]
    BY <2>1, InsertAtProperties
  <2> QED
    BY <2>2 DEF fb
<1>3. ASSUME NEW x \in Blocks PROVE Listed(x)' <=> Listed(x) \/ x = b
  <2>1. ASSUME Listed(x)' PROVE Listed(x) \/ x = b
    <3>1. PICK j \in 1 .. n + 1 : freeBlocks'[j] = x
      BY <2>1, <1>2 DEF Listed
    <3>2. CASE j < at
      <4>1. j \in 1 .. n /\ freeBlocks[j] = x
        BY <3>1, <3>2, <1>1, <1>2
      <4> QED
        BY <4>1 DEF Listed
    <3>3. CASE j = at
      BY <3>1, <3>3, <1>2
    <3>4. CASE j > at
      <4>1. j - 1 \in 1 .. n /\ freeBlocks[j - 1] = x
        BY <3>1, <3>4, <1>1, <1>2
      <4> QED
        BY <4>1 DEF Listed
    <3> QED
      BY <3>2, <3>3, <3>4
  <2>2. ASSUME Listed(x) PROVE Listed(x)'
    <3>1. PICK k \in 1 .. n : freeBlocks[k] = x
      BY <2>2 DEF Listed
    <3>2. CASE k < at
      <4>1. k \in 1 .. n + 1 /\ freeBlocks'[k] = x
        BY <3>1, <3>2, <1>1, <1>2
      <4> QED
        BY <4>1, <1>2 DEF Listed
    <3>3. CASE k >= at
      <4>1. k + 1 \in 1 .. n + 1 /\ freeBlocks'[k + 1] = x
        BY <3>1, <3>3, <1>1, <1>2
      <4> QED
        BY <4>1, <1>2 DEF Listed
    <3> QED
      BY <3>2, <3>3
  <2>3. Listed(b)'
    BY <1>1, <1>2 DEF Listed
  <2> QED
    BY <2>1, <2>2, <2>3
<1>4. ASSUME NEW i \in 1 .. Len(freeBlocks'), NEW j \in 1 .. Len(freeBlocks'),
             freeBlocks'[i] = freeBlocks'[j]
      PROVE  i = j
  <2>1. \A k \in 1 .. n : freeBlocks[k] # b
    BY DEF Listed
  <2>2. i \in 1 .. n + 1 /\ j \in 1 .. n + 1
    BY <1>2
  <2>3. CASE i = at \/ j = at
    <3>1. ASSUME NEW k \in 1 .. n + 1, k # at PROVE freeBlocks'[k] # b
      <4>1. CASE k < at
        BY <2>1, <3>1, <4>1, <1>1, <1>2
      <4>2. CASE k > at
        BY <2>1, <3>1, <4>2, <1>1, <1>2
      <4> QED
        BY <3>1, <4>1, <4>2, <1>1
    <3>2. freeBlocks'[at] = b
      BY <1>1, <1>2
    <3> QED
      BY <2>2, <2>3, <3>1, <3>2, <1>4
  <2>4. CASE i # at /\ j # at
    <3>1. /\ (IF i < at THEN i ELSE i - 1) \in 1 .. n
          /\ (IF j < at THEN j ELSE j - 1) \in 1 .. n
          /\ freeBlocks[IF i < at THEN i ELSE i - 1]
               = freeBlocks[IF j < at THEN j ELSE j - 1]
      BY <2>2, <2>4, <1>1, <1>2, <1>4
    <3>2. (IF i < at THEN i ELSE i - 1) = (IF j < at THEN j ELSE j - 1)
      BY <3>1
    <3> QED
      BY <3>2, <2>2, <2>4
  <2> QED
    BY <2>3, <2>4
<1> QED
  BY <1>2, <1>3, <1>4

\* eraseInternal keeps the storage invariant: the block leaves blocks for the
\* free list or for the retired ones, blank.
LEMMA EraseInternalKeeps ==
  ASSUME Inductive, EraseInternal
  PROVE  Inductive'
<1> DEFINE b == victims[vi]
           ec == eraseCount[b] + 1
<1>1. CASE b \notin active \/ valid \cap CellsOf(b) # {}
  BY <1>1, StopKeeps DEF EraseInternal, Outcomes, Panics
<1>2. CASE ~(b \notin active \/ valid \cap CellsOf(b) # {})
  <2>1. /\ b \in active /\ valid \cap CellsOf(b) = {}
        /\ pc = "erase"
        /\ eraseCount' = [eraseCount EXCEPT ![b] = ec]
        /\ erased' = erased \cup CellsOf(b)
        /\ nextPage' = [nextPage EXCEPT ![b] = [u \in Units |-> 0]]
        /\ \/ /\ \E at \in 1 .. Len(freeBlocks) + 1 :
                    freeBlocks' = InsertAt(freeBlocks, at, b)
              /\ nFreeBlocks' = nFreeBlocks + 1
              /\ deadBlocks' = deadBlocks
              /\ active' = active \ {b}
           \/ /\ freeBlocks' = freeBlocks
              /\ nFreeBlocks' = nFreeBlocks
              /\ deadBlocks' = deadBlocks \cup {b}
              /\ active' \in {active, active \ {b}}
              /\ pc' # "stopped" => active' = active \ {b}
        /\ pc' \in Locations /\ outcome' \in Outcomes
        /\ vi' \in {1, vi, vi + 1} /\ victims' \in {<< >>, victims}
        /\ UNCHANGED <<present, table, valid, owner, lastFreeBlock,
                       bReclaimMore, loop, page, lastFreeBlockIndex,
                       lastFreeBlockIOMap>>
    <3>1. /\ b \in active /\ valid \cap CellsOf(b) = {}
          /\ pc = "erase"
          /\ eraseCount' = [eraseCount EXCEPT ![b] = ec]
          /\ erased' = erased \cup CellsOf(b)
          /\ nextPage' = [nextPage EXCEPT ![b] = [u \in Units |-> 0]]
          /\ UNCHANGED <<present, table, valid, owner, lastFreeBlock,
                         bReclaimMore, loop, page, lastFreeBlockIndex,
                         lastFreeBlockIOMap>>
      BY <1>2 DEF EraseInternal, ErasedPointers, cursor
    <3>2. CASE Survives(ec)
      <4>1. /\ \E at \in 1 .. Len(freeBlocks) + 1 :
                  freeBlocks' = InsertAt(freeBlocks, at, b)
            /\ nFreeBlocks' = nFreeBlocks + 1
            /\ deadBlocks' = deadBlocks
        BY <1>2, <3>2 DEF EraseInternal
      <4>2. /\ active' = active \ {b}
            /\ \/ pc' = "idle" /\ victims' = << >> /\ vi' = 1
               \/ pc' = pc /\ victims' = victims /\ vi' = vi + 1
            /\ outcome' = outcome
        BY <1>2, <3>2 DEF EraseInternal
      <4>3. pc' \in Locations /\ outcome' \in Outcomes
        BY <4>2 DEF Inductive, TypeOK, Locations
      <4> QED
        BY <3>1, <4>1, <4>2, <4>3
    <3>3. CASE ~Survives(ec)
      <4>1. /\ freeBlocks' = freeBlocks
            /\ nFreeBlocks' = nFreeBlocks
            /\ deadBlocks' = deadBlocks \cup {b}
        BY <1>2, <3>3 DEF EraseInternal
      <4>2. \/ /\ pc' = "stopped" /\ outcome' = "firstdeath"
               /\ active' = active /\ vi' = vi /\ victims' = victims
            \/ /\ active' = active \ {b}
               /\ \/ pc' = "idle" /\ victims' = << >> /\ vi' = 1
                  \/ pc' = pc /\ victims' = victims /\ vi' = vi + 1
               /\ outcome' = outcome
        BY <1>2, <3>3 DEF EraseInternal
      <4>3. pc' \in Locations /\ outcome' \in Outcomes
        BY <4>2 DEF Inductive, TypeOK, Locations, Outcomes
      <4> QED
        BY <3>1, <4>1, <4>2, <4>3
    <3> QED
      BY <3>2, <3>3
  <2>2. /\ b \in Blocks /\ ~Listed(b) /\ b \notin deadBlocks
        /\ eraseCount[b] \in Nat /\ ec \in Nat
        /\ freeBlocks \in Seq(Blocks) /\ nFreeBlocks = Len(freeBlocks)
        /\ \A i, j \in 1 .. Len(freeBlocks) : freeBlocks[i] = freeBlocks[j] => i = j
        /\ active \subseteq Blocks /\ deadBlocks \subseteq Blocks
        /\ nFreeBlocks \in Nat
    BY <2>1 DEF Inductive, TypeOK, BlocksPartitioned
  <2>3. CellsOf(b) \subseteq Cells
    BY DEF CellsOf
  <2>4. \A p \in Pages : \A u \in Units : \A x \in Blocks :
           <<x, p, u>> \in CellsOf(b) <=> x = b
    BY DEF CellsOf, Cells
  <2> HIDE DEF b, ec
  <2>5. nextPage' \in [Blocks -> [Units -> 0 .. PagesInBlock]]
    <3>1. [u \in Units |-> 0] \in [Units -> 0 .. PagesInBlock]
      BY ParameterAssumption
    <3> QED
      BY <2>1, <3>1 DEF Inductive, TypeOK
  <2>6. /\ freeBlocks' \in Seq(Blocks)
        /\ nFreeBlocks' = Len(freeBlocks')
        /\ \A i, j \in 1 .. Len(freeBlocks') :
              freeBlocks'[i] = freeBlocks'[j] => i = j
        /\ \/ /\ \A x \in Blocks : Listed(x)' <=> Listed(x) \/ x = b
              /\ deadBlocks' = deadBlocks
              /\ active' = active \ {b}
           \/ /\ \A x \in Blocks : Listed(x)' <=> Listed(x)
              /\ deadBlocks' = deadBlocks \cup {b}
              /\ active' \in {active, active \ {b}}
              /\ pc' # "stopped" => active' = active \ {b}
    <3>1. CASE /\ \E at \in 1 .. Len(freeBlocks) + 1 :
                    freeBlocks' = InsertAt(freeBlocks, at, b)
               /\ nFreeBlocks' = nFreeBlocks + 1
               /\ deadBlocks' = deadBlocks
               /\ active' = active \ {b}
      BY <2>2, <3>1, InsertListed
    <3>2. CASE /\ freeBlocks' = freeBlocks
               /\ nFreeBlocks' = nFreeBlocks
               /\ deadBlocks' = deadBlocks \cup {b}
               /\ active' \in {active, active \ {b}}
               /\ pc' # "stopped" => active' = active \ {b}
      BY <2>2, <3>2 DEF Listed
    <3> QED
      BY <2>1, <3>1, <3>2
  <2>7. /\ nFreeBlocks' \in Nat /\ active' \subseteq Blocks
        /\ deadBlocks' \subseteq Blocks
    BY <2>2, <2>6
  <2>8. BlocksPartitioned'
    <3> SUFFICES ASSUME pc' # "stopped" PROVE BlocksPartitioned'
      BY DEF BlocksPartitioned
    <3>1. /\ \A x \in Blocks : x \in active \/ Listed(x) \/ x \in deadBlocks
          /\ \A x \in active : ~Listed(x) /\ x \notin deadBlocks
          /\ \A x \in deadBlocks : ~Listed(x)
      BY <2>1 DEF Inductive, BlocksPartitioned
    <3>2. /\ \A x \in Blocks : x \in active' \/ Listed(x)' \/ x \in deadBlocks'
          /\ \A x \in active' : ~Listed(x)' /\ x \notin deadBlocks'
          /\ \A x \in deadBlocks' : ~Listed(x)'
      BY <2>2, <2>6, <3>1
    <3> QED
      BY <2>6, <3>2 DEF BlocksPartitioned
  <2>9. WritePointers'
    <3> SUFFICES ASSUME NEW x \in Blocks, NEW p \in Pages, NEW u \in Units
                 PROVE  /\ <<x, p, u>> \in erased' <=> p >= nextPage'[x][u]
                        /\ <<x, p, u>> \in valid' => p < nextPage'[x][u]
      BY DEF WritePointers
    <3>1. /\ <<x, p, u>> \in erased <=> p >= nextPage[x][u]
          /\ <<x, p, u>> \in valid => p < nextPage[x][u]
      BY DEF Inductive, WritePointers
    <3>2. nextPage'[x][u] = IF x = b THEN 0 ELSE nextPage[x][u]
      BY <2>1, <2>2 DEF Inductive, TypeOK
    <3>3. /\ <<x, p, u>> \in erased' <=> <<x, p, u>> \in erased \/ x = b
          /\ <<x, p, u>> \in valid' <=> <<x, p, u>> \in valid
          /\ x = b => <<x, p, u>> \notin valid
      BY <2>1, <2>4
    <3>4. p \in Nat
      BY ParameterAssumption DEF Pages
    <3> QED
      BY <3>1, <3>2, <3>3, <3>4
  <2>10. FreeBlocksBlank'
    <3> SUFFICES ASSUME NEW x \in Blocks, Listed(x)', NEW u \in Units
                 PROVE  nextPage'[x][u] = 0
      BY DEF FreeBlocksBlank
    <3>1. nextPage'[x][u] = IF x = b THEN 0 ELSE nextPage[x][u]
      BY <2>1, <2>2 DEF Inductive, TypeOK
    <3>2. Listed(x) \/ x = b
      BY <2>6
    <3> QED
      BY <2>1, <3>1, <3>2 DEF Inductive, FreeBlocksBlank
  <2>11. /\ eraseCount' \in [Blocks -> Nat]
         /\ erased' \subseteq Cells
         /\ vi' \in Nat \ {0}
         /\ victims' \in Seq(Blocks)
    <3>1. eraseCount' \in [Blocks -> Nat]
      BY <2>1, <2>2 DEF Inductive, TypeOK
    <3>2. erased' \subseteq Cells
      BY <2>1, <2>3 DEF Inductive, TypeOK
    <3>3. vi' \in Nat \ {0}
      BY <2>1 DEF Inductive, TypeOK
    <3>4. victims' \in Seq(Blocks)
      <4>1. << >> \in Seq(Blocks) /\ victims \in Seq(Blocks)
        BY DEF Inductive, TypeOK
      <4>2. victims' = << >> \/ victims' = victims
        BY <2>1, Zenon
      <4> QED
        BY <4>1, <4>2, Zenon
    <3> QED
      BY <3>1, <3>2, <3>3, <3>4
  <2>12. TypeOK'
    BY <2>1, <2>5, <2>6, <2>7, <2>11 DEF Inductive, TypeOK
  <2> QED
    BY <2>8, <2>9, <2>10, <2>12 DEF Inductive
<1> QED
  BY <1>1, <1>2

\* Every step keeps the storage invariant.
LEMMA NextKeeps ==
  ASSUME Inductive, [Next]_vars
  PROVE  Inductive'
<1>1. ASSUME NEW d \in Blocks, OpenSlot(d) PROVE Inductive'
  BY <1>1, OpenSlotKeeps
<1>2. ASSUME NEW l \in LPNs, NEW d \in Blocks, Warmup(l, d) \/ Invalidation(l, d)
      PROVE  Inductive'
  <2>1. InitialWrite(l, d) /\ pc # "stopped"
    BY <1>2 DEF Warmup, Invalidation
  <2> QED
    BY <2>1, InitialWriteKeeps
<1>3. CASE InitializeNext
  BY <1>3, InitializeNextKeeps
<1>4. ASSUME NEW l \in LPNs, Read(l) \/ Trim(l) PROVE Inductive'
  BY <1>4, ReadKeeps, TrimKeeps
<1>5. ASSUME NEW l \in LPNs, NEW F \in Flags, NEW d \in Blocks, Write(l, F, d)
      PROVE  Inductive'
  <2>1. F \in SUBSET Units
    BY DEF Flags
  <2> QED
    BY <1>5, <2>1, WriteKeeps
<1>6. ASSUME NEW lo \in LPNs, NEW hi \in LPNs, Format(lo, hi) PROVE Inductive'
  BY <1>6, FormatKeeps
<1>7. ASSUME NEW list \in Lists(Candidates), SelectVictimBlock(list)
      PROVE  Inductive'
  BY <1>7, SelectKeeps
<1>8. CASE SamplingStuck
  BY <1>8, StopKeeps DEF SamplingStuck, Outcomes
<1>9. ASSUME NEW i \in 1 .. Len(victims), NEW p \in Pages, NEW d \in Blocks,
             CopyPage(i, p, d)
      PROVE  Inductive'
  BY <1>9, CopyPageKeeps
<1>10. CASE CopyDone
  BY <1>10, CopyDoneKeeps
<1>11. CASE EraseInternal
  BY <1>11, EraseInternalKeeps
<1>12. CASE Over \/ UNCHANGED vars
  BY <1>12, StutterKeeps DEF Over
<1> QED
  BY <1>1, <1>2, <1>3, <1>4, <1>5, <1>6, <1>7, <1>8, <1>9, <1>10, <1>11, <1>12
     DEF Next

\* The storage invariant holds in every reachable state, whatever policy
\* picks the free blocks and the victims and whatever the host does.
THEOREM StorageInvariant == Spec => []Inductive
<1> QED
  BY InitInductive, NextKeeps, PTL DEF Spec

\* Type correctness of the layer: no counter underflows, no write pointer
\* leaves its block, no list holds anything but blocks.
THEOREM TypeCorrect == Spec => []TypeOK
<1> QED
  BY StorageInvariant, PTL DEF Inductive

\* A block is in use, free or retired, never lost and never in two places,
\* and nFreeBlocks counts the free list.
THEOREM PoolPartitioned == Spec => []BlocksPartitioned
<1> QED
  BY StorageInvariant, PTL DEF Inductive

\* Cells are programmed once between two erases and in page order.
THEOREM ProgramOnce == Spec => []WritePointers
<1> QED
  BY StorageInvariant, PTL DEF Inductive

-----------------------------------------------------------------------------
(* The table and the flash *)

\* The second half of MappingConsistent at one cell.
LEMMA ValidCellMapped ==
  ASSUME MappingConsistent, NEW b \in Blocks, NEW p \in Pages,
         NEW u \in Units, <<b, p, u>> \in valid
  PROVE  table[owner[<<b, p, u>>]][u] = <<b, p>>
BY Zenon DEF MappingConsistent

\* Data moves: the units F of the pages lpnOf go to new cells of block d, the
\* cells they were in are invalidated, the table follows.  A host write and
\* the copy loop of a collection are the two instances.
LEMMA MoveKeepsMapping ==
  ASSUME TypeOK, MappingConsistent, NEW F \in SUBSET Units, NEW d \in Blocks,
         NEW gone, NEW lpnOf \in [Units -> LPNs],
         NewCells(F, d) \subseteq Cells, NewCells(F, d) \cap valid = {},
         \A u \in F : nextPage[d][u] \in Pages,
         WriteCells(F, d, gone, lpnOf),
         \A l \in LPNs : \A u \in Units : Mapped(l, u) =>
             (CellOf(l, u) \in gone <=> u \in F /\ lpnOf[u] = l),
         \A l \in LPNs : \A u \in Units :
             table'[l][u] = IF u \in F /\ lpnOf[u] = l
                            THEN <<d, nextPage[d][u]>> ELSE table[l][u],
         d \in active', active \subseteq active', present \subseteq present',
         \A u \in F : lpnOf[u] \in present'
  PROVE  MappingConsistent'
<1> DEFINE New == NewCells(F, d)
<1>1. /\ valid' = (valid \ gone) \cup New
      /\ \A c \in New : owner'[c] = lpnOf[c[3]]
      /\ \A c \in valid' : c \in Cells /\ c \notin New => owner'[c] = owner[c]
  BY DEF WriteCells
<1>2. ASSUME NEW l \in LPNs, NEW u \in Units, Mapped(l, u)'
      PROVE  /\ l \in present'
             /\ table'[l][u][1] \in active'
             /\ CellOf(l, u)' \in valid'
             /\ owner'[CellOf(l, u)'] = l
  <2>1. CASE u \in F /\ lpnOf[u] = l
    <3>1. table'[l][u] = <<d, nextPage[d][u]>>
      BY <2>1
    <3>2. CellOf(l, u)' = <<d, nextPage[d][u], u>>
      BY <3>1 DEF CellOf
    <3>3. CellOf(l, u)' \in New
      BY <2>1, <3>2 DEF NewCells
    <3>4. owner'[CellOf(l, u)'] = lpnOf[u]
      BY <1>1, <3>2, <3>3
    <3>5. table'[l][u][1] = d
      BY <3>1
    <3> QED
      BY <1>1, <2>1, <3>3, <3>4, <3>5
  <2>2. CASE ~(u \in F /\ lpnOf[u] = l)
    <3>1. table'[l][u] = table[l][u]
      BY <2>2
    <3>2. Mapped(l, u) /\ CellOf(l, u)' = CellOf(l, u)
      BY <1>2, <3>1 DEF Mapped, CellOf, Unset
    <3>3. /\ l \in present
          /\ table[l][u][1] \in active
          /\ CellOf(l, u) \in valid
          /\ owner[CellOf(l, u)] = l
      BY <3>2 DEF MappingConsistent
    <3>4. CellOf(l, u) \notin gone
      BY <2>2, <3>2
    <3> HIDE DEF New
    <3>5. CellOf(l, u) \in valid' /\ CellOf(l, u) \in Cells /\ CellOf(l, u) \notin New
      BY <1>1, <3>3, <3>4 DEF TypeOK, New
    <3> QED
      BY <1>1, <3>1, <3>2, <3>3, <3>5
  <2> QED
    BY <2>1, <2>2
<1>3. ASSUME NEW b \in Blocks, NEW p \in Pages, NEW u \in Units,
             <<b, p, u>> \in valid'
      PROVE  table'[owner'[<<b, p, u>>]][u] = <<b, p>>
  <2>1. CASE <<b, p, u>> \in New
    <3>1. b = d /\ u \in F /\ p = nextPage[d][u]
      BY <2>1 DEF NewCells
    <3>2. owner'[<<b, p, u>>] = lpnOf[u]
      BY <1>1, <2>1
    <3> QED
      BY <3>1, <3>2
  <2>2. CASE <<b, p, u>> \notin New
    <3>1. <<b, p, u>> \in valid /\ <<b, p, u>> \notin gone
      BY <1>1, <1>3, <2>2
    <3>2. <<b, p, u>> \in Cells
      BY DEF Cells
    <3>3. PICK l \in LPNs : l = owner[<<b, p, u>>]
      BY <3>2 DEF TypeOK
    <3>4. table[l][u] = <<b, p>>
      BY <3>1, <3>3, ValidCellMapped
    <3>5. Mapped(l, u)
      BY <3>4, ParameterAssumption DEF Mapped, Unset, Blocks
    <3>6. CellOf(l, u) = <<b, p, u>>
      BY <3>4 DEF CellOf
    <3>7. ~(u \in F /\ lpnOf[u] = l)
      BY <3>1, <3>5, <3>6
    <3>8. table'[l][u] = <<b, p>>
      BY <3>4, <3>7
    <3> HIDE DEF New
    <3>9. owner'[<<b, p, u>>] = l
      BY <1>1, <1>3, <2>2, <3>2, <3>3
    <3> QED
      BY <3>8, <3>9
  <2> QED
    BY <2>1, <2>2
<1> QED
  BY <1>2, <1>3 DEF MappingConsistent

\* writeInternal keeps the table and the flash consistent.
LEMMA WriteUnitsKeepsMapping ==
  ASSUME Inductive, MappingConsistent, pc # "stopped", NEW l \in LPNs,
         NEW F \in SUBSET Units, NEW d \in Blocks, Target(F, d),
         Refusal(F, d) = "run", WriteUnits(l, F, d)
  PROVE  MappingConsistent'
<1> DEFINE lpnOf == [u \in Units |-> l]
           gone == OldCells(l, F)
<1>1. /\ GetLastFreeBlock(F, d)
      /\ WriteCells(F, d, gone, lpnOf)
      /\ table' = [table EXCEPT ![l] = NewEntry(l, F, d)]
      /\ present' = present \cup {l}
      /\ UNCHANGED wear
  BY DEF WriteUnits
<1>2. lpnOf \in [Units -> LPNs] /\ \A u \in Units : lpnOf[u] = l
  OBVIOUS
<1>3. /\ NewCells(F, d) \subseteq Cells
      /\ NewCells(F, d) \cap valid = {}
      /\ \A u \in F : nextPage[d][u] \in Pages
  BY NewCellsErased DEF Inductive
<1>4. active' = active \cup {d}
  BY <1>1, AllocationKeepsPool
<1>5. \A k \in LPNs : \A u \in Units :
         table'[k][u] = IF u \in F /\ lpnOf[u] = k
                        THEN <<d, nextPage[d][u]>> ELSE table[k][u]
  BY <1>1, <1>2 DEF NewEntry, Inductive, TypeOK
<1>6. ASSUME NEW k \in LPNs, NEW u \in Units, Mapped(k, u)
      PROVE  CellOf(k, u) \in gone <=> u \in F /\ lpnOf[u] = k
  <2>1. ASSUME CellOf(k, u) \in gone PROVE u \in F /\ k = l
    <3>1. PICK v \in F : Mapped(l, v) /\ CellOf(k, u) = CellOf(l, v)
      BY <2>1 DEF OldCells
    <3>2. u = v
      BY <3>1 DEF CellOf
    <3>3. owner[CellOf(k, u)] = k /\ owner[CellOf(l, v)] = l
      BY <1>6, <3>1 DEF MappingConsistent
    <3> QED
      BY <3>1, <3>2, <3>3
  <2>2. ASSUME u \in F, k = l PROVE CellOf(k, u) \in gone
    BY <1>6, <2>2 DEF OldCells
  <2> QED
    BY <1>2, <2>1, <2>2
<1> HIDE DEF lpnOf, gone
<1> QED
  BY <1>1, <1>2, <1>3, <1>4, <1>5, <1>6, MoveKeepsMapping DEF Inductive

\* The copy loop keeps the table and the flash consistent and the set of
\* mapped units as it is.
LEMMA CopyPageKeepsMapping ==
  ASSUME IoUnitInPage > 1, Inductive, MappingConsistent,
         NEW i \in 1 .. Len(victims), NEW p \in Pages, NEW d \in Blocks,
         CopyPage(i, p, d), pc' # "stopped"
  PROVE  /\ MappingConsistent'
         /\ \A l \in LPNs : \A u \in Units : Mapped(l, u)' <=> Mapped(l, u)
<1> DEFINE b == victims[i]
           F == PageInfo(b, p)
           lpnOf == [u \in Units |-> owner[<<b, p, u>>]]
           gone == {<<b, p, u>> : u \in F}
<1>1. /\ b \in Blocks
      /\ F \in SUBSET Units
      /\ pc = "copy"
      /\ \A u \in F : <<b, p, u>> \in valid
  BY ParameterAssumption DEF Inductive, TypeOK, CopyPage, PageInfo
<1>2. /\ Target(F, d)
      /\ Refusal(F, d) = "run"
      /\ \A u \in F : owner[<<b, p, u>>] \in present
      /\ GetLastFreeBlock(F, d)
      /\ WriteCells(F, d, gone, lpnOf)
      /\ table' = [l \in LPNs |-> [u \in Units |->
                      IF u \in F /\ owner[<<b, p, u>>] = l
                      THEN <<d, nextPage[d][u]>> ELSE table[l][u]]]
      /\ UNCHANGED <<present, wear>>
  BY DEF CopyPage, Stop
<1>3. /\ lpnOf \in [Units -> LPNs]
      /\ \A u \in Units : lpnOf[u] = owner[<<b, p, u>>]
  BY <1>1 DEF Inductive, TypeOK, Cells
<1>4. \A c : c \in gone <=> \E u \in F : c = <<b, p, u>>
  OBVIOUS
<1> HIDE DEF b, F, lpnOf, gone
<1>5. /\ NewCells(F, d) \subseteq Cells
      /\ NewCells(F, d) \cap valid = {}
      /\ \A u \in F : nextPage[d][u] \in Pages
  BY <1>1, <1>2, NewCellsErased DEF Inductive
<1>6. active' = active \cup {d}
  BY <1>1, <1>2, AllocationKeepsPool
<1>7. \A l \in LPNs : \A u \in Units :
         table'[l][u] = IF u \in F /\ lpnOf[u] = l
                        THEN <<d, nextPage[d][u]>> ELSE table[l][u]
  BY <1>2, <1>3
<1>8. ASSUME NEW u \in F
      PROVE  table[lpnOf[u]][u] = <<b, p>> /\ Mapped(lpnOf[u], u)
  <2>1. table[lpnOf[u]][u] = <<b, p>>
    BY <1>1, <1>3, ValidCellMapped
  <2> QED
    BY <1>1, <2>1, ParameterAssumption DEF Mapped, Unset, Blocks
<1>9. ASSUME NEW l \in LPNs, NEW u \in Units, Mapped(l, u)
      PROVE  CellOf(l, u) \in gone <=> u \in F /\ lpnOf[u] = l
  <2>1. ASSUME CellOf(l, u) \in gone PROVE u \in F /\ lpnOf[u] = l
    <3>1. PICK v \in F : CellOf(l, u) = <<b, p, v>>
      BY <1>4, <2>1
    <3>2. u = v
      BY <3>1 DEF CellOf
    <3>3. owner[CellOf(l, u)] = l
      BY <1>9 DEF MappingConsistent
    <3> QED
      BY <1>3, <3>1, <3>2, <3>3
  <2>2. ASSUME u \in F, lpnOf[u] = l PROVE CellOf(l, u) \in gone
    <3>1. CellOf(l, u) = <<b, p, u>>
      BY <1>8, <2>2 DEF CellOf
    <3> QED
      BY <1>4, <2>2, <3>1
  <2> QED
    BY <2>1, <2>2
<1>10. \A u \in F : lpnOf[u] \in present'
  BY <1>1, <1>2, <1>3
<1>11. MappingConsistent'
  BY <1>1, <1>2, <1>3, <1>5, <1>6, <1>7, <1>9, <1>10, MoveKeepsMapping,
     SMTT(20) DEF Inductive
<1>12. ASSUME NEW l \in LPNs, NEW u \in Units PROVE Mapped(l, u)' <=> Mapped(l, u)
  <2>1. CASE u \in F /\ lpnOf[u] = l
    <3>1. table'[l][u] = <<d, nextPage[d][u]>>
      BY <1>7, <2>1
    <3>2. Mapped(l, u)'
      BY <3>1, ParameterAssumption DEF Mapped, Unset, Blocks
    <3> QED
      BY <1>8, <2>1, <3>2
  <2>2. CASE ~(u \in F /\ lpnOf[u] = l)
    BY <1>7, <2>2 DEF Mapped, Unset
  <2> QED
    BY <2>1, <2>2
<1> QED
  BY <1>11, <1>12

\* Trim and format drop whole entries together with the cells behind them.
LEMMA DropEntriesKeepsMapping ==
  ASSUME Inductive, MappingConsistent, NEW L \in SUBSET LPNs, AllInUse(L),
         DropEntries(L), UNCHANGED active
  PROVE  /\ MappingConsistent'
         /\ \A l \in LPNs : \A u \in Units :
               Mapped(l, u)' <=> Mapped(l, u) /\ l \notin L
<1> DEFINE gone == {CellOf(x[1], x[2]) : x \in L \X Units}
<1>1. /\ valid' = valid \ gone
      /\ \A c \in Cells : c \in valid' => owner'[c] = owner[c]
      /\ \A l \in LPNs : \A u \in Units :
            table'[l][u] = IF l \in L THEN Unset ELSE table[l][u]
      /\ present' = present \ L
  BY DEF DropEntries, InvalidateCells
<1>2. \A c : c \in gone <=> \E l \in L : \E u \in Units : c = CellOf(l, u)
  <2> SUFFICES ASSUME NEW c
               PROVE  c \in gone <=> \E l \in L : \E u \in Units : c = CellOf(l, u)
    OBVIOUS
  <2>1. ASSUME c \in gone PROVE \E l \in L : \E u \in Units : c = CellOf(l, u)
    <3>1. PICK x \in L \X Units : c = CellOf(x[1], x[2])
      BY <2>1
    <3> QED
      BY <3>1
  <2>2. ASSUME NEW l \in L, NEW u \in Units, c = CellOf(l, u) PROVE c \in gone
    <3>1. <<l, u>> \in L \X Units /\ c = CellOf(<<l, u>>[1], <<l, u>>[2])
      BY <2>2
    <3> QED
      BY <3>1
  <2> QED
    BY <2>1, <2>2
<1>3. \A l \in L : \A u \in Units : Mapped(l, u)
  BY ParameterAssumption DEF AllInUse, Mapped, Unset, Inductive, TypeOK, Blocks
<1> HIDE DEF gone
<1>4. ASSUME NEW l \in LPNs, NEW u \in Units
      PROVE  Mapped(l, u)' <=> Mapped(l, u) /\ l \notin L
  BY <1>1 DEF Mapped, Unset
<1>5. ASSUME NEW l \in LPNs, NEW u \in Units, Mapped(l, u)'
      PROVE  /\ l \in present'
             /\ table'[l][u][1] \in active'
             /\ CellOf(l, u)' \in valid'
             /\ owner'[CellOf(l, u)'] = l
  <2>1. Mapped(l, u) /\ l \notin L /\ table'[l][u] = table[l][u]
    BY <1>1, <1>4, <1>5
  <2>2. /\ l \in present
        /\ table[l][u][1] \in active
        /\ CellOf(l, u) \in valid
        /\ owner[CellOf(l, u)] = l
    BY <2>1 DEF MappingConsistent
  <2>3. CellOf(l, u) \notin gone
    <3> SUFFICES ASSUME NEW k \in L, NEW v \in Units, CellOf(l, u) = CellOf(k, v)
                 PROVE  FALSE
      BY <1>2
    <3>1. owner[CellOf(k, v)] = k
      BY <1>3 DEF MappingConsistent
    <3> QED
      BY <2>1, <2>2, <3>1
  <2>4. CellOf(l, u)' = CellOf(l, u)
    BY <2>1 DEF CellOf
  <2>5. CellOf(l, u) \in valid' /\ CellOf(l, u) \in Cells
    BY <1>1, <2>2, <2>3 DEF Inductive, TypeOK
  <2> QED
    BY <1>1, <2>1, <2>2, <2>4, <2>5
<1>6. ASSUME NEW b \in Blocks, NEW p \in Pages, NEW u \in Units,
             <<b, p, u>> \in valid'
      PROVE  table'[owner'[<<b, p, u>>]][u] = <<b, p>>
  <2>1. /\ <<b, p, u>> \in valid /\ <<b, p, u>> \notin gone
        /\ <<b, p, u>> \in Cells
    BY <1>1, <1>6 DEF Cells
  <2>2. PICK l \in LPNs : l = owner[<<b, p, u>>]
    BY <2>1 DEF Inductive, TypeOK
  <2>3. table[l][u] = <<b, p>>
    BY <2>1, <2>2, ValidCellMapped
  <2>4. CellOf(l, u) = <<b, p, u>>
    BY <2>3 DEF CellOf
  <2>5. l \notin L
    BY <1>2, <2>1, <2>4
  <2> QED
    BY <1>1, <1>6, <2>1, <2>2, <2>3, <2>5
<1> QED
  BY <1>4, <1>5, <1>6 DEF MappingConsistent

\* eraseInternal loses no data: the block it takes out of use holds none.
LEMMA EraseKeepsMapping ==
  ASSUME Inductive, MappingConsistent, EraseInternal
  PROVE  MappingConsistent' /\ UNCHANGED table
<1> DEFINE b == victims[vi]
<1>1. \/ UNCHANGED <<present, table, valid, owner, active>>
      \/ /\ valid \cap CellsOf(b) = {}
         /\ active' = active \ {b}
         /\ UNCHANGED <<present, table, valid, owner>>
  BY DEF EraseInternal, Stop, media, pool
<1>2. CASE UNCHANGED <<present, table, valid, owner, active>>
  BY <1>2 DEF MappingConsistent, Mapped, CellOf, Unset
<1>3. CASE /\ valid \cap CellsOf(b) = {}
           /\ active' = active \ {b}
           /\ UNCHANGED <<present, table, valid, owner>>
  <2> HIDE DEF b
  <2>1. ASSUME NEW l \in LPNs, NEW u \in Units, Mapped(l, u)
        PROVE  table[l][u][1] # b
    <3>1. CellOf(l, u) \in valid
      BY <2>1 DEF MappingConsistent
    <3>2. CellOf(l, u) \in Cells /\ CellOf(l, u)[1] = table[l][u][1]
      BY <3>1 DEF Inductive, TypeOK, CellOf
    <3> QED
      BY <1>3, <3>1, <3>2 DEF CellsOf
  <2> QED
    BY <1>3, <2>1 DEF MappingConsistent, Mapped, CellOf, Unset
<1> QED
  BY <1>1, <1>2, <1>3

\* What a step leaves alone when it neither moves nor drops data.
LEMMA SameMapping ==
  ASSUME MappingConsistent, UNCHANGED <<present, table, valid, owner>>,
         active \subseteq active'
  PROVE  MappingConsistent'
BY DEF MappingConsistent, Mapped, CellOf, Unset

\* How a step changes the logical device: it writes units of one page, drops
\* pages, or leaves the mapped set alone.
StepOnDevice ==
    \/ /\ pc # "stopped"
       /\ \E l \in LPNs : \E F \in SUBSET Units :
             \A k \in LPNs : \A u \in Units :
                 Mapped(k, u)' <=> Mapped(k, u) \/ (k = l /\ u \in F)
    \/ /\ pc # "stopped" /\ pc' # "stopped"
       /\ \E L \in SUBSET LPNs : \A k \in LPNs : \A u \in Units :
             Mapped(k, u)' <=> Mapped(k, u) /\ k \notin L
    \/ /\ pc = "stopped" => pc' = "stopped"
       /\ \A k \in LPNs : \A u \in Units : Mapped(k, u)' <=> Mapped(k, u)

\* An unchanged table maps the same units.
LEMMA SameTable ==
  ASSUME UNCHANGED table
  PROVE  \A k \in LPNs : \A u \in Units : Mapped(k, u)' <=> Mapped(k, u)
BY DEF Mapped, Unset

\* A write adds its units to the logical device.
LEMMA WriteOnDevice ==
  ASSUME Inductive, pc # "stopped", NEW l \in LPNs, NEW F \in SUBSET Units,
         NEW d \in Blocks, Refusal(F, d) = "run", WriteUnits(l, F, d)
  PROVE  StepOnDevice
<1>1. table' = [table EXCEPT ![l] = NewEntry(l, F, d)]
  BY DEF WriteUnits
<1>2. ASSUME NEW k \in LPNs, NEW u \in Units
      PROVE  Mapped(k, u)' <=> Mapped(k, u) \/ (k = l /\ u \in F)
  <2>1. CASE k = l /\ u \in F
    <3>1. table'[k][u] = <<d, nextPage[d][u]>>
      BY <1>1, <2>1 DEF NewEntry, Inductive, TypeOK
    <3> QED
      BY <2>1, <3>1, ParameterAssumption DEF Mapped, Unset, Blocks
  <2>2. CASE ~(k = l /\ u \in F)
    <3>1. table'[k][u] = table[k][u]
      BY <1>1, <2>2 DEF NewEntry, Inductive, TypeOK
    <3> QED
      BY <2>2, <3>1 DEF Mapped, Unset
  <2> QED
    BY <2>1, <2>2
<1> QED
  BY <1>2 DEF StepOnDevice

\* One step, by action: the table and the flash stay consistent and the
\* logical device makes a step or stutters.
LEMMA NextKeepsMapping ==
  ASSUME IoUnitInPage > 1, Inductive, MappingConsistent, [Next]_vars
  PROVE  MappingConsistent' /\ StepOnDevice
<1>0. ASSUME NEW why, Stop(why), pc # "stopped" PROVE MappingConsistent' /\ StepOnDevice
  <2>1. UNCHANGED <<present, table, valid, owner, active>> /\ pc' = "stopped"
    BY <1>0 DEF Stop, media, pool
  <2> QED
    BY <2>1, SameMapping, SameTable DEF StepOnDevice
<1>00. ASSUME UNCHANGED vars PROVE MappingConsistent' /\ StepOnDevice
  <2>1. UNCHANGED <<present, table, valid, owner, active, pc>>
    BY <1>00 DEF vars, media, pool, control
  <2> QED
    BY <2>1, SameMapping, SameTable DEF StepOnDevice
<1>1. ASSUME NEW d \in Blocks, OpenSlot(d) PROVE MappingConsistent' /\ StepOnDevice
  <2>1. CASE d \in active
    BY <1>0, <1>1, <2>1 DEF OpenSlot
  <2>2. CASE d \notin active
    <3>1. /\ UNCHANGED <<present, table, valid, owner>>
          /\ pc # "stopped" /\ active \subseteq active'
      BY <1>1, <2>2 DEF OpenSlot, TakeFreeBlock, media
    <3> QED
      BY <3>1, SameMapping, SameTable DEF StepOnDevice
  <2> QED
    BY <2>1, <2>2
<1>2. ASSUME NEW l \in LPNs, NEW d \in Blocks, Warmup(l, d) \/ Invalidation(l, d)
      PROVE  MappingConsistent' /\ StepOnDevice
  <2>1. InitialWrite(l, d) /\ pc # "stopped"
    BY <1>2 DEF Warmup, Invalidation
  <2>2. CASE Refusal(Units, d) # "run"
    BY <1>0, <2>1, <2>2 DEF InitialWrite
  <2>3. CASE Refusal(Units, d) = "run"
    <3>1. Target(Units, d) /\ WriteUnits(l, Units, d)
      BY <2>1, <2>3 DEF InitialWrite
    <3> QED
      BY <2>1, <2>3, <3>1, WriteUnitsKeepsMapping, WriteOnDevice
  <2> QED
    BY <2>2, <2>3
<1>3. CASE InitializeNext
  <2>1. UNCHANGED <<present, table, valid, owner, active>> /\ pc # "stopped"
    BY <1>3 DEF InitializeNext, media, pool
  <2> QED
    BY <2>1, SameMapping, SameTable DEF StepOnDevice
<1>4. ASSUME NEW l \in LPNs, Read(l) PROVE MappingConsistent' /\ StepOnDevice
  BY <1>0, <1>00, <1>4 DEF Read
<1>5. ASSUME NEW l \in LPNs, Trim(l) PROVE MappingConsistent' /\ StepOnDevice
  <2>1. CASE ~AllInUse({l})
    BY <1>0, <1>5, <2>1 DEF Trim
  <2>2. CASE AllInUse({l})
    <3>1. /\ DropEntries({l})
          /\ UNCHANGED <<active, pc>> /\ pc # "stopped"
      BY <1>5, <2>2 DEF Trim, pool, control
    <3>2. /\ MappingConsistent'
          /\ \A k \in LPNs : \A u \in Units :
                Mapped(k, u)' <=> Mapped(k, u) /\ k \notin {l}
      BY <2>2, <3>1, DropEntriesKeepsMapping
    <3> QED
      BY <3>1, <3>2 DEF StepOnDevice
  <2> QED
    BY <2>1, <2>2
<1>6. ASSUME NEW l \in LPNs, NEW F \in Flags, NEW d \in Blocks, Write(l, F, d)
      PROVE  MappingConsistent' /\ StepOnDevice
  <2>1. F \in SUBSET Units /\ pc # "stopped"
    BY <1>6 DEF Flags, Write
  <2>2. CASE Refusal(F, d) # "run"
    BY <1>0, <1>6, <2>1, <2>2 DEF Write
  <2>3. CASE Refusal(F, d) = "run"
    <3>1. Target(F, d) /\ WriteUnits(l, F, d)
      BY <1>6, <2>3 DEF Write
    <3> QED
      BY <2>1, <2>3, <3>1, WriteUnitsKeepsMapping, WriteOnDevice
  <2> QED
    BY <2>2, <2>3
<1>7. ASSUME NEW lo \in LPNs, NEW hi \in LPNs, Format(lo, hi)
      PROVE  MappingConsistent' /\ StepOnDevice
  <2> DEFINE L == {l \in present : lo <= l /\ l <= hi}
  <2>1. CASE ~AllInUse(L)
    BY <1>0, <1>7, <2>1 DEF Format
  <2>2. CASE AllInUse(L)
    <3>1. /\ DropEntries(L)
          /\ UNCHANGED active /\ pc # "stopped" /\ pc' # "stopped"
      BY <1>7, <2>2 DEF Format, pool
    <3>2. L \in SUBSET LPNs
      BY DEF Inductive, TypeOK
    <3> HIDE DEF L
    <3>3. /\ MappingConsistent'
          /\ \A k \in LPNs : \A u \in Units :
                Mapped(k, u)' <=> Mapped(k, u) /\ k \notin L
      BY <2>2, <3>1, <3>2, DropEntriesKeepsMapping
    <3> QED
      BY <3>1, <3>2, <3>3 DEF StepOnDevice
  <2> QED
    BY <2>1, <2>2
<1>8. ASSUME NEW list \in Lists(Candidates), SelectVictimBlock(list)
      PROVE  MappingConsistent' /\ StepOnDevice
  <2>1. UNCHANGED <<present, table, valid, owner, active>> /\ pc # "stopped"
    BY <1>8 DEF SelectVictimBlock, media
  <2> QED
    BY <2>1, SameMapping, SameTable DEF StepOnDevice
<1>9. CASE SamplingStuck
  BY <1>0, <1>9 DEF SamplingStuck
<1>10. ASSUME NEW i \in 1 .. Len(victims), NEW p \in Pages, NEW d \in Blocks,
              CopyPage(i, p, d)
       PROVE  MappingConsistent' /\ StepOnDevice
  <2>1. pc = "copy"
    BY <1>10 DEF CopyPage
  <2>2. CASE pc' # "stopped"
    BY <1>10, <2>1, <2>2, CopyPageKeepsMapping DEF StepOnDevice
  <2>3. CASE pc' = "stopped"
    <3>1. UNCHANGED <<present, table, valid, owner, active>>
      BY <1>10, <2>1, <2>3 DEF CopyPage, Stop, media, pool
    <3> QED
      BY <2>3, <3>1, SameMapping, SameTable DEF StepOnDevice
  <2> QED
    BY <2>2, <2>3
<1>11. CASE CopyDone
  <2>1. UNCHANGED <<present, table, valid, owner, active>> /\ pc # "stopped"
    BY <1>11 DEF CopyDone, media, pool
  <2> QED
    BY <2>1, SameMapping, SameTable DEF StepOnDevice
<1>12. CASE EraseInternal
  <2>1. pc = "erase"
    BY <1>12 DEF EraseInternal
  <2> QED
    BY <1>12, <2>1, EraseKeepsMapping, SameTable DEF StepOnDevice
<1>13. CASE Over
  BY <1>00, <1>13 DEF Over
<1> QED
  BY <1>00, <1>1, <1>2, <1>3, <1>4, <1>5, <1>6, <1>7, <1>8, <1>9, <1>10, <1>11,
     <1>12, <1>13 DEF Next

\* At the start nothing is mapped and nothing is valid.
LEMMA InitMapping == Init => MappingConsistent
BY DEF Init, MappingConsistent, Mapped

\* The table and the flash agree in every reachable state, also between the
\* steps of a collection, for every policy, if a page has several units.
THEOREM MappingInvariant ==
  ASSUME IoUnitInPage > 1
  PROVE  Spec => []MappingConsistent
<1>1. Init => Inductive /\ MappingConsistent
  BY InitInductive, InitMapping
<1>2. Inductive /\ MappingConsistent /\ [Next]_vars
        => (Inductive /\ MappingConsistent)'
  BY NextKeeps, NextKeepsMapping
<1> QED
  BY <1>1, <1>2, PTL DEF Spec

\* Each of the three effects a step can have is a step of LogicalDevice.
LEMMA StepImplementsDevice ==
  ASSUME StepOnDevice
  PROVE  [Device!DNext]_Device!dvars
<1> USE DEF Device!DNext, Device!dvars
<1> DEFINE M == MappedUnits
<1>1. /\ \A x : x \in M <=> x \in LPNs \X Units /\ Mapped(x[1], x[2])
      /\ \A x : x \in M' <=> x \in LPNs \X Units /\ Mapped(x[1], x[2])'
  BY DEF MappedUnits
<1>2. ASSUME pc # "stopped", NEW l \in LPNs, NEW F \in SUBSET Units,
             \A k \in LPNs : \A u \in Units :
                 Mapped(k, u)' <=> Mapped(k, u) \/ (k = l /\ u \in F)
      PROVE  Device!Put(l, F)
  <2>1. MappedUnits' = MappedUnits \cup ({l} \X F)
    BY <1>1, <1>2
  <2> QED
    BY <1>2, <2>1 DEF Device!Put
<1>3. ASSUME pc # "stopped", pc' # "stopped", NEW L \in SUBSET LPNs,
             \A k \in LPNs : \A u \in Units :
                 Mapped(k, u)' <=> Mapped(k, u) /\ k \notin L
      PROVE  Device!Drop(L)
  <2>1. MappedUnits' = MappedUnits \ (L \X Units)
    BY <1>1, <1>3
  <2> QED
    BY <1>3, <2>1 DEF Device!Drop
<1>4. ASSUME pc = "stopped" => pc' = "stopped",
             \A k \in LPNs : \A u \in Units : Mapped(k, u)' <=> Mapped(k, u)
      PROVE  [Device!DNext]_Device!dvars
  <2>1. MappedUnits' = MappedUnits
    BY <1>1, <1>4
  <2> QED
    BY <1>4, <2>1 DEF Device!Fail
<1> QED
  BY <1>2, <1>3, <1>4 DEF StepOnDevice

\* The layer implements the logical device: no collection, erase or retired
\* block ever adds or loses a logical unit.
THEOREM DeviceRefinement ==
  ASSUME IoUnitInPage > 1
  PROVE  Spec => ImplementsDevice
<1>1. Init => Inductive /\ MappingConsistent /\ Device!DInit
  <2>1. Init => Device!DInit
    BY DEF Init, Device!DInit, MappedUnits, Mapped
  <2> QED
    BY <2>1, InitInductive, InitMapping
<1>2. Inductive /\ MappingConsistent /\ [Next]_vars
        => (Inductive /\ MappingConsistent)' /\ [Device!DNext]_Device!dvars
  BY NextKeeps, NextKeepsMapping, StepImplementsDevice
<1> QED
  BY <1>1, <1>2, PTL DEF Spec, ImplementsDevice, Device!DSpec

-----------------------------------------------------------------------------
(***************************************************************************)
(* Wear and the sanity checks.                                             *)
(*                                                                         *)
(* The order of the free list, the retirement of worn-out blocks and the   *)
(* wear statistics hold for every geometry and mode (WearKept).  That the  *)
(* open block stays in use and that no sanity check fires holds with one   *)
(* slot and without format, and needs to know what a collection has copied *)
(* so far (Collecting) and how much initialize() has written (Counted).    *)
(***************************************************************************)

-----------------------------------------------------------------------------
(* The free list and the retired blocks *)

\* eraseInternal does erase the block b.
Erases(b) ==
    LET ec == eraseCount[b] + 1
    IN  /\ pc = "erase" /\ b = victims[vi]
        /\ b \in active /\ valid \cap CellsOf(b) = {}
        /\ eraseCount' = [eraseCount EXCEPT ![b] = ec]
        /\ \/ /\ Survives(ec)
              /\ \E at \in 1 .. Len(freeBlocks) + 1 :
                    /\ FreePosition(ec, at)
                    /\ freeBlocks' = InsertAt(freeBlocks, at, b)
              /\ UNCHANGED deadBlocks
           \/ /\ ~Survives(ec)
              /\ deadBlocks' = deadBlocks \cup {b}
              /\ UNCHANGED freeBlocks

\* A block is taken from the free list.
Takes == \E at \in 1 .. Len(freeBlocks) : freeBlocks' = RemoveAt(freeBlocks, at)

\* What a step does to wear and to the list: it erases a victim, takes a
\* block out of the list, or leaves both alone.
LEMMA WearStep ==
  ASSUME [Next]_vars
  PROVE  \/ EraseInternal /\ Erases(victims[vi])
         \/ UNCHANGED wear /\ (UNCHANGED freeBlocks \/ Takes)
<1>1. ASSUME NEW F, NEW d, GetLastFreeBlock(F, d)
      PROVE  UNCHANGED freeBlocks \/ Takes
  BY <1>1 DEF GetLastFreeBlock, TakeFreeBlock, Takes, pool
<1>2. ASSUME NEW why, Stop(why)
      PROVE  UNCHANGED wear /\ UNCHANGED freeBlocks
  BY <1>2 DEF Stop, pool
<1>3. ASSUME NEW d \in Blocks, OpenSlot(d)
      PROVE  UNCHANGED wear /\ (UNCHANGED freeBlocks \/ Takes)
  BY <1>2, <1>3 DEF OpenSlot, TakeFreeBlock, Takes
<1>4. ASSUME NEW l \in LPNs, NEW d \in Blocks, Warmup(l, d) \/ Invalidation(l, d)
      PROVE  UNCHANGED wear /\ (UNCHANGED freeBlocks \/ Takes)
  BY <1>1, <1>2, <1>4 DEF Warmup, Invalidation, InitialWrite, WriteUnits
<1>5. CASE InitializeNext
  BY <1>5 DEF InitializeNext, pool
<1>6. ASSUME NEW l \in LPNs, Read(l) \/ Trim(l)
      PROVE  UNCHANGED wear /\ UNCHANGED freeBlocks
  BY <1>2, <1>6 DEF Read, Trim, vars, pool
<1>7. ASSUME NEW l \in LPNs, NEW F \in Flags, NEW d \in Blocks, Write(l, F, d)
      PROVE  UNCHANGED wear /\ (UNCHANGED freeBlocks \/ Takes)
  BY <1>1, <1>2, <1>7 DEF Write, WriteUnits
<1>8. ASSUME NEW lo \in LPNs, NEW hi \in LPNs, Format(lo, hi)
      PROVE  UNCHANGED wear /\ UNCHANGED freeBlocks
  BY <1>2, <1>8 DEF Format, pool
<1>9. ASSUME NEW list \in Lists(Candidates), SelectVictimBlock(list)
      PROVE  UNCHANGED wear /\ UNCHANGED freeBlocks
  BY <1>9 DEF SelectVictimBlock
<1>10. CASE SamplingStuck
  BY <1>2, <1>10 DEF SamplingStuck
<1>11. ASSUME NEW i \in 1 .. Len(victims), NEW p \in Pages, NEW d \in Blocks,
              CopyPage(i, p, d)
       PROVE  UNCHANGED wear /\ (UNCHANGED freeBlocks \/ Takes)
  BY <1>1, <1>2, <1>11 DEF CopyPage
<1>12. CASE CopyDone
  BY <1>12 DEF CopyDone, pool
<1>13. CASE EraseInternal
  <2> DEFINE b == victims[vi]
  <2>1. CASE b \notin active \/ valid \cap CellsOf(b) # {}
    BY <1>2, <1>13, <2>1 DEF EraseInternal
  <2>2. CASE ~(b \notin active \/ valid \cap CellsOf(b) # {})
    BY <1>13, <2>2 DEF EraseInternal, Erases
  <2> QED
    BY <2>1, <2>2
<1>14. CASE Over \/ UNCHANGED vars
  BY <1>14 DEF Over, vars, pool
<1> QED
  BY <1>3, <1>4, <1>5, <1>6, <1>7, <1>8, <1>9, <1>10, <1>11, <1>12, <1>13,
     <1>14 DEF Next

\* Taking a block out and inserting one behind the last block that is not
\* more worn keep the order of the list.
LEMMA ListStaysSorted ==
  ASSUME Inductive, FreeListSorted, [Next]_vars
  PROVE  FreeListSorted'
<1> DEFINE q == freeBlocks
           n == Len(q)
<1>1. /\ q \in Seq(Blocks) /\ n \in Nat
      /\ \A i \in 1 .. n : q[i] \in Blocks /\ eraseCount[q[i]] \in Nat
  BY DEF Inductive, TypeOK
<1>2. CASE UNCHANGED wear /\ UNCHANGED freeBlocks
  BY <1>2 DEF FreeListSorted, wear
<1>3. CASE UNCHANGED wear /\ Takes
  <2>1. PICK at \in 1 .. n : freeBlocks' = RemoveAt(q, at)
    BY <1>3 DEF Takes
  <2>2. /\ Len(freeBlocks') = n - 1
        /\ \A j \in 1 .. n - 1 :
              freeBlocks'[j] = IF j < at THEN q[j] ELSE q[j + 1]
    BY <1>1, <2>1, RemoveAtProperties
  <2> SUFFICES ASSUME NEW i \in 1 .. n - 1, NEW j \in 1 .. n - 1, i < j
               PROVE  eraseCount[freeBlocks'[i]] <= eraseCount[freeBlocks'[j]]
    BY <1>3, <2>2 DEF FreeListSorted, wear
  <2> DEFINE from(x) == IF x < at THEN x ELSE x + 1
  <2>3. /\ from(i) \in 1 .. n /\ from(j) \in 1 .. n /\ from(i) < from(j)
        /\ freeBlocks'[i] = q[from(i)] /\ freeBlocks'[j] = q[from(j)]
    BY <1>1, <2>2
  <2> HIDE DEF from
  <2> QED
    BY <2>3 DEF FreeListSorted
<1>4. CASE EraseInternal /\ Erases(victims[vi])
  <2> DEFINE b == victims[vi]
             ec == eraseCount[b] + 1
  <2>1. /\ b \in Blocks /\ ~Listed(b) /\ ec \in Nat
        /\ eraseCount' = [eraseCount EXCEPT ![b] = ec]
    BY <1>4 DEF Erases, Inductive, TypeOK, BlocksPartitioned
  <2>2. \A i \in 1 .. n : q[i] # b
    BY <2>1 DEF Listed
  <2>3. eraseCount'[b] = ec /\ \A i \in 1 .. n : eraseCount'[q[i]] = eraseCount[q[i]]
    BY <1>1, <2>1, <2>2 DEF Inductive, TypeOK
  <2> HIDE DEF b
  <2>4. CASE UNCHANGED freeBlocks
    BY <2>3, <2>4 DEF FreeListSorted
  <2>5. ASSUME NEW at \in 1 .. n + 1, FreePosition(ec, at),
               freeBlocks' = InsertAt(q, at, b)
        PROVE  FreeListSorted'
    <3>1. /\ Len(freeBlocks') = n + 1
          /\ \A j \in 1 .. n + 1 :
                freeBlocks'[j] = IF j < at THEN q[j]
                                 ELSE IF j = at THEN b ELSE q[j - 1]
      BY <1>1, <2>1, <2>5, InsertAtProperties, SMTT(20)
    <3>2. /\ \A j \in 1 .. n : j < at => eraseCount[q[j]] <= ec
          /\ \A j \in 1 .. n : j >= at => ec <= eraseCount[q[j]]
      <4>1. ASSUME NEW j \in 1 .. n, j < at
            PROVE  eraseCount[q[j]] <= ec
        <5>1. at > 1 /\ at - 1 \in 1 .. n /\ (j = at - 1 \/ j < at - 1)
          BY <1>1, <4>1
        <5>2. eraseCount[q[at - 1]] <= ec
          BY <2>5, <5>1 DEF FreePosition
        <5>3. eraseCount[q[j]] <= eraseCount[q[at - 1]]
          BY <1>1, <5>1 DEF FreeListSorted
        <5> QED
          BY <1>1, <2>1, <5>1, <5>2, <5>3
      <4>2. ASSUME NEW j \in 1 .. n, j >= at
            PROVE  ec <= eraseCount[q[j]]
        <5>1. eraseCount[q[j]] > ec
          BY <2>5, <4>2 DEF FreePosition
        <5> QED
          BY <1>1, <2>1, <5>1
      <4> QED
        BY <4>1, <4>2
    <3> SUFFICES ASSUME NEW i \in 1 .. n + 1, NEW j \in 1 .. n + 1, i < j
                 PROVE  eraseCount'[freeBlocks'[i]] <= eraseCount'[freeBlocks'[j]]
      BY <3>1 DEF FreeListSorted
    <3>3. CASE i = at
      <4>1. j - 1 \in 1 .. n /\ j - 1 >= at /\ freeBlocks'[j] = q[j - 1]
        BY <1>1, <3>1, <3>3
      <4> QED
        BY <2>3, <3>1, <3>2, <3>3, <4>1
    <3>4. CASE j = at
      <4>1. i \in 1 .. n /\ i < at /\ freeBlocks'[i] = q[i]
        BY <1>1, <3>1, <3>4
      <4> QED
        BY <2>3, <3>1, <3>2, <3>4, <4>1
    <3>5. CASE i # at /\ j # at
      <4> DEFINE from(x) == IF x < at THEN x ELSE x - 1
      <4>1. /\ from(i) \in 1 .. n /\ from(j) \in 1 .. n /\ from(i) < from(j)
            /\ freeBlocks'[i] = q[from(i)] /\ freeBlocks'[j] = q[from(j)]
        BY <1>1, <3>1, <3>5
      <4> HIDE DEF from
      <4> QED
        BY <2>3, <4>1 DEF FreeListSorted
    <3> QED
      BY <3>3, <3>4, <3>5
  <2> QED
    BY <1>4, <2>4, <2>5 DEF Erases, b
<1> QED
  BY <1>2, <1>3, <1>4, WearStep

\* No block starts worn out: the condition under which retirement at the
\* threshold is all there is (applyInitialWear does not retire blocks).
FreshDevice == 0 < BadBlockThreshold /\ (NWorn = 0 \/ PreEC < BadBlockThreshold)

\* A block is retired by the erase that brings it to the threshold.
LEMMA RetiredStaysExact ==
  ASSUME Inductive, WornOutRetired, [Next]_vars
  PROVE  WornOutRetired'
<1>1. CASE UNCHANGED wear
  BY <1>1 DEF WornOutRetired, wear
<1>2. CASE Erases(victims[vi])
  <2> DEFINE b == victims[vi]
             ec == eraseCount[b] + 1
  <2>1. /\ b \in Blocks /\ b \notin deadBlocks /\ eraseCount[b] \in Nat
        /\ BadBlockThreshold \in Nat
        /\ eraseCount' = [eraseCount EXCEPT ![b] = ec]
        /\ \/ ec < BadBlockThreshold /\ deadBlocks' = deadBlocks
           \/ ~(ec < BadBlockThreshold) /\ deadBlocks' = deadBlocks \cup {b}
    BY <1>2, ParameterAssumption
    DEF Erases, Survives, Inductive, TypeOK, BlocksPartitioned
  <2>2. \A x \in Blocks : eraseCount'[x] = IF x = b THEN ec ELSE eraseCount[x]
    BY <2>1 DEF Inductive, TypeOK
  <2> HIDE DEF b
  <2> QED
    BY <2>1, <2>2 DEF WornOutRetired
<1> QED
  BY <1>1, <1>2, WearStep

\* calculateWearLeveling may stop at the first unworn block of a sorted list:
\* its sum is the wear of all blocks in use or free.
LEMMA SumIsComplete ==
  ASSUME Inductive, FreeListSorted
  PROVE  WearSumComplete
<1> DEFINE w == eraseCount
           q == freeBlocks
           n == Len(q)
           v == [i \in 1 .. n |-> w[q[i]]]
           I == {i \in 1 .. n : \A j \in i .. n : w[q[j]] > 0}
           L == {q[i] : i \in 1 .. n}
<1> SUFFICES ASSUME pc # "stopped"
             PROVE  WearLevelingSum = MapThenSumSet(LAMBDA b : eraseCount[b],
                                                    Blocks \ deadBlocks)
  BY DEF WearSumComplete
<1>1. /\ q \in Seq(Blocks) /\ n \in Nat
      /\ q \in [1 .. n -> Blocks]
      /\ \A i, j \in 1 .. n : q[i] = q[j] => i = j
      /\ \A b \in Blocks : w[b] \in Nat
      /\ active \subseteq Blocks
  BY DEF Inductive, TypeOK, BlocksPartitioned
<1>2. /\ Blocks \ deadBlocks = active \cup L
      /\ active \cap L = {}
      /\ L \subseteq Blocks
  <2>1. \A b \in Blocks : Listed(b) <=> b \in L
    BY <1>1 DEF Listed
  <2> QED
    BY <1>1, <2>1 DEF Inductive, TypeOK, BlocksPartitioned, Listed
<1>3. IsFiniteSet(Blocks) /\ IsFiniteSet(active) /\ IsFiniteSet(L)
  <2>1. IsFiniteSet(Blocks)
    BY ParameterAssumption, FS_Interval DEF Blocks
  <2> HIDE DEF L
  <2> QED
    BY <1>1, <1>2, <2>1, FS_Subset
<1>4. IsFiniteSet(1 .. n) /\ IsFiniteSet(I) /\ IsFiniteSet((1 .. n) \ I)
  <2>1. IsFiniteSet(1 .. n)
    BY <1>1, FS_Interval
  <2>2. I \in SUBSET (1 .. n) /\ (1 .. n) \ I \in SUBSET (1 .. n)
    OBVIOUS
  <2> HIDE DEF I
  <2> QED
    BY <2>1, <2>2, FS_Subset
<1>5. \A i \in 1 .. n : v[i] \in Nat /\ v[i] = w[q[i]]
  BY <1>1
<1>6. ASSUME NEW i \in (1 .. n) \ I
      PROVE  v[i] = 0
  <2>1. PICK j \in i .. n : ~(w[q[j]] > 0)
    OBVIOUS
  <2>2. j \in 1 .. n /\ (i = j \/ i < j)
    BY <1>1
  <2>3. w[q[i]] <= w[q[j]]
    BY <1>1, <2>2 DEF FreeListSorted
  <2> QED
    BY <1>1, <1>5, <2>1, <2>2, <2>3
<1>7. MapThenSumSet(LAMBDA i : eraseCount[freeBlocks[i]], I) = Total(v, I)
  <2>1. \A s \in SUBSET I : s # {} =>
           v[CHOOSE x \in s : TRUE] = eraseCount[freeBlocks[CHOOSE x \in s : TRUE]]
    BY <1>5
  <2> HIDE DEF v, I
  <2> DEFINE A(f) == [s \in SUBSET I |-> IF s = {} THEN 0
                        ELSE v[CHOOSE x \in s : TRUE] + f[s \ {CHOOSE x \in s : TRUE}]]
             B(f) == [s \in SUBSET I |-> IF s = {} THEN 0
                        ELSE eraseCount[freeBlocks[CHOOSE x \in s : TRUE]]
                             + f[s \ {CHOOSE x \in s : TRUE}]]
  <2>2. \A f : A(f) = B(f)
    BY <2>1
  <2>3. Total(v, I) = (CHOOSE f : f = A(f))[I]
    BY DEF Total, MapThenSumSet, MapThenFoldSet
  <2>4. MapThenSumSet(LAMBDA i : eraseCount[freeBlocks[i]], I)
           = (CHOOSE f : f = B(f))[I]
    BY DEF MapThenSumSet, MapThenFoldSet
  <2> HIDE DEF A, B
  <2>5. (CHOOSE f : f = A(f)) = (CHOOSE f : f = B(f))
    BY <2>2
  <2> QED
    BY <2>3, <2>4, <2>5
<1> HIDE DEF v, I, L
<1>8. Total(v, 1 .. n) = Total(v, I) + Total(v, (1 .. n) \ I)
  <2>1. I \cup ((1 .. n) \ I) = 1 .. n /\ I \cap ((1 .. n) \ I) = {}
    BY DEF I
  <2> DEFINE J == (1 .. n) \ I
  <2>2. \A i \in I \cup J : v[i] \in Nat
    BY <1>5, <2>1
  <2> HIDE DEF J
  <2>3. Total(v, I \cup J) = Total(v, I) + Total(v, J)
    BY <1>4, <2>1, <2>2, TotalUnion DEF J
  <2> QED
    BY <2>1, <2>3 DEF J
<1>9. Total(v, (1 .. n) \ I) = 0
  BY <1>4, <1>6, TotalZeros
<1>10. Total(v, 1 .. n) = Total(w, L)
  <2> DEFINE N == 1 .. n
  <2>1. Enumerates(q, N, L)
    BY <1>1 DEF Enumerates, L
  <2>2. IsFiniteSet(N) /\ \A i \in N : v[i] \in Nat /\ v[i] = w[q[i]]
    BY <1>4, <1>5
  <2> HIDE DEF N
  <2>3. Total(v, N) = Total(w, L)
    BY <2>1, <2>2, TotalImage
  <2> QED
    BY <2>3 DEF N
<1>11. Total(v, I) = Total(w, L)
  <2>1. Total(v, I) \in Nat
    <3>1. \A i \in I : v[i] \in Nat
      BY <1>5 DEF I
    <3> QED
      BY <1>4, <3>1, TotalRemove
  <2> QED
    BY <1>8, <1>9, <1>10, <2>1
<1>12. Total(w, active \cup L) = Total(w, active) + Total(w, L)
  BY <1>1, <1>2, <1>3, TotalUnion
<1>13. WearLevelingSum = Total(w, active) + Total(v, I)
  BY <1>7 DEF WearLevelingSum, Total, I
<1>14. MapThenSumSet(LAMBDA b : eraseCount[b], Blocks \ deadBlocks)
          = Total(w, active \cup L)
  BY <1>2 DEF Total
<1> QED
  BY <1>11, <1>12, <1>13, <1>14

\* The part of WearInvariant that holds for every geometry and mode.
WearKept == FreeListSorted /\ WornOutRetired /\ WearSumComplete

\* applyInitialWear sorts the list.
LEMMA FreshListSorted ==
  ASSUME Init
  PROVE  FreeListSorted
<1>1. /\ freeBlocks \in [1 .. TotalBlocks -> Blocks]
      /\ FreshOrder(freeBlocks, eraseCount)
      /\ TotalBlocks \in Nat
  BY ParameterAssumption DEF Init
<1>2. Len(freeBlocks) = TotalBlocks /\ eraseCount \in [Blocks -> Nat]
  BY <1>1, InitInductive DEF Inductive, TypeOK
<1> QED
  BY <1>1, <1>2 DEF FreshOrder, FreeListSorted

\* The wear accounting of src/simplessd/ftl/page_mapping.cc: getFreeBlock's list
\* is in order of wear, worn-out blocks and only those are retired, and
\* calculateWearLeveling sums all there is, for every geometry, number of
\* slots, host and mode, if no block starts worn out.
THEOREM WearAccounted ==
  ASSUME FreshDevice
  PROVE  Spec => []WearKept
<1> DEFINE Inv == Inductive /\ FreeListSorted /\ WornOutRetired
<1>1. Init => Inv
  <2> SUFFICES ASSUME Init
               PROVE  FreeListSorted /\ WornOutRetired
    BY InitInductive
  <2>3. FreeListSorted
    BY FreshListSorted
  <2>4. ASSUME NEW b \in Blocks
        PROVE  b \notin deadBlocks /\ ~(eraseCount[b] >= BadBlockThreshold)
    <3>1. deadBlocks = {}
      BY DEF Init
    <3>2. PICK Worn \in SUBSET Blocks :
             /\ Cardinality(Worn) = NWorn
             /\ eraseCount = [x \in Blocks |-> IF x \in Worn THEN PreEC ELSE 0]
      BY DEF Init
    <3>3. NWorn = 0 => Worn = {}
      <4>1. IsFiniteSet(Blocks)
        BY ParameterAssumption, FS_Interval DEF Blocks
      <4>2. IsFiniteSet(Worn)
        BY <4>1, FS_Subset
      <4> QED
        BY <3>2, <4>2, FS_EmptySet
    <3> QED
      BY <3>1, <3>2, <3>3, ParameterAssumption DEF FreshDevice
  <2> QED
    BY <2>3, <2>4 DEF WornOutRetired
<1>2. Inv /\ [Next]_vars => Inv'
  BY NextKeeps, ListStaysSorted, RetiredStaysExact
<1>3. Inv => WearKept
  BY SumIsComplete DEF WearKept
<1> QED
  BY <1>1, <1>2, <1>3, PTL DEF Spec


-----------------------------------------------------------------------------
(* Collections with one slot *)

\* One block is written at a time, pages have several units, and the host does
\* not format.
OneSlot == PageCountToMaxPerf = 1 /\ IoUnitInPage > 1 /\ "format" \notin HostOps

\* The block still holds valid data.
HoldsData(b) == \E c \in valid : c[1] = b

\* How far a collection is.  The open block is in use, and holds data when a
\* collection starts, so that it is a victim only until the first page is
\* copied: the copy opens another block, as victims are full.  Behind the copy
\* loop the victims are empty, and the erase loop takes each of them once.
Collecting ==
    /\ pc \notin {"ctor", "stopped"} => lastFreeBlock[0] \in active
    /\ pc = "select" => HoldsData(lastFreeBlock[0])
    /\ pc \in {"copy", "erase"} =>
          /\ vi \in 1 .. Len(victims)
          /\ \A i, j \in 1 .. Len(victims) : victims[i] = victims[j] => i = j
    /\ pc = "copy" => \A j \in 1 .. Len(victims) :
          /\ victims[j] \in active /\ Full(victims[j])
          /\ victims[j] = lastFreeBlock[0] => HoldsData(victims[j])
          /\ \A p \in Pages : \A u \in Units : <<victims[j], p, u>> \in valid =>
                j > vi \/ (j = vi /\ p >= page)
    /\ pc = "erase" => \A j \in vi .. Len(victims) :
          /\ victims[j] \in active
          /\ victims[j] # lastFreeBlock[0]
          /\ ~HoldsData(victims[j])

\* What an allocation does when there is one slot: the block that was open
\* stays open unless it is full, and a block that is opened was free.
LEMMA AllocateOpen ==
  ASSUME OneSlot, Inductive, pc # "stopped", NEW F \in (SUBSET Units) \ {{}},
         NEW d \in Blocks, NEW gone, NEW lpnOf,
         Target(F, d), Refusal(F, d) = "run", GetLastFreeBlock(F, d),
         WriteCells(F, d, gone, lpnOf), UNCHANGED wear
  PROVE  /\ lastFreeBlock'[0] = d
         /\ active' = active \cup {d}
         /\ Full(lastFreeBlock[0]) => d \notin active
         /\ ~Full(lastFreeBlock[0]) => d = lastFreeBlock[0]
         /\ HoldsData(d)'
         /\ \A b \in Blocks : b # d => (Full(b)' <=> Full(b))
         /\ \A b \in Blocks : b # d => \A p \in Pages : \A u \in Units :
               <<b, p, u>> \in valid' <=> <<b, p, u>> \in valid \ gone
<1>1. SlotFor(F) = 0 /\ 0 \in Slots /\ \A s \in Slots : s = 0
  <2>1. Slots = {0}
    BY DEF OneSlot, Slots
  <2> QED
    BY <2>1, SlotInRange DEF Inductive
<1>2. OpenBlock(F) = lastFreeBlock[0] /\ lastFreeBlock[0] \in active
  BY <1>1 DEF OpenBlock, Refusal
<1>3. active' = active \cup {d} /\ lastFreeBlock \in [Slots -> Blocks]
  BY AllocationKeepsPool DEF Inductive, TypeOK
<1>4. ASSUME Full(lastFreeBlock[0])
      PROVE  lastFreeBlock'[0] = d /\ d \notin active
  <2>1. lastFreeBlock' = [lastFreeBlock EXCEPT ![0] = d]
    BY <1>1, <1>2, <1>4 DEF GetLastFreeBlock, Opens
  <2>2. d \notin active
    BY <1>2, <1>4 DEF Refusal, Opens
  <2> QED
    BY <1>1, <1>3, <2>1, <2>2
<1>5. ASSUME ~Full(lastFreeBlock[0])
      PROVE  lastFreeBlock'[0] = d /\ d = lastFreeBlock[0]
  <2>1. lastFreeBlock' = lastFreeBlock /\ d = lastFreeBlock[0]
    BY <1>2, <1>5 DEF GetLastFreeBlock, Opens, Target, pool
  <2> QED
    BY <1>2, <2>1
<1>6. lastFreeBlock'[0] = d
  BY <1>4, <1>5
<1>7. HoldsData(d)'
  <2>1. PICK u \in F : TRUE
    OBVIOUS
  <2>2. <<d, nextPage[d][u], u>> \in valid'
    BY DEF WriteCells, NewCells
  <2> QED
    BY <2>2 DEF HoldsData
<1>8. ASSUME NEW b \in Blocks, b # d
      PROVE  Full(b)' <=> Full(b)
  <2>1. nextPage'[b] = nextPage[b]
    BY <1>8 DEF WriteCells, Inductive, TypeOK
  <2> QED
    BY <2>1 DEF Full
<1>9. ASSUME NEW b \in Blocks, b # d, NEW p \in Pages, NEW u \in Units
      PROVE  <<b, p, u>> \in valid' <=> <<b, p, u>> \in valid \ gone
  <2>1. <<b, p, u>> \notin NewCells(F, d)
    BY <1>9 DEF NewCells
  <2> QED
    BY <2>1 DEF WriteCells
<1> QED
  BY <1>2, <1>3, <1>4, <1>5, <1>6, <1>7, <1>8, <1>9

\* A host write or a write of initialize() leaves an open block that is in use
\* and holds data.
LEMMA WriteOpens ==
  ASSUME OneSlot, Inductive, pc # "stopped", NEW l \in LPNs,
         NEW F \in (SUBSET Units) \ {{}}, NEW d \in Blocks, Target(F, d),
         Refusal(F, d) = "run", WriteUnits(l, F, d)
  PROVE  lastFreeBlock'[0] \in active' /\ HoldsData(lastFreeBlock[0])'
<1> DEFINE lpnOf == [u \in Units |-> l]
           gone == OldCells(l, F)
<1>1. GetLastFreeBlock(F, d) /\ WriteCells(F, d, gone, lpnOf) /\ UNCHANGED wear
  BY DEF WriteUnits
<1> HIDE DEF lpnOf, gone
<1>2. lastFreeBlock'[0] = d /\ active' = active \cup {d} /\ HoldsData(d)'
  BY <1>1, AllocateOpen
<1> QED
  BY <1>2 DEF HoldsData


\* selectVictimBlock starts a collection of full blocks in use.
LEMMA SelectCollects ==
  ASSUME Inductive, Collecting, NEW list \in Lists(Candidates),
         SelectVictimBlock(list)
  PROVE  Collecting'
<1>1. /\ pc = "select" /\ victims' = list /\ vi' = 1 /\ page' = 0
      /\ pc' = IF list = << >> THEN "idle" ELSE "copy"
      /\ \A i, j \in 1 .. Len(list) : list[i] = list[j] => i = j
      /\ UNCHANGED <<valid, nextPage, active, lastFreeBlock>>
  BY DEF SelectVictimBlock, AfterSelect, media
<1>2. list \in Seq(Candidates)
  BY ListsAreSequences
<1>3. /\ lastFreeBlock[0] \in active /\ HoldsData(lastFreeBlock[0])
      /\ \A b : Full(b)' <=> Full(b)
      /\ \A b : HoldsData(b)' <=> HoldsData(b)
  BY <1>1 DEF Collecting, Full, HoldsData
<1>4. CASE list = << >>
  BY <1>1, <1>3, <1>4 DEF Collecting
<1>5. CASE list # << >>
  <2>1. Len(list) \in Nat /\ Len(list) # 0
    BY <1>2, <1>5, EmptySeq
  <2>2. ASSUME NEW j \in 1 .. Len(list)
        PROVE  /\ list[j] \in active /\ Full(list[j])
               /\ list[j] = lastFreeBlock[0] => HoldsData(list[j])
               /\ \A p \in Pages : j > 1 \/ (j = 1 /\ p >= 0)
    <3>1. list[j] \in Candidates
      BY <1>2
    <3>2. j \in Nat /\ j >= 1 /\ Pages \subseteq Nat
      BY <2>1, ParameterAssumption DEF Pages
    <3>3. list[j] \in active /\ Full(list[j])
      BY <3>1, Zenon DEF Candidates
    <3>4. list[j] = lastFreeBlock[0] => HoldsData(list[j])
      BY <1>3, Zenon
    <3> QED
      BY <3>2, <3>3, <3>4
  <2>3. /\ pc' = "copy" /\ 1 \in 1 .. Len(list)
        /\ lastFreeBlock'[0] \in active'
    BY <1>1, <1>3, <1>5, <2>1
  <2>4. ASSUME NEW j \in 1 .. Len(victims')
        PROVE  /\ victims'[j] \in active' /\ Full(victims[j])'
               /\ victims'[j] = lastFreeBlock'[0] => HoldsData(victims[j])'
               /\ \A p \in Pages : \A u \in Units :
                     <<victims'[j], p, u>> \in valid' =>
                         j > vi' \/ (j = vi' /\ p >= page')
    BY <1>1, <1>3, <2>2
  <2> QED
    BY <1>1, <2>3, <2>4 DEF Collecting
<1> QED
  BY <1>4, <1>5

\* One page is copied.  The block it is copied to is no victim, so the victims
\* only lose data, and nothing is left behind the page.
LEMMA CopyCollects ==
  ASSUME OneSlot, Inductive, Collecting, NEW i \in 1 .. Len(victims),
         NEW p \in Pages, NEW d \in Blocks, CopyPage(i, p, d)
  PROVE  Collecting'
<1> DEFINE b == victims[i]
           F == PageInfo(b, p)
           lpnOf == [u \in Units |-> owner[<<b, p, u>>]]
           gone == {<<b, p, u>> : u \in F}
<1>1. /\ pc = "copy" /\ Target(F, d) /\ NextCopy(i, p)
      /\ F = {u \in Units : <<b, p, u>> \in valid}
  BY DEF CopyPage, PageInfo, OneSlot
<1>2. F \in (SUBSET Units) \ {{}}
  BY <1>1 DEF NextCopy
<1>3. CASE pc' = "stopped"
  BY <1>3 DEF Collecting
<1>4. CASE pc' # "stopped"
  <2>1. /\ Refusal(F, d) = "run" /\ GetLastFreeBlock(F, d)
        /\ WriteCells(F, d, gone, lpnOf)
        /\ vi' = i /\ page' = p + 1 /\ pc' = "copy"
        /\ UNCHANGED <<victims, wear>>
    BY <1>1, <1>4 DEF CopyPage, Stop
  <2>2. gone = {<<b, p, u>> : u \in F}
    OBVIOUS
  <2> HIDE DEF F, gone, lpnOf
  <2>3. /\ lastFreeBlock'[0] = d
        /\ active' = active \cup {d}
        /\ Full(lastFreeBlock[0]) => d \notin active
        /\ ~Full(lastFreeBlock[0]) => d = lastFreeBlock[0]
        /\ HoldsData(d)'
        /\ \A x \in Blocks : x # d => (Full(x)' <=> Full(x))
        /\ \A x \in Blocks : x # d => \A q \in Pages : \A u \in Units :
              <<x, q, u>> \in valid' <=> <<x, q, u>> \in valid \ gone
    <3>1. pc # "stopped"
      BY <1>1
    <3> QED
      BY <1>1, <1>2, <2>1, <3>1, AllocateOpen
  <2>4. /\ vi \in 1 .. Len(victims)
        /\ \A j, k \in 1 .. Len(victims) : victims[j] = victims[k] => j = k
        /\ \A j \in 1 .. Len(victims) :
              /\ victims[j] \in active /\ Full(victims[j])
              /\ \A q \in Pages : \A u \in Units : <<victims[j], q, u>> \in valid =>
                    j > vi \/ (j = vi /\ q >= page)
        /\ victims \in Seq(Blocks) /\ Len(victims) \in Nat
    <3>1. victims \in Seq(Blocks) /\ Len(victims) \in Nat
      BY DEF Inductive, TypeOK
    <3>2. pc \in {"copy", "erase"}
      BY <1>1
    <3> QED
      BY <1>1, <3>1, <3>2, Zenon DEF Collecting
  <2>5. \A j \in 1 .. Len(victims) : victims[j] \in Blocks /\ victims[j] # d
    BY <2>3, <2>4
  <2>6. ASSUME NEW j \in 1 .. Len(victims), NEW q \in Pages, NEW u \in Units,
               <<victims[j], q, u>> \in valid'
        PROVE  j > i \/ (j = i /\ q >= p + 1)
    <3>1. <<victims[j], q, u>> \in valid /\ <<victims[j], q, u>> \notin gone
      BY <2>3, <2>5, <2>6
    <3>2. j > vi \/ (j = vi /\ q >= page)
      BY <2>4, <3>1
    <3>3. ~(j = i /\ q = p)
      BY <1>1, <2>2, <3>1
    <3>4. /\ j \in Nat /\ q \in Nat /\ p \in Nat /\ i \in Nat /\ vi \in Nat
          /\ page \in Nat
      BY <2>4, ParameterAssumption DEF Pages, Inductive, TypeOK
    <3>5. u \in PageInfo(victims[j], q)
      BY <3>1 DEF PageInfo
    <3>6. ~(j \in vi .. i /\ (j < i \/ q < p))
      BY <1>1, <3>2, <3>5 DEF NextCopy
    <3> QED
      BY <3>2, <3>3, <3>4, <3>6
  <2>7. ASSUME NEW j \in 1 .. Len(victims)
        PROVE  /\ victims[j] \in active' /\ Full(victims[j])'
               /\ victims[j] # lastFreeBlock'[0]
    BY <2>1, <2>3, <2>4, <2>5 DEF Full
  <2>8. lastFreeBlock'[0] \in active'
    BY <2>3
  <2> QED
    BY <2>1, <2>4, <2>6, <2>7, <2>8 DEF Collecting, Full
<1> QED
  BY <1>3, <1>4


\* Behind the copy loop no victim holds data, so none of them is the open
\* block.
LEMMA CopyDoneCollects ==
  ASSUME OneSlot, Inductive, Collecting, CopyDone
  PROVE  Collecting'
<1>1. /\ pc = "copy" /\ pc' = "erase" /\ vi' = 1 /\ NothingToCopy
      /\ UNCHANGED <<valid, active, lastFreeBlock, victims>>
  BY DEF CopyDone, media, pool
<1>2. victims \in Seq(Blocks) /\ Len(victims) \in Nat
  BY DEF Inductive, TypeOK
<1>3. /\ lastFreeBlock[0] \in active /\ vi \in 1 .. Len(victims)
      /\ \A i, j \in 1 .. Len(victims) : victims[i] = victims[j] => i = j
  <2>1. pc \in {"copy", "erase"} /\ pc \notin {"ctor", "stopped"}
    BY <1>1
  <2> QED
    BY <2>1, Zenon DEF Collecting
<1>4. ASSUME NEW j \in 1 .. Len(victims)
      PROVE  /\ victims[j] \in active /\ ~HoldsData(victims[j])
             /\ victims[j] # lastFreeBlock[0]
  <2>1. /\ victims[j] \in active
        /\ victims[j] = lastFreeBlock[0] => HoldsData(victims[j])
        /\ \A p \in Pages : \A u \in Units : <<victims[j], p, u>> \in valid =>
              j > vi \/ (j = vi /\ p >= page)
    BY <1>1, Zenon DEF Collecting
  <2>2. ASSUME NEW p \in Pages, NEW u \in Units, <<victims[j], p, u>> \in valid
        PROVE  FALSE
    <3>1. j > vi \/ (j = vi /\ p >= page)
      BY <2>1, <2>2
    <3>2. j \in vi .. Len(victims)
      BY <1>2, <1>3, <3>1
    <3>3. PageInfo(victims[j], p) = {}
      BY <1>1, <3>1, <3>2 DEF NothingToCopy
    <3> QED
      BY <2>2, <3>3 DEF PageInfo
  <2>3. ~HoldsData(victims[j])
    <3>1. ASSUME NEW c \in valid, c[1] = victims[j]
          PROVE  FALSE
      <4>1. c \in Cells
        BY DEF Inductive, TypeOK
      <4>2. c = <<c[1], c[2], c[3]>> /\ c[2] \in Pages /\ c[3] \in Units
        BY <4>1 DEF Cells
      <4> QED
        BY <2>2, <3>1, <4>2
    <3> QED
      BY <3>1 DEF HoldsData
  <2> QED
    BY <2>1, <2>3
<1>5. 1 \in 1 .. Len(victims)
  BY <1>2, <1>3
<1>6. \A b : HoldsData(b)' <=> HoldsData(b)
  BY <1>1 DEF HoldsData
<1> QED
  BY <1>1, <1>3, <1>4, <1>5, <1>6 DEF Collecting

\* eraseInternal takes one victim out of use; the others and the open block
\* stay.
LEMMA EraseCollects ==
  ASSUME Inductive, Collecting, EraseInternal
  PROVE  Collecting'
<1> DEFINE b == victims[vi]
<1>1. /\ pc = "erase"
      /\ \/ pc' = "stopped"
         \/ /\ active' = active \ {b}
            /\ \/ vi = Len(victims) /\ pc' = "idle"
               \/ /\ vi # Len(victims) /\ pc' = "erase"
                  /\ vi' = vi + 1 /\ victims' = victims
            /\ UNCHANGED <<valid, lastFreeBlock>>
  BY DEF EraseInternal, Stop
<1>2. /\ lastFreeBlock[0] \in active /\ vi \in 1 .. Len(victims)
      /\ \A i, j \in 1 .. Len(victims) : victims[i] = victims[j] => i = j
      /\ \A j \in vi .. Len(victims) :
            /\ victims[j] \in active /\ victims[j] # lastFreeBlock[0]
            /\ ~HoldsData(victims[j])
  <2>1. pc \in {"copy", "erase"} /\ pc \notin {"ctor", "stopped"}
    BY <1>1
  <2> QED
    BY <1>1, <2>1, Zenon DEF Collecting
<1>3. victims \in Seq(Blocks) /\ Len(victims) \in Nat
  BY DEF Inductive, TypeOK
<1>4. vi \in vi .. Len(victims) /\ b # lastFreeBlock[0]
  BY <1>2, <1>3
<1>5. CASE pc' = "stopped"
  BY <1>5 DEF Collecting
<1>6. CASE pc' = "idle"
  BY <1>1, <1>2, <1>4, <1>6 DEF Collecting
<1>7. CASE pc' = "erase"
  <2>1. /\ active' = active \ {b} /\ vi # Len(victims)
        /\ vi' = vi + 1 /\ UNCHANGED <<victims, valid, lastFreeBlock>>
    BY <1>1, <1>7
  <2>2. vi + 1 \in 1 .. Len(victims)
    BY <1>2, <1>3, <2>1
  <2>3. \A x : HoldsData(x)' <=> HoldsData(x)
    BY <2>1 DEF HoldsData
  <2>4. ASSUME NEW j \in vi + 1 .. Len(victims)
        PROVE  /\ victims[j] \in active' /\ victims[j] # lastFreeBlock'[0]
               /\ ~HoldsData(victims[j])'
    <3>1. j \in vi .. Len(victims) /\ j \in 1 .. Len(victims) /\ j # vi
      BY <1>2, <1>3
    <3>2. victims[j] # b
      BY <1>2, <3>1
    <3> QED
      BY <1>2, <2>1, <2>3, <3>1, <3>2
  <2>5. lastFreeBlock'[0] \in active'
    BY <1>2, <1>4, <2>1
  <2> QED
    BY <1>2, <1>7, <2>1, <2>2, <2>4, <2>5 DEF Collecting
<1> QED
  BY <1>1, <1>5, <1>6, <1>7


\* The constructor opens one block per slot.
Opening == pc = "ctor" => loop < PageCountToMaxPerf

\* The loop of the constructor ends with the last slot.
LEMMA OpeningBounded ==
  ASSUME Inductive, Opening, [Next]_vars
  PROVE  Opening'
<1>1. CASE pc' # "ctor"
  BY <1>1 DEF Opening
<1>2. CASE pc' = "ctor"
  <2>1. \/ \E d \in Blocks : OpenSlot(d)
        \/ UNCHANGED <<pc, loop>>
    <3>1. ASSUME NEW why, Stop(why) PROVE FALSE
      BY <1>2, <3>1 DEF Stop
    <3>2. ASSUME NEW l \in LPNs, NEW d \in Blocks, Warmup(l, d) \/ Invalidation(l, d)
          PROVE  FALSE
      BY <1>2, <3>1, <3>2 DEF Warmup, Invalidation, InitialWrite
    <3>3. CASE InitializeNext
      BY <1>2, <3>3 DEF InitializeNext
    <3>4. ASSUME NEW l \in LPNs, Read(l) \/ Trim(l)
          PROVE  FALSE
      BY <1>2, <3>1, <3>4 DEF Read, Trim, vars, control
    <3>5. ASSUME NEW l \in LPNs, NEW F \in Flags, NEW d \in Blocks, Write(l, F, d)
          PROVE  FALSE
      BY <1>2, <3>1, <3>5 DEF Write
    <3>6. ASSUME NEW lo \in LPNs, NEW hi \in LPNs, Format(lo, hi)
          PROVE  FALSE
      BY <1>2, <3>1, <3>6 DEF Format
    <3>7. ASSUME NEW list \in Lists(Candidates), SelectVictimBlock(list)
          PROVE  FALSE
      BY <1>2, <3>7 DEF SelectVictimBlock, AfterSelect
    <3>8. CASE SamplingStuck
      BY <3>1, <3>8 DEF SamplingStuck
    <3>9. ASSUME NEW i \in 1 .. Len(victims), NEW p \in Pages, NEW d \in Blocks,
                 CopyPage(i, p, d)
          PROVE  FALSE
      BY <1>2, <3>1, <3>9 DEF CopyPage
    <3>10. CASE CopyDone
      BY <1>2, <3>10 DEF CopyDone
    <3>11. CASE EraseInternal
      BY <1>2, <3>1, <3>11 DEF EraseInternal
    <3>12. CASE Over \/ UNCHANGED vars
      BY <3>12 DEF Over, vars, control
    <3> QED
      BY <3>2, <3>3, <3>4, <3>5, <3>6, <3>7, <3>8, <3>9, <3>10, <3>11, <3>12
         DEF Next
  <2>2. ASSUME NEW d \in Blocks, OpenSlot(d)
        PROVE  Opening'
    <3>1. pc = "ctor" /\ loop' = loop + 1 /\ loop + 1 # PageCountToMaxPerf
      BY <1>2, <2>2 DEF OpenSlot, Stop
    <3> QED
      BY <3>1, ParameterAssumption DEF Opening, Inductive, TypeOK
  <2>3. CASE UNCHANGED <<pc, loop>>
    BY <2>3 DEF Opening
  <2> QED
    BY <2>1, <2>2, <2>3
<1> QED
  BY <1>1, <1>2

\* One step, by action: a collection stays on track.
LEMMA NextCollects ==
  ASSUME OneSlot, Inductive, Opening, Collecting, [Next]_vars
  PROVE  Collecting'
<1>1. ASSUME NEW why, Stop(why) PROVE Collecting'
  BY <1>1 DEF Stop, Collecting
<1>2. ASSUME UNCHANGED <<valid, nextPage, active, lastFreeBlock>>, UNCHANGED control
      PROVE  Collecting'
  <2>1. /\ \A b : Full(b)' <=> Full(b)
        /\ \A b : HoldsData(b)' <=> HoldsData(b)
    BY <1>2 DEF Full, HoldsData
  <2>2. UNCHANGED <<valid, active, lastFreeBlock, pc, victims, vi, page>>
    BY <1>2 DEF control
  <2> QED
    BY <2>1, <2>2 DEF Collecting
<1>3. ASSUME NEW d \in Blocks, OpenSlot(d)
      PROVE  Collecting'
  <2>1. CASE pc' \in {"ctor", "stopped"}
    BY <2>1 DEF Collecting
  <2>2. CASE pc' \notin {"ctor", "stopped"}
    <3>1. /\ pc = "ctor" /\ pc' = "warmup" /\ active' = active \cup {d}
          /\ lastFreeBlock' = [lastFreeBlock EXCEPT ![loop] = d]
      BY <1>3, <2>2 DEF OpenSlot, Stop, TakeFreeBlock
    <3>2. loop = 0 /\ 0 \in Slots
      BY <3>1 DEF OneSlot, Opening, Inductive, TypeOK, Slots
    <3>3. lastFreeBlock'[0] = d
      BY <3>1, <3>2 DEF Inductive, TypeOK
    <3> QED
      BY <3>1, <3>3 DEF Collecting
  <2> QED
    BY <2>1, <2>2
<1>4. ASSUME NEW l \in LPNs, NEW d \in Blocks, Warmup(l, d) \/ Invalidation(l, d)
      PROVE  Collecting'
  <2>1. InitialWrite(l, d) /\ pc \in {"warmup", "invalidate"} /\ pc # "stopped"
    BY <1>4 DEF Warmup, Invalidation
  <2>2. CASE pc' = "stopped"
    BY <2>2 DEF Collecting
  <2>3. CASE pc' # "stopped"
    <3>1. /\ Target(Units, d) /\ Refusal(Units, d) = "run"
          /\ WriteUnits(l, Units, d) /\ pc' = pc
      BY <2>1, <2>3 DEF InitialWrite, Stop
    <3>2. Units \in (SUBSET Units) \ {{}}
      BY Nonempty
    <3>3. lastFreeBlock'[0] \in active'
      BY <2>1, <3>1, <3>2, WriteOpens
    <3> QED
      BY <2>1, <3>1, <3>3 DEF Collecting
  <2> QED
    BY <2>2, <2>3
<1>5. CASE InitializeNext
  <2>1. /\ pc \in {"warmup", "invalidate"} /\ pc' \in {"invalidate", "idle"}
        /\ UNCHANGED <<active, lastFreeBlock>>
    BY <1>5 DEF InitializeNext, pool
  <2> QED
    BY <2>1 DEF Collecting
<1>6. ASSUME NEW l \in LPNs, Read(l)
      PROVE  Collecting'
  BY <1>1, <1>2, <1>6 DEF Read, vars, media, pool
<1>7. ASSUME NEW l \in LPNs, Trim(l)
      PROVE  Collecting'
  <2>1. \/ Stop("notinuse")
        \/ pc = "idle" /\ pc' = "idle" /\ UNCHANGED <<active, lastFreeBlock>>
    BY <1>7 DEF Trim, pool, control
  <2> QED
    BY <1>1, <2>1 DEF Collecting
<1>8. ASSUME NEW l \in LPNs, NEW F \in Flags, NEW d \in Blocks, Write(l, F, d)
      PROVE  Collecting'
  <2>1. CASE Refusal(F, d) # "run"
    BY <1>1, <1>8, <2>1 DEF Write
  <2>2. CASE Refusal(F, d) = "run"
    <3>1. /\ pc # "stopped" /\ Target(F, d) /\ WriteUnits(l, F, d)
          /\ pc' \in {"select", "idle"}
      BY <1>8, <2>2 DEF Write
    <3>2. F \in (SUBSET Units) \ {{}}
      BY Nonempty DEF Flags
    <3>3. lastFreeBlock'[0] \in active' /\ HoldsData(lastFreeBlock[0])'
      BY <2>2, <3>1, <3>2, WriteOpens
    <3> QED
      BY <3>1, <3>3 DEF Collecting
  <2> QED
    BY <2>1, <2>2
<1>9. ASSUME NEW lo \in LPNs, NEW hi \in LPNs, Format(lo, hi)
      PROVE  FALSE
  BY <1>9 DEF Format, OneSlot
<1>10. ASSUME NEW list \in Lists(Candidates), SelectVictimBlock(list)
       PROVE  Collecting'
  BY <1>10, SelectCollects
<1>11. CASE SamplingStuck
  BY <1>1, <1>11 DEF SamplingStuck
<1>12. ASSUME NEW i \in 1 .. Len(victims), NEW p \in Pages, NEW d \in Blocks,
              CopyPage(i, p, d)
       PROVE  Collecting'
  BY <1>12, CopyCollects
<1>13. CASE CopyDone
  BY <1>13, CopyDoneCollects
<1>14. CASE EraseInternal
  BY <1>14, EraseCollects
<1>15. CASE Over \/ UNCHANGED vars
  BY <1>2, <1>15 DEF Over, vars, media, pool
<1> QED
  BY <1>3, <1>4, <1>5, <1>6, <1>7, <1>8, <1>9, <1>10, <1>11, <1>12, <1>13,
     <1>14, <1>15 DEF Next

\* Collections of a device with one slot stay on track in every reachable
\* state.
LEMMA CollectingInvariant ==
  ASSUME OneSlot
  PROVE  Spec => []Collecting
<1>1. Init => Inductive /\ Opening /\ Collecting
  <2>1. Init => Opening /\ Collecting
    BY ParameterAssumption DEF Init, Opening, Collecting
  <2> QED
    BY <2>1, InitInductive
<1>2. Inductive /\ Opening /\ Collecting /\ [Next]_vars
        => (Inductive /\ Opening /\ Collecting)'
  BY NextKeeps, OpeningBounded, NextCollects
<1> QED
  BY <1>1, <1>2, PTL DEF Spec

\* The wear accounting and the sanity check "Corrupted" of getLastFreeBlock
\* (src/simplessd/ftl/page_mapping.cc): through collections, copies and block
\* deaths the open block stays in use, for every geometry with one slot, every
\* policy and every host that does not format.
THEOREM WearSafe ==
  ASSUME FreshDevice, OneSlot
  PROVE  Spec => []WearInvariant
<1>1. Collecting => OpenBlocksInUse
  BY DEF Collecting, OpenBlocksInUse, OneSlot, Slots
<1>2. WearKept /\ Collecting => WearInvariant
  BY <1>1 DEF WearKept, WearInvariant
<1> QED
  BY <1>2, WearAccounted, CollectingInvariant, PTL


-----------------------------------------------------------------------------
(* initialize() writes less than what starts a collection *)

\* The pages that initialize() is asked to write fit in front of the
\* collection threshold.
WarmupFits == NPagesToWarmup <= MaxPagesBeforeGC

\* The pages written by initialize(), the write pointers of the open blocks
\* and the number of blocks opened since the constructor.
Written   == IF pc = "invalidate" THEN NPagesToWarmup + loop ELSE loop
OpenPages == [s \in Slots |-> nextPage[lastFreeBlock[s]][0]]
Opened    == TotalBlocks - PageCountToMaxPerf - nFreeBlocks

\* The slots below n have blocks of their own, which are in use.
OwnBlocks(n) ==
    /\ \A s \in 0 .. n - 1 : lastFreeBlock[s] \in active
    /\ \A s, t \in 0 .. n - 1 : lastFreeBlock[s] = lastFreeBlock[t] => s = t

\* While initialize() runs, whole pages have been written, to the blocks that
\* are full by now and to the open ones, and not more of them than allowed.
Counted ==
    /\ pc = "ctor" =>
          /\ nFreeBlocks = TotalBlocks - loop
          /\ \A b \in Blocks : \A u \in Units : nextPage[b][u] = 0
          /\ OwnBlocks(loop)
    /\ pc \in {"warmup", "invalidate"} =>
          /\ OwnBlocks(PageCountToMaxPerf)
          /\ \A s \in Slots : \A u \in Units :
                nextPage[lastFreeBlock[s]][u] = OpenPages[s]
          /\ Opened * PagesInBlock + Total(OpenPages, Slots) = Written
    /\ pc = "warmup" => loop <= NPagesToWarmup
    /\ pc = "invalidate" => loop <= PagesToInvalidate

\* The loops of initialize() write at most maxPagesBeforeGC pages.
LEMMA InvalidationFits ==
  ASSUME WarmupFits
  PROVE  /\ PagesToInvalidate \in Nat
         /\ NPagesToWarmup + PagesToInvalidate <= MaxPagesBeforeGC
<1> DEFINE X == TotalBlocks * (100 - GCThresholdPct) - 100 * PageCountToMaxPerf
<1>1. X \in Nat
  <2>1. TotalBlocks * (100 - GCThresholdPct) \in Int
    BY ParameterAssumption
  <2> QED
    BY <2>1, ParameterAssumption
<1>2. PagesInBlock * X \in Nat
  <2> HIDE DEF X
  <2> QED
    BY <1>1, ParameterAssumption, SMT
<1>3. MaxPagesBeforeGC \in Nat
  <2>1. MaxPagesBeforeGC = (PagesInBlock * X) \div 100
    BY DEF MaxPagesBeforeGC
  <2> HIDE DEF X
  <2>2. \A n \in Nat : n \div 100 \in Nat
    BY SMT
  <2> QED
    BY <1>2, <2>1, <2>2
<1> QED
  BY <1>3, ParameterAssumption DEF PagesToInvalidate, WarmupFits

\* freeBlockRatio() stays above the threshold while no more than
\* maxPagesBeforeGC pages fill the blocks that were opened.
LEMMA NoNeedForGC ==
  ASSUME NEW n \in Nat,
         (TotalBlocks - PageCountToMaxPerf - n) * PagesInBlock <= MaxPagesBeforeGC
  PROVE  ~NeedsGC(n)
<1> DEFINE Y == TotalBlocks * GCThresholdPct
           X == 100 * TotalBlocks - Y - 100 * PageCountToMaxPerf
           O == TotalBlocks - PageCountToMaxPerf - n
           B == PagesInBlock
<1>1. Y \in Nat /\ X \in Int /\ O \in Int /\ B \in Nat \ {0}
  BY ParameterAssumption
<1>2. TotalBlocks * (100 - GCThresholdPct) - 100 * PageCountToMaxPerf = X
  BY ParameterAssumption, SMT
<1>3. MaxPagesBeforeGC = (B * X) \div 100
  BY <1>2 DEF MaxPagesBeforeGC
<1>4. O * B <= (B * X) \div 100
  BY <1>3
<1>5. NeedsGC(n) => 100 * n < Y
  BY ParameterAssumption DEF NeedsGC
<1>6. 100 * n < Y => 100 * O > X
  <2> HIDE DEF Y
  <2> QED
    BY <1>1, ParameterAssumption
<1> HIDE DEF X, Y, O, B
<1>7. ASSUME 100 * O > X PROVE FALSE
  <2>1. B * X \in Int /\ O * B \in Int
    BY <1>1, SMT
  <2>2. 100 * ((B * X) \div 100) <= B * X
    <3> DEFINE z == B * X
    <3>1. z \in Int
      BY <2>1
    <3> HIDE DEF z
    <3>2. 100 * (z \div 100) <= z
      BY <3>1, SMT
    <3> QED
      BY <3>2 DEF z
  <2>3. 100 * (O * B) <= B * X
    <3> DEFINE z == B * X
               y == O * B
               x == (B * X) \div 100
    <3>1. z \in Int /\ y \in Int /\ x \in Int /\ y <= x /\ 100 * x <= z
      BY <1>4, <2>1, <2>2, SMT
    <3> HIDE DEF x, y, z
    <3>2. 100 * y <= z
      BY <3>1
    <3> QED
      BY <3>2 DEF y, z
  <2>4. 100 * O >= X + 1
    BY <1>1, <1>7
  <2>5. B * (100 * O) >= B * (X + 1)
    <3>1. \A a, c \in Int : a >= c => B * a >= B * c
      BY <1>1, SMT
    <3> QED
      BY <1>1, <2>4, <3>1
  <2>6. B * (100 * O) = 100 * (O * B) /\ B * (X + 1) = B * X + B
    BY <1>1, SMT
  <2> QED
    BY <1>1, <2>1, <2>3, <2>5, <2>6
<1> QED
  BY <1>5, <1>6, <1>7


\* The constructor's getFreeBlock calls: every slot gets a blank block.
LEMMA OpenSlotCounts ==
  ASSUME Inductive, Opening, Counted, NEW d \in Blocks, OpenSlot(d)
  PROVE  Counted'
<1>1. CASE pc' = "stopped"
  BY <1>1 DEF Counted
<1>2. CASE pc' # "stopped"
  <2>1. /\ pc = "ctor" /\ d \notin active
        /\ active' = active \cup {d} /\ nFreeBlocks' = nFreeBlocks - 1
        /\ lastFreeBlock' = [lastFreeBlock EXCEPT ![loop] = d]
        /\ \/ loop + 1 = PageCountToMaxPerf /\ pc' = "warmup" /\ loop' = 0
           \/ loop' = loop + 1 /\ pc' = "ctor"
        /\ UNCHANGED nextPage
    BY <1>2 DEF OpenSlot, Stop, TakeFreeBlock, media
  <2>2. /\ nFreeBlocks = TotalBlocks - loop
        /\ \A b \in Blocks : \A u \in Units : nextPage[b][u] = 0
        /\ OwnBlocks(loop)
    BY <2>1 DEF Counted
  <2>3. /\ loop \in Nat /\ loop < PageCountToMaxPerf /\ loop \in Slots
        /\ PageCountToMaxPerf \in Nat /\ TotalBlocks \in Nat
    BY <2>1, ParameterAssumption DEF Opening, Inductive, TypeOK, Slots
  <2>4. \A s \in 0 .. loop : lastFreeBlock'[s] = IF s = loop THEN d ELSE lastFreeBlock[s]
    <3>1. \A s \in 0 .. loop : s \in Slots
      BY <2>3 DEF Slots
    <3> QED
      BY <2>1, <2>3, <3>1 DEF Inductive, TypeOK
  <2>5. /\ \A s \in 0 .. loop : lastFreeBlock'[s] \in active'
        /\ \A s, t \in 0 .. loop : lastFreeBlock'[s] = lastFreeBlock'[t] => s = t
    <3>1. \A s \in 0 .. loop : s = loop \/ s \in 0 .. loop - 1
      BY <2>3
    <3>3. ASSUME NEW s \in 0 .. loop PROVE lastFreeBlock'[s] \in active'
      BY <2>1, <2>2, <2>4, <3>1, <3>3 DEF OwnBlocks
    <3>4. ASSUME NEW s \in 0 .. loop, NEW t \in 0 .. loop,
                 lastFreeBlock'[s] = lastFreeBlock'[t]
          PROVE  s = t
      BY <2>1, <2>2, <2>4, <3>1, <3>4 DEF OwnBlocks
    <3> QED
      BY <3>3, <3>4
  <2>6. CASE pc' = "ctor"
    <3>1. loop' = loop + 1 /\ nFreeBlocks' = TotalBlocks - loop'
      BY <2>1, <2>2, <2>3, <2>6, <1>2
    <3>2. OwnBlocks(loop)'
      <4>1. 0 .. loop' - 1 = 0 .. loop
        BY <2>3, <3>1
      <4> QED
        BY <2>5, <4>1 DEF OwnBlocks
    <3> QED
      BY <2>1, <2>2, <2>6, <3>1, <3>2 DEF Counted
  <2>7. CASE pc' = "warmup"
    <3>1. loop' = 0 /\ loop + 1 = PageCountToMaxPerf
      BY <2>1, <2>7
    <3>2. OwnBlocks(PageCountToMaxPerf)'
      <4>1. 0 .. PageCountToMaxPerf - 1 = 0 .. loop
        BY <2>3, <3>1
      <4> QED
        BY <2>5, <4>1 DEF OwnBlocks
    <3>3. \A s \in Slots : OpenPages'[s] = 0
      <4>1. \A s \in Slots : lastFreeBlock'[s] \in Blocks
        BY OpenSlotKeeps DEF Inductive, TypeOK
      <4>2. 0 \in Units
        BY ParameterAssumption DEF Units
      <4> QED
        BY <2>1, <2>2, <4>1, <4>2 DEF OpenPages
    <3>4. \A s \in Slots : \A u \in Units :
             nextPage'[lastFreeBlock'[s]][u] = OpenPages'[s]
      <4>1. \A s \in Slots : lastFreeBlock'[s] \in Blocks
        BY OpenSlotKeeps DEF Inductive, TypeOK
      <4> QED
        BY <2>1, <2>2, <3>3, <4>1
    <3>5. Total(OpenPages, Slots)' = 0
      <4>1. IsFiniteSet(Slots)
        BY ParameterAssumption, FS_Interval DEF Slots
      <4> QED
        BY <3>3, <4>1, TotalZeros
    <3>6. Opened' * PagesInBlock = 0
      <4>1. Opened' = 0
        BY <2>1, <2>2, <2>3, <3>1 DEF Opened
      <4> QED
        BY <4>1, ParameterAssumption
    <3>7. Written' = 0 /\ loop' <= NPagesToWarmup
      BY <2>7, <3>1, ParameterAssumption DEF Written
    <3> QED
      BY <2>7, <3>2, <3>4, <3>5, <3>6, <3>7 DEF Counted
  <2> QED
    BY <2>1, <2>6, <2>7
<1> QED
  BY <1>1, <1>2


\* A page written by initialize() moves one write pointer: of the open block of
\* the slot, or of the blank block that replaces a full one.
LEMMA InitialWriteCounts ==
  ASSUME Inductive, Counted, pc \in {"warmup", "invalidate"},
         NEW l \in LPNs, NEW d \in Blocks,
         Target(Units, d), Refusal(Units, d) = "run", WriteUnits(l, Units, d)
  PROVE  /\ OwnBlocks(PageCountToMaxPerf)'
         /\ \A s \in Slots : \A u \in Units :
               nextPage'[lastFreeBlock'[s]][u] = OpenPages'[s]
         /\ nFreeBlocks' \in Nat
         /\ Total(OpenPages, Slots)' \in Nat
         /\ Opened' * PagesInBlock + Total(OpenPages, Slots)' = Written + 1
<1> DEFINE r == SlotFor(Units)
           o == lastFreeBlock[r]
<1>1. /\ pc # "stopped" /\ Units \in SUBSET Units /\ 0 \in Units
      /\ GetLastFreeBlock(Units, d)
      /\ WriteCells(Units, d, OldCells(l, Units), [u \in Units |-> l])
      /\ UNCHANGED wear
      /\ PagesInBlock \in Nat \ {0} /\ IsFiniteSet(Slots)
  <2>1. IsFiniteSet(Slots)
    BY ParameterAssumption, FS_Interval DEF Slots
  <2>2. 0 \in Units
    BY ParameterAssumption DEF Units
  <2> QED
    BY <2>1, <2>2, ParameterAssumption DEF WriteUnits
<1>2. /\ OwnBlocks(PageCountToMaxPerf)
      /\ \A s \in Slots : \A u \in Units :
            nextPage[lastFreeBlock[s]][u] = OpenPages[s]
      /\ Opened * PagesInBlock + Total(OpenPages, Slots) = Written
  BY DEF Counted
<1>3. /\ \A s \in Slots : lastFreeBlock[s] \in active
      /\ \A s, t \in Slots : lastFreeBlock[s] = lastFreeBlock[t] => s = t
  BY <1>2 DEF OwnBlocks, Slots
<1>4. /\ r \in Slots /\ OpenBlock(Units) = o
      /\ lastFreeBlock \in [Slots -> Blocks]
      /\ nextPage \in [Blocks -> [Units -> 0 .. PagesInBlock]]
  BY SlotInRange DEF OpenBlock, Inductive, TypeOK
<1>5. /\ active' = active \cup {d} /\ nFreeBlocks' \in Nat
      /\ lastFreeBlock' \in [Slots -> Blocks] /\ nFreeBlocks \in Nat
  BY <1>1, AllocationKeepsPool DEF Inductive, TypeOK
<1>6. \A b \in Blocks : \A u \in Units :
         nextPage'[b][u] = IF b = d THEN nextPage[b][u] + 1 ELSE nextPage[b][u]
  BY <1>1, <1>4 DEF WriteCells
<1>7. /\ \A s \in Slots : lastFreeBlock'[s] = IF s = r THEN d ELSE lastFreeBlock[s]
      /\ \A s \in Slots : s # r => lastFreeBlock[s] # d
      /\ \/ /\ d = o /\ nFreeBlocks' = nFreeBlocks
         \/ /\ d # o /\ nFreeBlocks' = nFreeBlocks - 1
            /\ \A u \in Units : nextPage[d][u] = 0
            /\ OpenPages[r] = PagesInBlock
  <2>1. CASE Full(o)
    <3>1. /\ d \notin active /\ nFreeBlocks # 0 /\ Listed(d)
      BY <1>4, <2>1 DEF Refusal, Opens, Target, Inductive, TypeOK
    <3>2. /\ lastFreeBlock' = [lastFreeBlock EXCEPT ![r] = d]
          /\ nFreeBlocks' = nFreeBlocks - 1
      BY <1>1, <1>4, <2>1 DEF GetLastFreeBlock, Opens, TakeFreeBlock
    <3>3. \A u \in Units : nextPage[d][u] = 0
      BY <1>1, <3>1 DEF Inductive, FreeBlocksBlank
    <3>4. OpenPages[r] = PagesInBlock
      BY <1>2, <1>4, <2>1 DEF Full
    <3> QED
      BY <1>3, <1>4, <3>1, <3>2, <3>3, <3>4
  <2>2. CASE ~Full(o)
    <3>1. d = o /\ lastFreeBlock' = lastFreeBlock /\ nFreeBlocks' = nFreeBlocks
      BY <1>1, <1>4, <2>2 DEF GetLastFreeBlock, Opens, Target, pool
    <3> QED
      BY <1>3, <1>4, <3>1
  <2> QED
    BY <2>1, <2>2
<1> HIDE DEF r, o
<1>8. OwnBlocks(PageCountToMaxPerf)'
  <2>1. \A s \in Slots : lastFreeBlock'[s] \in active'
    BY <1>3, <1>5, <1>7
  <2>2. \A s, t \in Slots : lastFreeBlock'[s] = lastFreeBlock'[t] => s = t
    BY <1>3, <1>7
  <2> QED
    BY <2>1, <2>2 DEF OwnBlocks, Slots
<1> DEFINE w == OpenPages
           v == OpenPages'
<1>9. /\ \A s \in Slots : w[s] = nextPage[lastFreeBlock[s]][0]
      /\ \A s \in Slots : v[s] = nextPage'[lastFreeBlock'[s]][0]
  BY DEF OpenPages
<1>10. /\ \A s \in Slots : s # r => v[s] = w[s]
       /\ v[r] = nextPage[d][0] + 1
  <2>1. ASSUME NEW s \in Slots, s # r PROVE v[s] = w[s]
    <3>1. lastFreeBlock'[s] = lastFreeBlock[s] /\ lastFreeBlock[s] # d
      BY <1>7, <2>1
    <3>2. lastFreeBlock[s] \in Blocks
      BY <1>4
    <3>3. nextPage'[lastFreeBlock[s]][0] = nextPage[lastFreeBlock[s]][0]
      BY <1>1, <1>6, <3>1, <3>2
    <3> QED
      BY <1>9, <3>1, <3>3
  <2>2. v[r] = nextPage[d][0] + 1
    <3>1. lastFreeBlock'[r] = d /\ r \in Slots
      BY <1>4, <1>7
    <3>2. nextPage'[d][0] = nextPage[d][0] + 1
      BY <1>1, <1>6
    <3> QED
      BY <1>9, <3>1, <3>2
  <2> QED
    BY <2>1, <2>2
<1>11. \A s \in Slots : \A u \in Units : nextPage'[lastFreeBlock'[s]][u] = v[s]
  <2> SUFFICES ASSUME NEW s \in Slots, NEW u \in Units
               PROVE  nextPage'[lastFreeBlock'[s]][u] = nextPage'[lastFreeBlock'[s]][0]
    BY <1>9
  <2>1. CASE s # r
    <3>1. nextPage[lastFreeBlock[s]][u] = nextPage[lastFreeBlock[s]][0]
      BY <1>2, <1>9
    <3> QED
      BY <1>1, <1>4, <1>6, <1>7, <2>1, <3>1
  <2>2. CASE s = r
    <3>1. nextPage[d][u] = nextPage[d][0]
      BY <1>1, <1>2, <1>4, <1>7, <1>9 DEF o
    <3> QED
      BY <1>1, <1>4, <1>6, <1>7, <2>2, <3>1
  <2> QED
    BY <2>1, <2>2
<1>12. \A s \in Slots : w[s] \in Nat /\ v[s] \in Nat
  <2>1. \A b \in Blocks : nextPage[b][0] \in Nat
    BY <1>1, <1>4
  <2>2. \A s \in Slots : w[s] \in Nat
    BY <1>4, <1>9, <2>1
  <2> QED
    BY <1>10, <2>1, <2>2
<1> HIDE DEF w, v
<1>13. /\ Total(w, Slots) \in Nat /\ Total(v, Slots) \in Nat
       /\ Total(v, Slots) + w[r] = Total(w, Slots) + v[r]
  <2>1. IsFiniteSet(Slots) /\ r \in Slots
    BY <1>1, <1>4
  <2>2. \A s \in Slots : s # r => v[s] = w[s]
    BY <1>10
  <2> QED
    BY <1>12, <2>1, <2>2, TotalChange
<1>14. Opened' * PagesInBlock + Total(v, Slots)
          = Opened * PagesInBlock + Total(w, Slots) + 1
  <2>1. Opened \in Int /\ Opened * PagesInBlock \in Int
    BY <1>5, ParameterAssumption, SMT DEF Opened
  <2>2. CASE d = o /\ nFreeBlocks' = nFreeBlocks
    <3>1. Opened' = Opened /\ v[r] = w[r] + 1
      BY <1>4, <1>9, <1>10, <2>2 DEF Opened, o
    <3>2. w[r] \in Nat
      BY <1>4, <1>12
    <3> QED
      BY <1>13, <2>1, <3>1, <3>2
  <2>3. CASE /\ nFreeBlocks' = nFreeBlocks - 1 /\ OpenPages[r] = PagesInBlock
             /\ \A u \in Units : nextPage[d][u] = 0
    <3>1. Opened' = Opened + 1 /\ v[r] = 1 /\ w[r] = PagesInBlock
      BY <1>1, <1>5, <1>10, <2>3, ParameterAssumption DEF Opened, w
    <3>2. Opened' * PagesInBlock = Opened * PagesInBlock + PagesInBlock
      BY <1>1, <2>1, <3>1, SMT
    <3> QED
      BY <1>1, <1>13, <2>1, <3>1, <3>2
  <2> QED
    BY <1>7, <2>2, <2>3
<1>15. Opened' * PagesInBlock + Total(v, Slots) = Written + 1
  BY <1>2, <1>14 DEF w
<1> QED
  BY <1>5, <1>8, <1>11, <1>13, <1>15 DEF v


\* One step, by action: initialize() is counted, and ends below the threshold.
LEMMA NextCounts ==
  ASSUME WarmupFits, Inductive, Opening, Counted, InitNeverCollects, [Next]_vars
  PROVE  Counted' /\ InitNeverCollects'
<1>1. ASSUME NEW why, Stop(why), why # "initgc"
      PROVE  Counted' /\ InitNeverCollects'
  BY <1>1 DEF Stop, Counted, InitNeverCollects
<1>2. ASSUME pc' \notin {"ctor", "warmup", "invalidate"}, UNCHANGED outcome
      PROVE  Counted' /\ InitNeverCollects'
  BY <1>2 DEF Counted, InitNeverCollects
<1>3. ASSUME NEW F, NEW d PROVE Refusal(F, d) # "initgc"
  BY DEF Refusal
<1>4. ASSUME NEW d \in Blocks, OpenSlot(d)
      PROVE  Counted' /\ InitNeverCollects'
  <2>1. outcome' = outcome \/ outcome' = "corrupted"
    BY <1>4 DEF OpenSlot, Stop
  <2> QED
    BY <1>4, <2>1, OpenSlotCounts DEF InitNeverCollects
<1>5. ASSUME NEW l \in LPNs, NEW d \in Blocks, Warmup(l, d) \/ Invalidation(l, d)
      PROVE  Counted' /\ InitNeverCollects'
  <2>1. /\ InitialWrite(l, d) /\ pc \in {"warmup", "invalidate"}
        /\ pc = "warmup" => loop < NPagesToWarmup
        /\ pc = "invalidate" => MoreToInvalidate
    BY <1>5 DEF Warmup, Invalidation
  <2>2. CASE Refusal(Units, d) # "run"
    BY <1>1, <1>3, <2>1, <2>2 DEF InitialWrite
  <2>3. CASE Refusal(Units, d) = "run"
    <3>1. /\ Target(Units, d) /\ WriteUnits(l, Units, d) /\ loop' = loop + 1
          /\ IF NeedsGC(nFreeBlocks') THEN pc' = "stopped" /\ outcome' = "initgc"
             ELSE UNCHANGED <<pc, outcome>>
      BY <2>1, <2>3 DEF InitialWrite
    <3>2. /\ OwnBlocks(PageCountToMaxPerf)'
          /\ \A s \in Slots : \A u \in Units :
                nextPage'[lastFreeBlock'[s]][u] = OpenPages'[s]
          /\ nFreeBlocks' \in Nat
          /\ Total(OpenPages, Slots)' \in Nat
          /\ Opened' * PagesInBlock + Total(OpenPages, Slots)' = Written + 1
      BY <2>1, <2>3, <3>1, InitialWriteCounts
    <3>3. loop \in Nat /\ NPagesToWarmup \in Nat
      BY ParameterAssumption DEF Inductive, TypeOK
    <3>4. /\ PagesToInvalidate \in Nat
          /\ NPagesToWarmup + PagesToInvalidate <= MaxPagesBeforeGC
      BY InvalidationFits
    <3>5. MaxPagesBeforeGC \in Int
      <4>1. \A n \in Int : n \div 100 \in Int
        BY SMT
      <4>2. PagesInBlock * (TotalBlocks * (100 - GCThresholdPct)
                            - 100 * PageCountToMaxPerf) \in Int
        BY ParameterAssumption, SMT
      <4> QED
        BY <4>1, <4>2 DEF MaxPagesBeforeGC
    <3>6. /\ Written + 1 <= MaxPagesBeforeGC /\ Written \in Nat
          /\ pc = "warmup" => loop + 1 <= NPagesToWarmup
          /\ pc = "invalidate" => loop + 1 <= PagesToInvalidate
      BY <2>1, <3>3, <3>4, <3>5 DEF Written, MoreToInvalidate
    <3>7. Opened' * PagesInBlock <= MaxPagesBeforeGC
      <4> DEFINE x == Opened' * PagesInBlock
                 y == Total(OpenPages, Slots)'
      <4>1. x \in Int /\ y \in Nat /\ x + y = Written + 1
        <5>1. Opened' \in Int
          BY <3>2, ParameterAssumption DEF Opened
        <5> QED
          BY <3>2, <5>1, ParameterAssumption, SMT
      <4> HIDE DEF x, y
      <4>2. x <= MaxPagesBeforeGC
        BY <3>5, <3>6, <4>1
      <4> QED
        BY <4>2 DEF x
    <3>8. ~NeedsGC(nFreeBlocks')
      <4>1. (TotalBlocks - PageCountToMaxPerf - nFreeBlocks') * PagesInBlock
               <= MaxPagesBeforeGC
        BY <3>7 DEF Opened
      <4> QED
        BY <3>2, <4>1, NoNeedForGC
    <3>9. pc' = pc /\ outcome' = outcome
      BY <3>1, <3>8
    <3>10. Written' = Written + 1
      BY <3>1, <3>3, <3>9 DEF Written
    <3> QED
      BY <2>1, <3>1, <3>2, <3>6, <3>9, <3>10 DEF Counted, InitNeverCollects
  <2> QED
    BY <2>2, <2>3
<1>6. CASE InitializeNext
  <2>1. CASE pc = "warmup"
    <3>1. /\ loop >= NPagesToWarmup /\ pc' = "invalidate" /\ loop' = 0
          /\ UNCHANGED <<nextPage, active, nFreeBlocks, lastFreeBlock, outcome>>
      BY <1>6, <2>1 DEF InitializeNext, media, pool
    <3>2. /\ OwnBlocks(PageCountToMaxPerf)
          /\ \A s \in Slots : \A u \in Units :
                nextPage[lastFreeBlock[s]][u] = OpenPages[s]
          /\ Opened * PagesInBlock + Total(OpenPages, Slots) = Written
          /\ loop <= NPagesToWarmup
      BY <2>1 DEF Counted
    <3>3. loop \in Nat /\ NPagesToWarmup \in Nat
      BY ParameterAssumption DEF Inductive, TypeOK
    <3>4. Written' = Written /\ 0 <= PagesToInvalidate
      BY <2>1, <3>1, <3>2, <3>3, InvalidationFits DEF Written
    <3>5. UNCHANGED <<Opened, OpenPages>>
      BY <3>1 DEF Opened, OpenPages
    <3>6. OwnBlocks(PageCountToMaxPerf)'
      BY <3>1, <3>2 DEF OwnBlocks
    <3>7. Total(OpenPages, Slots)' = Total(OpenPages, Slots)
      BY <3>5
    <3> QED
      BY <3>1, <3>2, <3>4, <3>5, <3>6, <3>7 DEF Counted, InitNeverCollects
  <2>2. CASE pc = "invalidate"
    BY <1>2, <1>6, <2>2 DEF InitializeNext
  <2> QED
    BY <1>6, <2>1, <2>2 DEF InitializeNext
<1>7. ASSUME NEW l \in LPNs, Read(l)
      PROVE  Counted' /\ InitNeverCollects'
  BY <1>1, <1>2, <1>7 DEF Read, vars, control
<1>8. ASSUME NEW l \in LPNs, Trim(l)
      PROVE  Counted' /\ InitNeverCollects'
  BY <1>1, <1>2, <1>8 DEF Trim, control
<1>9. ASSUME NEW l \in LPNs, NEW F \in Flags, NEW d \in Blocks, Write(l, F, d)
      PROVE  Counted' /\ InitNeverCollects'
  BY <1>1, <1>2, <1>3, <1>9 DEF Write
<1>10. ASSUME NEW lo \in LPNs, NEW hi \in LPNs, Format(lo, hi)
       PROVE  Counted' /\ InitNeverCollects'
  BY <1>1, <1>2, <1>10 DEF Format
<1>11. ASSUME NEW list \in Lists(Candidates), SelectVictimBlock(list)
       PROVE  Counted' /\ InitNeverCollects'
  BY <1>2, <1>11 DEF SelectVictimBlock, AfterSelect
<1>12. CASE SamplingStuck
  BY <1>1, <1>12 DEF SamplingStuck
<1>13. ASSUME NEW i \in 1 .. Len(victims), NEW p \in Pages, NEW d \in Blocks,
              CopyPage(i, p, d)
       PROVE  Counted' /\ InitNeverCollects'
  BY <1>1, <1>2, <1>3, <1>13 DEF CopyPage
<1>14. CASE CopyDone
  BY <1>2, <1>14 DEF CopyDone
<1>15. CASE EraseInternal
  <2>1. \/ Stop("nosuchblock") \/ Stop("validpages")
        \/ pc' = "stopped" /\ outcome' = "firstdeath"
        \/ pc' \in {"idle", "erase"} /\ outcome' = outcome
    BY <1>15 DEF EraseInternal
  <2> QED
    BY <1>1, <1>2, <2>1 DEF Counted, InitNeverCollects
<1>16. CASE Over \/ UNCHANGED vars
  <2>1. UNCHANGED <<nextPage, active, nFreeBlocks, lastFreeBlock, pc, loop, outcome>>
    BY <1>16 DEF Over, vars, media, pool, control
  <2>2. UNCHANGED <<Opened, OpenPages, Written>>
    BY <2>1 DEF Opened, OpenPages, Written
  <2>3. Total(OpenPages, Slots)' = Total(OpenPages, Slots)
    BY <2>2
  <2>4. /\ OwnBlocks(loop)' <=> OwnBlocks(loop)
        /\ OwnBlocks(PageCountToMaxPerf)' <=> OwnBlocks(PageCountToMaxPerf)
    BY <2>1 DEF OwnBlocks
  <2> QED
    BY <2>1, <2>2, <2>3, <2>4 DEF Counted, InitNeverCollects
<1> QED
  BY <1>4, <1>5, <1>6, <1>7, <1>8, <1>9, <1>10, <1>11, <1>12, <1>13, <1>14,
     <1>15, <1>16 DEF Next

\* "I assumed that init procedure never invokes GC" (writeInternal,
\* src/simplessd/ftl/page_mapping.cc): it does not, for every geometry, number
\* of slots, filling mode and policy, if the warm-up alone fits in front of the
\* threshold.
THEOREM InitializationNeverCollects ==
  ASSUME WarmupFits
  PROVE  Spec => []InitNeverCollects
<1>1. Init => Inductive /\ Opening /\ Counted /\ InitNeverCollects
  <2> SUFFICES ASSUME Init
               PROVE  Opening /\ Counted /\ InitNeverCollects
    BY InitInductive
  <2>1. /\ pc = "ctor" /\ loop = 0 /\ outcome = "run" /\ nFreeBlocks = TotalBlocks
        /\ nextPage = [b \in Blocks |-> [u \in Units |-> 0]]
    BY DEF Init
  <2>2. OwnBlocks(loop)
    BY <2>1 DEF OwnBlocks
  <2> QED
    BY <2>1, <2>2, ParameterAssumption DEF Opening, Counted, InitNeverCollects
<1>2. Inductive /\ Opening /\ Counted /\ InitNeverCollects /\ [Next]_vars
        => (Inductive /\ Opening /\ Counted /\ InitNeverCollects)'
  BY NextKeeps, OpeningBounded, NextCounts
<1> QED
  BY <1>1, <1>2, PTL DEF Spec


-----------------------------------------------------------------------------
(* No sanity check fires *)

\* A host that trims writes whole pages, so that every unit of an entry it
\* trims has been written.
TrimsWhole == "trim" \in HostOps => Flags = {Units}

\* Every unit of an entry of the table names a place.
WholeEntries == \A l \in present : \A u \in Units : Mapped(l, u)

\* A whole page that is written leaves a whole entry.
LEMMA WriteLeavesWhole ==
  ASSUME Inductive, WholeEntries, NEW l \in LPNs, NEW d \in Blocks,
         WriteUnits(l, Units, d)
  PROVE  WholeEntries'
<1>1. /\ table' = [table EXCEPT ![l] = NewEntry(l, Units, d)]
      /\ present' = present \cup {l}
  BY DEF WriteUnits
<1>2. \A u \in Units : table'[l][u] = <<d, nextPage[d][u]>>
  BY <1>1 DEF NewEntry, Inductive, TypeOK
<1>3. \A k \in present : k # l => table'[k] = table[k]
  BY <1>1 DEF Inductive, TypeOK
<1>4. d # TotalBlocks
  BY ParameterAssumption DEF Blocks
<1>5. \A u \in Units : Mapped(l, u)'
  BY <1>2, <1>4 DEF Mapped, Unset
<1>6. \A k \in present : k # l => \A u \in Units : Mapped(k, u)'
  BY <1>3 DEF WholeEntries, Mapped, Unset
<1> QED
  BY <1>1, <1>5, <1>6 DEF WholeEntries

\* Entries stay whole when the host writes whole pages.
LEMMA EntriesStayWhole ==
  ASSUME IoUnitInPage > 1, Flags = {Units}, Inductive, MappingConsistent,
         WholeEntries, [Next]_vars
  PROVE  WholeEntries'
<1>1. ASSUME UNCHANGED <<present, table>> PROVE WholeEntries'
  BY <1>1 DEF WholeEntries, Mapped, Unset
<1>2. ASSUME NEW why, Stop(why) PROVE WholeEntries'
  BY <1>1, <1>2 DEF Stop, media
<1>3. ASSUME NEW L, DropEntries(L) PROVE WholeEntries'
  <2>1. ASSUME NEW l \in present', NEW u \in Units PROVE Mapped(l, u)'
    <3>1. l \in present /\ l \notin L /\ l \in LPNs
      BY <1>3, <2>1 DEF DropEntries, Inductive, TypeOK
    <3>2. table'[l] = table[l]
      BY <1>3, <3>1 DEF DropEntries
    <3> QED
      BY <3>1, <3>2 DEF WholeEntries, Mapped, Unset
  <2> QED
    BY <2>1 DEF WholeEntries
<1>4. ASSUME NEW d \in Blocks, OpenSlot(d)
      PROVE  WholeEntries'
  BY <1>1, <1>2, <1>4 DEF OpenSlot, media
<1>5. ASSUME NEW l \in LPNs, NEW d \in Blocks, Warmup(l, d) \/ Invalidation(l, d)
      PROVE  WholeEntries'
  BY <1>2, <1>5, WriteLeavesWhole DEF Warmup, Invalidation, InitialWrite
<1>6. CASE InitializeNext
  BY <1>1, <1>6 DEF InitializeNext, media
<1>7. ASSUME NEW l \in LPNs, Read(l) \/ Trim(l)
      PROVE  WholeEntries'
  BY <1>1, <1>2, <1>3, <1>7 DEF Read, Trim, vars, media
<1>8. ASSUME NEW l \in LPNs, NEW F \in Flags, NEW d \in Blocks, Write(l, F, d)
      PROVE  WholeEntries'
  <2>1. F = Units
    OBVIOUS
  <2> QED
    BY <1>2, <1>8, <2>1, WriteLeavesWhole DEF Write
<1>9. ASSUME NEW lo \in LPNs, NEW hi \in LPNs, Format(lo, hi)
      PROVE  WholeEntries'
  <2> DEFINE L == {l \in present : lo <= l /\ l <= hi}
  <2>1. Stop("notinuse") \/ DropEntries(L)
    BY <1>9 DEF Format
  <2> HIDE DEF L
  <2> QED
    BY <1>2, <1>3, <2>1
<1>10. ASSUME NEW list \in Lists(Candidates), SelectVictimBlock(list)
       PROVE  WholeEntries'
  BY <1>1, <1>10 DEF SelectVictimBlock, media
<1>11. CASE SamplingStuck
  BY <1>2, <1>11 DEF SamplingStuck
<1>12. ASSUME NEW i \in 1 .. Len(victims), NEW p \in Pages, NEW d \in Blocks,
              CopyPage(i, p, d)
       PROVE  WholeEntries'
  <2>1. CASE UNCHANGED <<present, table>>
    BY <1>1, <2>1
  <2>2. CASE ~(UNCHANGED <<present, table>>)
    <3>1. pc' # "stopped" /\ present' = present
      BY <1>12, <2>2 DEF CopyPage, Stop, media
    <3>2. \A l \in LPNs : \A u \in Units : Mapped(l, u)' <=> Mapped(l, u)
      BY <1>12, <3>1, CopyPageKeepsMapping
    <3> QED
      BY <3>1, <3>2 DEF WholeEntries, Inductive, TypeOK
  <2> QED
    BY <2>1, <2>2
<1>13. CASE CopyDone
  BY <1>1, <1>13 DEF CopyDone, media
<1>14. CASE EraseInternal
  BY <1>1, <1>2, <1>14 DEF EraseInternal
<1>15. CASE Over \/ UNCHANGED vars
  BY <1>1, <1>15 DEF Over, vars, media
<1> QED
  BY <1>4, <1>5, <1>6, <1>7, <1>8, <1>9, <1>10, <1>11, <1>12, <1>13, <1>14,
     <1>15 DEF Next

\* An allocation is refused for want of free blocks only.
LEMMA AllocationSound ==
  ASSUME OneSlot, Inductive, Collecting, pc \notin {"ctor", "stopped"},
         NEW F \in SUBSET Units, NEW d \in Blocks, Target(F, d)
  PROVE  Refusal(F, d) \in {"run", "eol"}
<1>1. OpenBlock(F) = lastFreeBlock[0] /\ OpenBlock(F) \in active
  <2>1. Slots = {0}
    BY DEF OneSlot, Slots
  <2>2. SlotFor(F) = 0
    BY <2>1, SlotInRange DEF Inductive
  <2> QED
    BY <2>2 DEF OpenBlock, Collecting
<1>2. CASE Opens(F) /\ nFreeBlocks = 0
  BY <1>1, <1>2 DEF Refusal
<1>3. CASE ~(Opens(F) /\ nFreeBlocks = 0)
  <2>1. ASSUME Opens(F)
        PROVE  Listed(d) /\ d \notin active
    <3>1. Listed(d)
      BY <1>1, <1>3, <2>1 DEF Target, Inductive, TypeOK
    <3> QED
      BY <3>1 DEF Inductive, BlocksPartitioned
  <2>2. ASSUME NEW u \in F
        PROVE  nextPage[d][u] \in Pages
    <3>1. nextPage[d][u] \in 0 .. PagesInBlock
      BY DEF Inductive, TypeOK
    <3>2. nextPage[d][u] # PagesInBlock
      <4>1. CASE Opens(F)
        <5>1. nextPage[d][u] = 0
          BY <2>1, <4>1 DEF Inductive, FreeBlocksBlank
        <5> QED
          BY <5>1, ParameterAssumption
      <4>2. CASE ~Opens(F)
        <5>1. d = OpenBlock(F)
          BY <4>2 DEF Target
        <5> QED
          BY <4>2, <5>1 DEF Opens, Full
      <4> QED
        BY <4>1, <4>2
    <3> QED
      BY <3>1, <3>2, ParameterAssumption DEF Pages
  <2>3. NewCells(F, d) \subseteq erased
    <3>1. ASSUME NEW u \in F
          PROVE  <<d, nextPage[d][u], u>> \in erased
      <4>1. nextPage[d][u] \in Pages /\ nextPage[d][u] \in Nat
        BY <2>2, ParameterAssumption DEF Pages
      <4> QED
        BY <4>1 DEF Inductive, WritePointers
    <3> QED
      BY <3>1 DEF NewCells
  <2> QED
    BY <1>1, <2>1, <2>3 DEF Refusal
<1> QED
  BY <1>2, <1>3

\* One step, by action: the state the earlier invariants describe rules out
\* each of the panics.
LEMMA NextPanicsNot ==
  ASSUME OneSlot, TrimsWhole, Inductive, MappingConsistent, Opening, Collecting,
         Flags = {Units} => WholeEntries,
         NoPanic, InitNeverCollects', [Next]_vars
  PROVE  NoPanic'
<1>1. ASSUME UNCHANGED outcome PROVE NoPanic'
  BY <1>1 DEF NoPanic
<1>2. ASSUME NEW why \in {"eol", "sampling", "firstdeath"}, outcome' = why
      PROVE  NoPanic'
  BY <1>2 DEF NoPanic, Panics
<1>3. ASSUME NEW F \in SUBSET Units, NEW d \in Blocks, Target(F, d),
             pc \notin {"ctor", "stopped"}, Stop(Refusal(F, d)), Refusal(F, d) # "run"
      PROVE  NoPanic'
  <2>1. Refusal(F, d) = "eol"
    BY <1>3, AllocationSound
  <2> QED
    BY <1>2, <1>3, <2>1 DEF Stop
<1>4. ASSUME NEW d \in Blocks, OpenSlot(d)
      PROVE  NoPanic'
  <2>1. d \notin active
    BY <1>4 DEF OpenSlot, Inductive, BlocksPartitioned
  <2> QED
    BY <1>1, <1>4, <2>1 DEF OpenSlot
<1>5. ASSUME NEW l \in LPNs, NEW d \in Blocks, Warmup(l, d) \/ Invalidation(l, d)
      PROVE  NoPanic'
  <2>1. InitialWrite(l, d) /\ pc \notin {"ctor", "stopped"} /\ Units \in SUBSET Units
    BY <1>5 DEF Warmup, Invalidation
  <2>2. CASE Refusal(Units, d) # "run"
    BY <1>3, <2>1, <2>2 DEF InitialWrite
  <2>3. CASE Refusal(Units, d) = "run"
    BY <1>1, <2>1, <2>3 DEF InitialWrite, InitNeverCollects
  <2> QED
    BY <2>2, <2>3
<1>6. CASE InitializeNext
  BY <1>1, <1>6 DEF InitializeNext
<1>7. ASSUME NEW l \in LPNs, Read(l)
      PROVE  NoPanic'
  <2>1. \A u \in Units : Mapped(l, u) => table[l][u][1] \in active
    BY DEF MappingConsistent
  <2> QED
    BY <1>1, <1>7, <2>1 DEF Read, vars, control
<1>8. ASSUME NEW l \in LPNs, Trim(l)
      PROVE  NoPanic'
  <2>1. WholeEntries /\ l \in present
    BY <1>8 DEF Trim, TrimsWhole
  <2>2. AllInUse({l})
    BY <2>1 DEF AllInUse, WholeEntries, MappingConsistent
  <2> QED
    BY <1>1, <1>8, <2>2 DEF Trim, control
<1>9. ASSUME NEW l \in LPNs, NEW F \in Flags, NEW d \in Blocks, Write(l, F, d)
      PROVE  NoPanic'
  <2>1. F \in SUBSET Units /\ pc = "idle" /\ Target(F, d)
    BY <1>9 DEF Flags, Write
  <2>2. CASE Refusal(F, d) # "run"
    BY <1>3, <1>9, <2>1, <2>2 DEF Write
  <2>3. CASE Refusal(F, d) = "run"
    BY <1>1, <1>9, <2>3 DEF Write
  <2> QED
    BY <2>2, <2>3
<1>10. ASSUME NEW lo \in LPNs, NEW hi \in LPNs, Format(lo, hi)
       PROVE  FALSE
  BY <1>10 DEF Format, OneSlot
<1>11. ASSUME NEW list \in Lists(Candidates), SelectVictimBlock(list)
       PROVE  NoPanic'
  BY <1>1, <1>11 DEF SelectVictimBlock
<1>12. CASE SamplingStuck
  BY <1>2, <1>12 DEF SamplingStuck, Stop
<1>13. ASSUME NEW i \in 1 .. Len(victims), NEW p \in Pages, NEW d \in Blocks,
              CopyPage(i, p, d)
       PROVE  NoPanic'
  <2> DEFINE b == victims[i]
             F == PageInfo(b, p)
  <2>1. /\ F \in SUBSET Units /\ pc = "copy" /\ Target(F, d) /\ b \in Blocks
        /\ \A u \in F : <<b, p, u>> \in valid /\ u \in Units
    BY <1>13 DEF CopyPage, PageInfo, OneSlot, Inductive, TypeOK
  <2>2. \A u \in F : owner[<<b, p, u>>] \in present
    <3> SUFFICES ASSUME NEW u \in F PROVE owner[<<b, p, u>>] \in present
      OBVIOUS
    <3>1. <<b, p, u>> \in Cells
      BY <2>1 DEF Cells
    <3>2. owner[<<b, p, u>>] \in LPNs /\ table[owner[<<b, p, u>>]][u] = <<b, p>>
      BY <2>1, <3>1, ValidCellMapped DEF Inductive, TypeOK
    <3>3. Mapped(owner[<<b, p, u>>], u)
      BY <2>1, <3>2, ParameterAssumption DEF Mapped, Unset, Blocks
    <3> QED
      BY <2>1, <3>2, <3>3 DEF MappingConsistent
  <2>3. CASE Refusal(F, d) # "run"
    BY <1>3, <1>13, <2>1, <2>3 DEF CopyPage
  <2>4. CASE Refusal(F, d) = "run"
    BY <1>1, <1>13, <2>2, <2>4 DEF CopyPage
  <2> QED
    BY <2>3, <2>4
<1>14. CASE CopyDone
  BY <1>1, <1>14 DEF CopyDone
<1>15. CASE EraseInternal
  <2> DEFINE b == victims[vi]
  <2>1. vi \in vi .. Len(victims)
    BY <1>15 DEF EraseInternal, Collecting, Inductive, TypeOK
  <2>2. b \in active /\ ~HoldsData(b)
    BY <1>15, <2>1 DEF EraseInternal, Collecting
  <2>3. valid \cap CellsOf(b) = {}
    BY <2>2 DEF HoldsData, CellsOf
  <2>4. outcome' = outcome \/ outcome' = "firstdeath"
    BY <1>15, <2>2, <2>3 DEF EraseInternal
  <2> QED
    BY <1>1, <1>2, <2>4
<1>16. CASE Over \/ UNCHANGED vars
  BY <1>1, <1>16 DEF Over, vars, control
<1> QED
  BY <1>4, <1>5, <1>6, <1>7, <1>8, <1>9, <1>10, <1>11, <1>12, <1>13, <1>14,
     <1>15, <1>16 DEF Next

\* None of the panics of src/simplessd/ftl/page_mapping.cc and
\* src/simplessd/ftl/common/block.cc is reached: not "Corrupted", not a write to a
\* page that is not erased, no lost mapping, no erase of valid pages, no
\* collection by initialize().  For every geometry with one slot whose warm-up
\* fits, every policy, and every host that does not format and trims only if
\* it writes whole pages.
THEOREM NeverPanics ==
  ASSUME OneSlot, WarmupFits, TrimsWhole
  PROVE  Spec => []NoPanic
<1> DEFINE Whole == Flags = {Units} => WholeEntries
           Inv == /\ Inductive /\ MappingConsistent /\ Opening /\ Collecting
                  /\ Whole /\ NoPanic
<1>1. Init => Inv
  <2> SUFFICES ASSUME Init PROVE Inv
    OBVIOUS
  <2>1. Inductive /\ MappingConsistent
    BY InitInductive, InitMapping
  <2>2. Opening /\ Collecting
    BY ParameterAssumption DEF Init, Opening, Collecting
  <2>3. WholeEntries /\ NoPanic
    BY DEF Init, WholeEntries, NoPanic, Panics
  <2> QED
    BY <2>1, <2>2, <2>3
<1>2. Inv /\ InitNeverCollects' /\ [Next]_vars => Inv'
  <2> SUFFICES ASSUME Inv, InitNeverCollects', [Next]_vars PROVE Inv'
    OBVIOUS
  <2>0. IoUnitInPage > 1
    BY DEF OneSlot
  <2>1. Inductive' /\ MappingConsistent'
    BY <2>0, NextKeeps, NextKeepsMapping
  <2>2. Opening' /\ Collecting'
    BY OpeningBounded, NextCollects
  <2>4. ASSUME Flags = {Units} PROVE WholeEntries'
    BY <2>0, <2>4, EntriesStayWhole
  <2>5. NoPanic'
    BY NextPanicsNot
  <2> QED
    BY <2>1, <2>2, <2>4, <2>5
<1>3. Spec => []InitNeverCollects
  BY InitializationNeverCollects
<1>4. Inv => NoPanic
  OBVIOUS
<1> QED
  BY <1>1, <1>2, <1>3, <1>4, PTL DEF Spec

-----------------------------------------------------------------------------
(* The operations of the modes are those of MappingCore *)

\* getFreeBlock and calculateVictimWeight of the mode that is configured.
FreeBlocksFor(s) == IF mode = 0 THEN Baseline!GetFreeBlock(s)
                    ELSE IF mode = 1 THEN WL!GetFreeBlock(s)
                    ELSE IF mode = 2 THEN RBPA!GetFreeBlock(s)
                    ELSE LA!GetFreeBlock(s)
WeightOf(b) == IF mode = 0 THEN Baseline!CalculateVictimWeight(b)
               ELSE IF mode = 1 THEN WL!CalculateVictimWeight(b)
               ELSE IF mode = 2 THEN RBPA!CalculateVictimWeight(b)
               ELSE LA!CalculateVictimWeight(b)

\* getLastFreeBlock: where the allocation for F opens a block, it is one that
\* getFreeBlock returns.
Allotted(F, d) ==
    OpenBlock(F) \in active /\ Opens(F) /\ nFreeBlocks > 0
        => d \in FreeBlocksFor(SlotFor(F))

\* The steps of MappingCore with the decisions of the mode.
ModeStep ==
    \/ \E d \in FreeBlocksFor(loop) : OpenSlot(d)
    \/ \E l \in LPNs, d \in Blocks :
          Allotted(Units, d) /\ (Warmup(l, d) \/ Invalidation(l, d))
    \/ InitializeNext
    \/ \E l \in LPNs : Read(l) \/ Trim(l)
    \/ \E l \in LPNs, F \in Flags, d \in Blocks : Allotted(F, d) /\ Write(l, F, d)
    \/ \E lo, hi \in LPNs : Format(lo, hi)
    \/ SelectByWeight([b \in Candidates |-> WeightOf(b)])
    \/ \E i \in 1 .. Len(victims), p \in Pages, d \in Blocks :
          Allotted(PageInfo(victims[i], p), d) /\ CopyPage(i, p, d)
    \/ CopyDone
    \/ EraseInternal
    \/ Over

USE DEF Blocks, Pages, Slots, LPNs, Units, Cells, Unset, Places, media, pool,
        wear, cursor, control, vars, CellsOf, Full, Mapped, CellOf, PageInfo,
        NeedsGC, Listed, Stop, TakeFreeBlock, Advances, SlotFor, IOMapFor,
        OpenBlock, Opens, NewCells, Refusal, Target, GetLastFreeBlock,
        WriteCells, InvalidateCells, OpenSlot, OldCells, NewEntry, WriteUnits,
        MaxPagesBeforeGC, PagesToInvalidate, MoreToInvalidate, InitialWrite,
        Warmup, Invalidation, InitializeNext, Flags, Read, Write, AllInUse,
        DropEntries, Trim, Lists, HeldBy, SortedList, Format, Candidates,
        AfterSelect, SelectVictimBlock, SamplingStuck, NextCopy,
        NothingToCopy, CopyPage, CopyDone, FreePosition, Survives,
        ErasedPointers, EraseInternal, Over, BlocksToReclaim, SampleSize,
        Samples, Lightest, SelectByWeight, RemoveAt, InsertAt, Cardinality,
        Min, ToSet

\* MappingCore as src/simplessd/ftl/page_mapping.cc sees it.
BaselineSame ==
    /\ Baseline!LPNs = LPNs /\ Baseline!Blocks = Blocks /\ Baseline!Pages = Pages
    /\ Baseline!Units = Units /\ Baseline!Flags = Flags /\ Baseline!Candidates = Candidates
    /\ \A b, p : Baseline!PageInfo(b, p) = PageInfo(b, p)
    /\ \A d : Baseline!OpenSlot(d) => OpenSlot(d)
    /\ \A l, d : Baseline!Warmup(l, d) => Warmup(l, d)
    /\ \A l, d : Baseline!Invalidation(l, d) => Invalidation(l, d)
    /\ Baseline!InitializeNext => InitializeNext
    /\ \A l : Baseline!Read(l) => Read(l)
    /\ \A l : Baseline!Trim(l) => Trim(l)
    /\ \A l, F, d : Baseline!Write(l, F, d) => Write(l, F, d)
    /\ \A lo, hi : Baseline!Format(lo, hi) => Format(lo, hi)
    /\ \A w : Baseline!SelectByWeight(w) => SelectByWeight(w)
    /\ \A i, p, d : Baseline!CopyPage(i, p, d) => CopyPage(i, p, d)
    /\ Baseline!CopyDone => CopyDone
    /\ Baseline!EraseInternal => EraseInternal
    /\ Baseline!Over => Over
    /\ \A F, d : Baseline!Allots(F, d) =>
          (OpenBlock(F) \in active /\ Opens(F) /\ nFreeBlocks > 0
              => d \in Baseline!GetFreeBlock(SlotFor(F)))

\* The instance that PageMapping extends is MappingCore itself.
LEMMA BaselineIsCore == BaselineSame
<1> USE DEF Baseline!Blocks, Baseline!Pages, Baseline!Slots, Baseline!LPNs,
            Baseline!Units, Baseline!Cells, Baseline!Unset, Baseline!Places,
            Baseline!media, Baseline!pool, Baseline!wear, Baseline!cursor,
            Baseline!control, Baseline!vars, Baseline!CellsOf, Baseline!Full,
            Baseline!Mapped, Baseline!CellOf, Baseline!PageInfo,
            Baseline!NeedsGC, Baseline!Listed, Baseline!Stop,
            Baseline!TakeFreeBlock, Baseline!Advances, Baseline!SlotFor,
            Baseline!IOMapFor, Baseline!OpenBlock, Baseline!Opens,
            Baseline!NewCells, Baseline!Refusal, Baseline!Target,
            Baseline!GetLastFreeBlock, Baseline!WriteCells,
            Baseline!InvalidateCells, Baseline!OpenSlot, Baseline!OldCells,
            Baseline!NewEntry, Baseline!WriteUnits, Baseline!MaxPagesBeforeGC,
            Baseline!PagesToInvalidate, Baseline!MoreToInvalidate,
            Baseline!InitialWrite, Baseline!Warmup, Baseline!Invalidation,
            Baseline!InitializeNext, Baseline!Flags, Baseline!Read,
            Baseline!Write, Baseline!AllInUse, Baseline!DropEntries,
            Baseline!Trim, Baseline!Lists, Baseline!HeldBy,
            Baseline!SortedList, Baseline!Format, Baseline!Candidates,
            Baseline!AfterSelect, Baseline!SelectVictimBlock,
            Baseline!SamplingStuck, Baseline!NextCopy, Baseline!NothingToCopy,
            Baseline!CopyPage, Baseline!CopyDone, Baseline!FreePosition,
            Baseline!Survives, Baseline!ErasedPointers,
            Baseline!EraseInternal, Baseline!Over, Baseline!BlocksToReclaim,
            Baseline!SampleSize, Baseline!Samples, Baseline!Lightest,
            Baseline!SelectByWeight, Baseline!RemoveAt, Baseline!InsertAt,
            Baseline!Cardinality, Baseline!Min, Baseline!ToSet
<1>1. Baseline!LPNs = LPNs /\ Baseline!Blocks = Blocks /\ Baseline!Pages = Pages
  OBVIOUS
<1>2. Baseline!Units = Units /\ Baseline!Flags = Flags /\ Baseline!Candidates = Candidates
  OBVIOUS
<1>3. \A b, p : Baseline!PageInfo(b, p) = PageInfo(b, p)
  OBVIOUS
<1>4. ASSUME NEW d, Baseline!OpenSlot(d)
      PROVE  OpenSlot(d)
  BY <1>4, ZenonT(40)
<1>5. ASSUME NEW l, NEW d, Baseline!Warmup(l, d)
      PROVE  Warmup(l, d)
  BY <1>5, ZenonT(40)
<1>6. ASSUME NEW l, NEW d, Baseline!Invalidation(l, d)
      PROVE  Invalidation(l, d)
  BY <1>6
<1>7. Baseline!InitializeNext => InitializeNext
  OBVIOUS
<1>8. ASSUME NEW l, Baseline!Read(l)
      PROVE  Read(l)
  BY <1>8
<1>9. ASSUME NEW l, Baseline!Trim(l)
      PROVE  Trim(l)
  BY <1>9, SMTT(40)
<1>10. ASSUME NEW l, NEW F, NEW d, Baseline!Write(l, F, d)
       PROVE  Write(l, F, d)
  BY <1>10
<1>11. ASSUME NEW lo, NEW hi, Baseline!Format(lo, hi)
       PROVE  Format(lo, hi)
  BY <1>11
<1>12. ASSUME NEW w, Baseline!SelectByWeight(w)
       PROVE  SelectByWeight(w)
  BY <1>12
<1>13. ASSUME NEW i, NEW p, NEW d, Baseline!CopyPage(i, p, d)
       PROVE  CopyPage(i, p, d)
  BY <1>13
<1>14. Baseline!CopyDone => CopyDone
  OBVIOUS
<1>15. Baseline!EraseInternal => EraseInternal
  BY ZenonT(60)
<1>16. Baseline!Over => Over
  OBVIOUS
<1>17. \A F, d : Baseline!Allots(F, d) =>
            (OpenBlock(F) \in active /\ Opens(F) /\ nFreeBlocks > 0
                => d \in Baseline!GetFreeBlock(SlotFor(F)))
  BY DEF Baseline!Allots
<1> QED
  BY ONLY <1>1, <1>2, <1>3, <1>4, <1>5, <1>6, <1>7, <1>8, <1>9, <1>10,
          <1>11, <1>12, <1>13, <1>14, <1>15, <1>16, <1>17
     DEF BaselineSame

\* MappingCore as src/simplessd/ftl/wl_page_mapping.cc sees it.
WLSame ==
    /\ WL!LPNs = LPNs /\ WL!Blocks = Blocks /\ WL!Pages = Pages
    /\ WL!Units = Units /\ WL!Flags = Flags /\ WL!Candidates = Candidates
    /\ \A b, p : WL!PageInfo(b, p) = PageInfo(b, p)
    /\ \A d : WL!OpenSlot(d) => OpenSlot(d)
    /\ \A l, d : WL!Warmup(l, d) => Warmup(l, d)
    /\ \A l, d : WL!Invalidation(l, d) => Invalidation(l, d)
    /\ WL!InitializeNext => InitializeNext
    /\ \A l : WL!Read(l) => Read(l)
    /\ \A l : WL!Trim(l) => Trim(l)
    /\ \A l, F, d : WL!Write(l, F, d) => Write(l, F, d)
    /\ \A lo, hi : WL!Format(lo, hi) => Format(lo, hi)
    /\ \A w : WL!SelectByWeight(w) => SelectByWeight(w)
    /\ \A i, p, d : WL!CopyPage(i, p, d) => CopyPage(i, p, d)
    /\ WL!CopyDone => CopyDone
    /\ WL!EraseInternal => EraseInternal
    /\ WL!Over => Over
    /\ \A F, d : WL!Allots(F, d) =>
          (OpenBlock(F) \in active /\ Opens(F) /\ nFreeBlocks > 0
              => d \in WL!GetFreeBlock(SlotFor(F)))

\* The instance that WLPageMapping extends is MappingCore itself.
LEMMA WLIsCore == WLSame
<1> USE DEF WL!Blocks, WL!Pages, WL!Slots, WL!LPNs, WL!Units, WL!Cells,
            WL!Unset, WL!Places, WL!media, WL!pool, WL!wear, WL!cursor,
            WL!control, WL!vars, WL!CellsOf, WL!Full, WL!Mapped, WL!CellOf,
            WL!PageInfo, WL!NeedsGC, WL!Listed, WL!Stop, WL!TakeFreeBlock,
            WL!Advances, WL!SlotFor, WL!IOMapFor, WL!OpenBlock, WL!Opens,
            WL!NewCells, WL!Refusal, WL!Target, WL!GetLastFreeBlock,
            WL!WriteCells, WL!InvalidateCells, WL!OpenSlot, WL!OldCells,
            WL!NewEntry, WL!WriteUnits, WL!MaxPagesBeforeGC,
            WL!PagesToInvalidate, WL!MoreToInvalidate, WL!InitialWrite,
            WL!Warmup, WL!Invalidation, WL!InitializeNext, WL!Flags, WL!Read,
            WL!Write, WL!AllInUse, WL!DropEntries, WL!Trim, WL!Lists,
            WL!HeldBy, WL!SortedList, WL!Format, WL!Candidates,
            WL!AfterSelect, WL!SelectVictimBlock, WL!SamplingStuck,
            WL!NextCopy, WL!NothingToCopy, WL!CopyPage, WL!CopyDone,
            WL!FreePosition, WL!Survives, WL!ErasedPointers, WL!EraseInternal,
            WL!Over, WL!BlocksToReclaim, WL!SampleSize, WL!Samples,
            WL!Lightest, WL!SelectByWeight, WL!RemoveAt, WL!InsertAt,
            WL!Cardinality, WL!Min, WL!ToSet
<1>1. WL!LPNs = LPNs /\ WL!Blocks = Blocks /\ WL!Pages = Pages
  OBVIOUS
<1>2. WL!Units = Units /\ WL!Flags = Flags /\ WL!Candidates = Candidates
  OBVIOUS
<1>3. \A b, p : WL!PageInfo(b, p) = PageInfo(b, p)
  OBVIOUS
<1>4. ASSUME NEW d, WL!OpenSlot(d)
      PROVE  OpenSlot(d)
  BY <1>4
<1>5. ASSUME NEW l, NEW d, WL!Warmup(l, d)
      PROVE  Warmup(l, d)
  BY <1>5
<1>6. ASSUME NEW l, NEW d, WL!Invalidation(l, d)
      PROVE  Invalidation(l, d)
  BY <1>6
<1>7. WL!InitializeNext => InitializeNext
  OBVIOUS
<1>8. ASSUME NEW l, WL!Read(l)
      PROVE  Read(l)
  BY <1>8
<1>9. ASSUME NEW l, WL!Trim(l)
      PROVE  Trim(l)
  BY <1>9
<1>10. ASSUME NEW l, NEW F, NEW d, WL!Write(l, F, d)
       PROVE  Write(l, F, d)
  BY <1>10
<1>11. ASSUME NEW lo, NEW hi, WL!Format(lo, hi)
       PROVE  Format(lo, hi)
  BY <1>11
<1>12. ASSUME NEW w, WL!SelectByWeight(w)
       PROVE  SelectByWeight(w)
  BY <1>12
<1>13. ASSUME NEW i, NEW p, NEW d, WL!CopyPage(i, p, d)
       PROVE  CopyPage(i, p, d)
  BY <1>13
<1>14. WL!CopyDone => CopyDone
  OBVIOUS
<1>15. WL!EraseInternal => EraseInternal
  OBVIOUS
<1>16. WL!Over => Over
  OBVIOUS
<1>17. \A F, d : WL!Allots(F, d) =>
            (OpenBlock(F) \in active /\ Opens(F) /\ nFreeBlocks > 0
                => d \in WL!GetFreeBlock(SlotFor(F)))
  BY DEF WL!Allots
<1> QED
  BY ONLY <1>1, <1>2, <1>3, <1>4, <1>5, <1>6, <1>7, <1>8, <1>9, <1>10,
          <1>11, <1>12, <1>13, <1>14, <1>15, <1>16, <1>17
     DEF WLSame

\* MappingCore as src/simplessd/ftl/rbpa_page_mapping.cc sees it.
RBPASame ==
    /\ RBPA!LPNs = LPNs /\ RBPA!Blocks = Blocks /\ RBPA!Pages = Pages
    /\ RBPA!Units = Units /\ RBPA!Flags = Flags /\ RBPA!Candidates = Candidates
    /\ \A b, p : RBPA!PageInfo(b, p) = PageInfo(b, p)
    /\ \A d : RBPA!OpenSlot(d) => OpenSlot(d)
    /\ \A l, d : RBPA!Warmup(l, d) => Warmup(l, d)
    /\ \A l, d : RBPA!Invalidation(l, d) => Invalidation(l, d)
    /\ RBPA!InitializeNext => InitializeNext
    /\ \A l : RBPA!Read(l) => Read(l)
    /\ \A l : RBPA!Trim(l) => Trim(l)
    /\ \A l, F, d : RBPA!Write(l, F, d) => Write(l, F, d)
    /\ \A lo, hi : RBPA!Format(lo, hi) => Format(lo, hi)
    /\ \A w : RBPA!SelectByWeight(w) => SelectByWeight(w)
    /\ \A i, p, d : RBPA!CopyPage(i, p, d) => CopyPage(i, p, d)
    /\ RBPA!CopyDone => CopyDone
    /\ RBPA!EraseInternal => EraseInternal
    /\ RBPA!Over => Over
    /\ \A F, d : RBPA!Allots(F, d) =>
          (OpenBlock(F) \in active /\ Opens(F) /\ nFreeBlocks > 0
              => d \in RBPA!GetFreeBlock(SlotFor(F)))

\* The instance that RBPAPageMapping extends is MappingCore itself.
LEMMA RBPAIsCore == RBPASame
<1> USE DEF RBPA!Blocks, RBPA!Pages, RBPA!Slots, RBPA!LPNs, RBPA!Units,
            RBPA!Cells, RBPA!Unset, RBPA!Places, RBPA!media, RBPA!pool,
            RBPA!wear, RBPA!cursor, RBPA!control, RBPA!vars, RBPA!CellsOf,
            RBPA!Full, RBPA!Mapped, RBPA!CellOf, RBPA!PageInfo, RBPA!NeedsGC,
            RBPA!Listed, RBPA!Stop, RBPA!TakeFreeBlock, RBPA!Advances,
            RBPA!SlotFor, RBPA!IOMapFor, RBPA!OpenBlock, RBPA!Opens,
            RBPA!NewCells, RBPA!Refusal, RBPA!Target, RBPA!GetLastFreeBlock,
            RBPA!WriteCells, RBPA!InvalidateCells, RBPA!OpenSlot,
            RBPA!OldCells, RBPA!NewEntry, RBPA!WriteUnits,
            RBPA!MaxPagesBeforeGC, RBPA!PagesToInvalidate,
            RBPA!MoreToInvalidate, RBPA!InitialWrite, RBPA!Warmup,
            RBPA!Invalidation, RBPA!InitializeNext, RBPA!Flags, RBPA!Read,
            RBPA!Write, RBPA!AllInUse, RBPA!DropEntries, RBPA!Trim,
            RBPA!Lists, RBPA!HeldBy, RBPA!SortedList, RBPA!Format,
            RBPA!Candidates, RBPA!AfterSelect, RBPA!SelectVictimBlock,
            RBPA!SamplingStuck, RBPA!NextCopy, RBPA!NothingToCopy,
            RBPA!CopyPage, RBPA!CopyDone, RBPA!FreePosition, RBPA!Survives,
            RBPA!ErasedPointers, RBPA!EraseInternal, RBPA!Over,
            RBPA!BlocksToReclaim, RBPA!SampleSize, RBPA!Samples,
            RBPA!Lightest, RBPA!SelectByWeight, RBPA!RemoveAt, RBPA!InsertAt,
            RBPA!Cardinality, RBPA!Min, RBPA!ToSet
<1>1. RBPA!LPNs = LPNs /\ RBPA!Blocks = Blocks /\ RBPA!Pages = Pages
  OBVIOUS
<1>2. RBPA!Units = Units /\ RBPA!Flags = Flags /\ RBPA!Candidates = Candidates
  OBVIOUS
<1>3. \A b, p : RBPA!PageInfo(b, p) = PageInfo(b, p)
  OBVIOUS
<1>4. ASSUME NEW d, RBPA!OpenSlot(d)
      PROVE  OpenSlot(d)
  BY <1>4
<1>5. ASSUME NEW l, NEW d, RBPA!Warmup(l, d)
      PROVE  Warmup(l, d)
  BY <1>5
<1>6. ASSUME NEW l, NEW d, RBPA!Invalidation(l, d)
      PROVE  Invalidation(l, d)
  BY <1>6
<1>7. RBPA!InitializeNext => InitializeNext
  OBVIOUS
<1>8. ASSUME NEW l, RBPA!Read(l)
      PROVE  Read(l)
  BY <1>8
<1>9. ASSUME NEW l, RBPA!Trim(l)
      PROVE  Trim(l)
  BY <1>9
<1>10. ASSUME NEW l, NEW F, NEW d, RBPA!Write(l, F, d)
       PROVE  Write(l, F, d)
  BY <1>10
<1>11. ASSUME NEW lo, NEW hi, RBPA!Format(lo, hi)
       PROVE  Format(lo, hi)
  BY <1>11
<1>12. ASSUME NEW w, RBPA!SelectByWeight(w)
       PROVE  SelectByWeight(w)
  BY <1>12
<1>13. ASSUME NEW i, NEW p, NEW d, RBPA!CopyPage(i, p, d)
       PROVE  CopyPage(i, p, d)
  BY <1>13
<1>14. RBPA!CopyDone => CopyDone
  OBVIOUS
<1>15. RBPA!EraseInternal => EraseInternal
  OBVIOUS
<1>16. RBPA!Over => Over
  OBVIOUS
<1>17. \A F, d : RBPA!Allots(F, d) =>
            (OpenBlock(F) \in active /\ Opens(F) /\ nFreeBlocks > 0
                => d \in RBPA!GetFreeBlock(SlotFor(F)))
  BY DEF RBPA!Allots
<1> QED
  BY ONLY <1>1, <1>2, <1>3, <1>4, <1>5, <1>6, <1>7, <1>8, <1>9, <1>10,
          <1>11, <1>12, <1>13, <1>14, <1>15, <1>16, <1>17
     DEF RBPASame

\* MappingCore as src/simplessd/ftl/la_page_mapping.cc sees it.
LASame ==
    /\ LA!LPNs = LPNs /\ LA!Blocks = Blocks /\ LA!Pages = Pages
    /\ LA!Units = Units /\ LA!Flags = Flags /\ LA!Candidates = Candidates
    /\ \A b, p : LA!PageInfo(b, p) = PageInfo(b, p)
    /\ \A d : LA!OpenSlot(d) => OpenSlot(d)
    /\ \A l, d : LA!Warmup(l, d) => Warmup(l, d)
    /\ \A l, d : LA!Invalidation(l, d) => Invalidation(l, d)
    /\ LA!InitializeNext => InitializeNext
    /\ \A l : LA!Read(l) => Read(l)
    /\ \A l : LA!Trim(l) => Trim(l)
    /\ \A l, F, d : LA!Write(l, F, d) => Write(l, F, d)
    /\ \A lo, hi : LA!Format(lo, hi) => Format(lo, hi)
    /\ \A w : LA!SelectByWeight(w) => SelectByWeight(w)
    /\ \A i, p, d : LA!CopyPage(i, p, d) => CopyPage(i, p, d)
    /\ LA!CopyDone => CopyDone
    /\ LA!EraseInternal => EraseInternal
    /\ LA!Over => Over
    /\ \A F, d : LA!Allots(F, d) =>
          (OpenBlock(F) \in active /\ Opens(F) /\ nFreeBlocks > 0
              => d \in LA!GetFreeBlock(SlotFor(F)))

\* The instance that LAPageMapping extends is MappingCore itself.
LEMMA LAIsCore == LASame
<1> USE DEF LA!Blocks, LA!Pages, LA!Slots, LA!LPNs, LA!Units, LA!Cells,
            LA!Unset, LA!Places, LA!media, LA!pool, LA!wear, LA!cursor,
            LA!control, LA!vars, LA!CellsOf, LA!Full, LA!Mapped, LA!CellOf,
            LA!PageInfo, LA!NeedsGC, LA!Listed, LA!Stop, LA!TakeFreeBlock,
            LA!Advances, LA!SlotFor, LA!IOMapFor, LA!OpenBlock, LA!Opens,
            LA!NewCells, LA!Refusal, LA!Target, LA!GetLastFreeBlock,
            LA!WriteCells, LA!InvalidateCells, LA!OpenSlot, LA!OldCells,
            LA!NewEntry, LA!WriteUnits, LA!MaxPagesBeforeGC,
            LA!PagesToInvalidate, LA!MoreToInvalidate, LA!InitialWrite,
            LA!Warmup, LA!Invalidation, LA!InitializeNext, LA!Flags, LA!Read,
            LA!Write, LA!AllInUse, LA!DropEntries, LA!Trim, LA!Lists,
            LA!HeldBy, LA!SortedList, LA!Format, LA!Candidates,
            LA!AfterSelect, LA!SelectVictimBlock, LA!SamplingStuck,
            LA!NextCopy, LA!NothingToCopy, LA!CopyPage, LA!CopyDone,
            LA!FreePosition, LA!Survives, LA!ErasedPointers, LA!EraseInternal,
            LA!Over, LA!BlocksToReclaim, LA!SampleSize, LA!Samples,
            LA!Lightest, LA!SelectByWeight, LA!RemoveAt, LA!InsertAt,
            LA!Cardinality, LA!Min, LA!ToSet
<1>1. LA!LPNs = LPNs /\ LA!Blocks = Blocks /\ LA!Pages = Pages
  OBVIOUS
<1>2. LA!Units = Units /\ LA!Flags = Flags /\ LA!Candidates = Candidates
  OBVIOUS
<1>3. \A b, p : LA!PageInfo(b, p) = PageInfo(b, p)
  OBVIOUS
<1>4. ASSUME NEW d, LA!OpenSlot(d)
      PROVE  OpenSlot(d)
  BY <1>4
<1>5. ASSUME NEW l, NEW d, LA!Warmup(l, d)
      PROVE  Warmup(l, d)
  BY <1>5
<1>6. ASSUME NEW l, NEW d, LA!Invalidation(l, d)
      PROVE  Invalidation(l, d)
  BY <1>6
<1>7. LA!InitializeNext => InitializeNext
  OBVIOUS
<1>8. ASSUME NEW l, LA!Read(l)
      PROVE  Read(l)
  BY <1>8
<1>9. ASSUME NEW l, LA!Trim(l)
      PROVE  Trim(l)
  BY <1>9
<1>10. ASSUME NEW l, NEW F, NEW d, LA!Write(l, F, d)
       PROVE  Write(l, F, d)
  BY <1>10
<1>11. ASSUME NEW lo, NEW hi, LA!Format(lo, hi)
       PROVE  Format(lo, hi)
  BY <1>11
<1>12. ASSUME NEW w, LA!SelectByWeight(w)
       PROVE  SelectByWeight(w)
  BY <1>12
<1>13. ASSUME NEW i, NEW p, NEW d, LA!CopyPage(i, p, d)
       PROVE  CopyPage(i, p, d)
  BY <1>13
<1>14. LA!CopyDone => CopyDone
  OBVIOUS
<1>15. LA!EraseInternal => EraseInternal
  OBVIOUS
<1>16. LA!Over => Over
  OBVIOUS
<1>17. \A F, d : LA!Allots(F, d) =>
            (OpenBlock(F) \in active /\ Opens(F) /\ nFreeBlocks > 0
                => d \in LA!GetFreeBlock(SlotFor(F)))
  BY DEF LA!Allots
<1> QED
  BY ONLY <1>1, <1>2, <1>3, <1>4, <1>5, <1>6, <1>7, <1>8, <1>9, <1>10,
          <1>11, <1>12, <1>13, <1>14, <1>15, <1>16, <1>17
     DEF LASame

HIDE DEF Blocks, Pages, Slots, LPNs, Units, Cells, Unset, Places, media, pool,
         wear, cursor, control, vars, CellsOf, Full, Mapped, CellOf, PageInfo,
         NeedsGC, Listed, Stop, TakeFreeBlock, Advances, SlotFor, IOMapFor,
         OpenBlock, Opens, NewCells, Refusal, Target, GetLastFreeBlock,
         WriteCells, InvalidateCells, OpenSlot, OldCells, NewEntry,
         WriteUnits, MaxPagesBeforeGC, PagesToInvalidate, MoreToInvalidate,
         InitialWrite, Warmup, Invalidation, InitializeNext, Flags, Read,
         Write, AllInUse, DropEntries, Trim, Lists, HeldBy, SortedList,
         Format, Candidates, AfterSelect, SelectVictimBlock, SamplingStuck,
         NextCopy, NothingToCopy, CopyPage, CopyDone, FreePosition, Survives,
         ErasedPointers, EraseInternal, Over, BlocksToReclaim, SampleSize,
         Samples, Lightest, SelectByWeight, RemoveAt, InsertAt, Cardinality,
         Min, ToSet

\* The steps of src/simplessd/ftl/page_mapping.cc.
LEMMA BaselineSteps ==
  ASSUME mode = 0, Baseline!PageMappingNext
  PROVE  ModeStep
<1> USE BaselineIsCore DEF BaselineSame
<1>1. /\ \A s : FreeBlocksFor(s) = Baseline!GetFreeBlock(s)
      /\ \A b : WeightOf(b) = Baseline!CalculateVictimWeight(b)
  BY DEF FreeBlocksFor, WeightOf
<1>2. \A F, d : Baseline!Allots(F, d) => Allotted(F, d)
  BY <1>1 DEF Allotted
<1>3. CASE Baseline!Construct
  BY <1>1, <1>3 DEF Baseline!Construct, ModeStep
<1>4. CASE Baseline!Initialize
  BY <1>2, <1>4 DEF Baseline!Initialize, ModeStep
<1>5. CASE Baseline!ReadInternal \/ Baseline!TrimInternal \/ Baseline!FormatRange
  BY <1>5 DEF Baseline!ReadInternal, Baseline!TrimInternal, Baseline!FormatRange, ModeStep
<1>6. CASE Baseline!WriteInternal
  BY <1>2, <1>6 DEF Baseline!WriteInternal, ModeStep
<1>7. CASE Baseline!SelectVictims
  <2>1. [b \in Baseline!Candidates |-> Baseline!CalculateVictimWeight(b)]
           = [b \in Candidates |-> WeightOf(b)]
    BY <1>1
  <2> QED
    BY <1>7, <2>1 DEF Baseline!SelectVictims, ModeStep
<1>8. CASE Baseline!DoGarbageCollection
  BY <1>2, <1>8 DEF Baseline!DoGarbageCollection, ModeStep
<1>9. CASE Baseline!EraseVictim \/ Baseline!Over
  BY <1>9 DEF Baseline!EraseVictim, ModeStep
<1> QED
  BY <1>3, <1>4, <1>5, <1>6, <1>7, <1>8, <1>9 DEF Baseline!PageMappingNext

\* The steps of src/simplessd/ftl/wl_page_mapping.cc.
LEMMA WLSteps ==
  ASSUME mode = 1, WL!WLPageMappingNext
  PROVE  ModeStep
<1> USE WLIsCore DEF WLSame
<1>1. /\ \A s : FreeBlocksFor(s) = WL!GetFreeBlock(s)
      /\ \A b : WeightOf(b) = WL!CalculateVictimWeight(b)
  BY DEF FreeBlocksFor, WeightOf
<1>2. \A F, d : WL!Allots(F, d) => Allotted(F, d)
  BY <1>1 DEF Allotted
<1>3. CASE WL!Construct
  BY <1>1, <1>3 DEF WL!Construct, ModeStep
<1>4. CASE WL!Initialize
  BY <1>2, <1>4 DEF WL!Initialize, ModeStep
<1>5. CASE WL!ReadInternal \/ WL!TrimInternal \/ WL!FormatRange
  BY <1>5 DEF WL!ReadInternal, WL!TrimInternal, WL!FormatRange, ModeStep
<1>6. CASE WL!WriteInternal
  BY <1>2, <1>6 DEF WL!WriteInternal, ModeStep
<1>7. CASE WL!SelectVictims
  <2>1. [b \in WL!Candidates |-> WL!CalculateVictimWeight(b)]
           = [b \in Candidates |-> WeightOf(b)]
    BY <1>1
  <2> QED
    BY <1>7, <2>1 DEF WL!SelectVictims, ModeStep
<1>8. CASE WL!DoGarbageCollection
  BY <1>2, <1>8 DEF WL!DoGarbageCollection, ModeStep
<1>9. CASE WL!EraseVictim \/ WL!Over
  BY <1>9 DEF WL!EraseVictim, ModeStep
<1> QED
  BY <1>3, <1>4, <1>5, <1>6, <1>7, <1>8, <1>9 DEF WL!WLPageMappingNext

\* The steps of src/simplessd/ftl/rbpa_page_mapping.cc.
LEMMA RBPASteps ==
  ASSUME mode = 2, RBPA!RBPAPageMappingNext
  PROVE  ModeStep
<1> USE RBPAIsCore DEF RBPASame
<1>1. /\ \A s : FreeBlocksFor(s) = RBPA!GetFreeBlock(s)
      /\ \A b : WeightOf(b) = RBPA!CalculateVictimWeight(b)
  BY DEF FreeBlocksFor, WeightOf
<1>2. \A F, d : RBPA!Allots(F, d) => Allotted(F, d)
  BY <1>1 DEF Allotted
<1>3. CASE RBPA!Construct
  BY <1>1, <1>3 DEF RBPA!Construct, ModeStep
<1>4. CASE RBPA!Initialize
  BY <1>2, <1>4 DEF RBPA!Initialize, ModeStep
<1>5. CASE RBPA!ReadInternal \/ RBPA!TrimInternal \/ RBPA!FormatRange
  BY <1>5 DEF RBPA!ReadInternal, RBPA!TrimInternal, RBPA!FormatRange, ModeStep
<1>6. CASE RBPA!WriteInternal
  BY <1>2, <1>6 DEF RBPA!WriteInternal, ModeStep
<1>7. CASE RBPA!SelectVictims
  <2>1. [b \in RBPA!Candidates |-> RBPA!CalculateVictimWeight(b)]
           = [b \in Candidates |-> WeightOf(b)]
    BY <1>1
  <2> QED
    BY <1>7, <2>1 DEF RBPA!SelectVictims, ModeStep
<1>8. CASE RBPA!DoGarbageCollection
  BY <1>2, <1>8 DEF RBPA!DoGarbageCollection, ModeStep
<1>9. CASE RBPA!EraseVictim \/ RBPA!Over
  BY <1>9 DEF RBPA!EraseVictim, ModeStep
<1> QED
  BY <1>3, <1>4, <1>5, <1>6, <1>7, <1>8, <1>9 DEF RBPA!RBPAPageMappingNext

\* The steps of src/simplessd/ftl/la_page_mapping.cc.
LEMMA LASteps ==
  ASSUME mode = 3, LA!LAPageMappingNext
  PROVE  ModeStep
<1> USE LAIsCore DEF LASame
<1>1. /\ \A s : FreeBlocksFor(s) = LA!GetFreeBlock(s)
      /\ \A b : WeightOf(b) = LA!CalculateVictimWeight(b)
  BY DEF FreeBlocksFor, WeightOf
<1>2. \A F, d : LA!Allots(F, d) => Allotted(F, d)
  BY <1>1 DEF Allotted
<1>3. CASE LA!Construct
  BY <1>1, <1>3 DEF LA!Construct, ModeStep
<1>4. CASE LA!Initialize
  BY <1>2, <1>4 DEF LA!Initialize, ModeStep
<1>5. CASE LA!ReadInternal \/ LA!TrimInternal \/ LA!FormatRange
  BY <1>5 DEF LA!ReadInternal, LA!TrimInternal, LA!FormatRange, ModeStep
<1>6. CASE LA!WriteInternal
  BY <1>2, <1>6 DEF LA!WriteInternal, ModeStep
<1>7. CASE LA!SelectVictims
  <2>1. [b \in LA!Candidates |-> LA!CalculateVictimWeight(b)]
           = [b \in Candidates |-> WeightOf(b)]
    BY <1>1
  <2> QED
    BY <1>7, <2>1 DEF LA!SelectVictims, ModeStep
<1>8. CASE LA!DoGarbageCollection
  BY <1>2, <1>8 DEF LA!DoGarbageCollection, ModeStep
<1>9. CASE LA!EraseVictim \/ LA!Over
  BY <1>9 DEF LA!EraseVictim, ModeStep
<1> QED
  BY <1>3, <1>4, <1>5, <1>6, <1>7, <1>8, <1>9 DEF LA!LAPageMappingNext

\* What selectVictimBlock may return is a list of full blocks in use.
LEMMA VictimsListed ==
  ASSUME Inductive, NEW S \in Samples,
         NEW list \in [1 .. Min({BlocksToReclaim, Cardinality(S)}) -> S]
  PROVE  list \in Lists(Candidates)
<1>1. S \in SUBSET Candidates /\ Candidates \in SUBSET Blocks
  BY DEF Samples, Candidates, Inductive, TypeOK
<1>2. /\ IsFiniteSet(Blocks) /\ Cardinality(Blocks) = TotalBlocks
      /\ TotalBlocks \in Nat
  BY ParameterAssumption, FS_Interval DEF Blocks
<1>3. Cardinality(S) \in 0 .. TotalBlocks
  <2>1. S \in SUBSET Blocks
    BY <1>1
  <2>2. IsFiniteSet(S) /\ Cardinality(S) <= Cardinality(Blocks)
    BY <1>2, <2>1, FS_Subset
  <2>3. Cardinality(S) \in Nat
    BY <2>2, FS_CardinalityType
  <2> QED
    BY <1>2, <2>2, <2>3
<1>4. BlocksToReclaim \in Int
  <2>1. (TotalBlocks * GCReclaimPct) \div 100 \in Int
    <3>1. \A n \in Int : n \div 100 \in Int
      BY SMT
    <3>2. GCReclaimPct \in Int /\ TotalBlocks \in Int
      BY CollectionAssumption, ParameterAssumption
    <3>3. TotalBlocks * GCReclaimPct \in Int
      BY <3>2, SMT
    <3> QED
      BY <3>1, <3>3
  <2>2. nFreeBlocks \in Nat /\ GCReclaimBlocks \in Nat /\ PageCountToMaxPerf \in Nat
    BY CollectionAssumption, ParameterAssumption DEF Inductive, TypeOK
  <2> HIDE DEF Samples
  <2> QED
    BY <2>1, <2>2 DEF BlocksToReclaim
<1>5. ASSUME NEW a \in Int, NEW c \in Int
      PROVE  Min({a, c}) \in Int /\ Min({a, c}) <= c
  <2>1. \E x \in {a, c} : \A y \in {a, c} : x <= y
    <3>1. CASE a <= c
      BY <3>1
    <3>2. CASE ~(a <= c)
      BY <3>2
    <3> QED
      BY <3>1, <3>2
  <2>2. Min({a, c}) \in {a, c} /\ \A y \in {a, c} : Min({a, c}) <= y
    BY <2>1 DEF Min
  <2> QED
    BY <2>2
<1> DEFINE n == Min({BlocksToReclaim, Cardinality(S)})
<1>6. n \in Int /\ n <= TotalBlocks
  <2>1. Cardinality(S) \in Int
    BY <1>3
  <2>2. n \in Int /\ n <= Cardinality(S)
    BY <1>4, <1>5, <2>1
  <2> HIDE DEF n
  <2> QED
    BY <1>2, <1>3, <2>1, <2>2
<1>7. list \in [1 .. n -> S]
  OBVIOUS
<1> HIDE DEF n
<1>8. CASE n >= 0
  <2>1. n \in 0 .. TotalBlocks /\ list \in [1 .. n -> Candidates]
    BY <1>1, <1>2, <1>6, <1>7, <1>8
  <2> QED
    BY <2>1 DEF Lists
<1>9. CASE n < 0
  <2>1. 1 .. n = 1 .. 0 /\ 0 \in 0 .. TotalBlocks
    BY <1>2, <1>6, <1>9
  <2>2. list \in [1 .. 0 -> Candidates]
    BY <1>1, <1>7, <2>1
  <2> QED
    BY <2>1, <2>2 DEF Lists
<1> QED
  BY <1>6, <1>8, <1>9

\* selectVictimBlock returns such a list, or does not return.
LEMMA SelectsCandidates ==
  ASSUME Inductive, NEW w, SelectByWeight(w)
  PROVE  \/ SamplingStuck
         \/ \E list \in Lists(Candidates) : SelectVictimBlock(list)
BY VictimsListed DEF SelectByWeight

\* A step with the decisions of a mode is a step of MappingCore.
LEMMA ModeStepIsNext ==
  ASSUME Inductive, ModeStep
  PROVE  Next
<1>1. ASSUME NEW d, OpenSlot(d)
      PROVE  Next
  <2>1. d \in Blocks
    BY <1>1 DEF OpenSlot, Listed, Inductive, TypeOK
  <2> QED
    BY <1>1, <2>1 DEF Next
<1>2. CASE SelectByWeight([b \in Candidates |-> WeightOf(b)])
  BY <1>2, SelectsCandidates DEF Next
<1> QED
  BY <1>1, <1>2 DEF ModeStep, Next

\* One step of the layer, in whatever mode.
LEMMA FTLStep ==
  ASSUME Inductive, [FTLNext]_fvars
  PROVE  [Next]_vars /\ (ModeStep \/ UNCHANGED fvars)
<1>1. ModeStep \/ UNCHANGED fvars
  BY BaselineSteps, WLSteps, RBPASteps, LASteps DEF FTLNext
<1> QED
  BY <1>1, ModeStepIsNext DEF fvars

\* Every mapping mode implements the layer whose two decisions are left open:
\* what is proved of MappingCore holds of
\* src/simplessd/ftl/page_mapping.cc, wl_page_mapping.cc, rbpa_page_mapping.cc and
\* la_page_mapping.cc, for every eviction policy.
THEOREM ModesImplementCore == FTLSpec => Spec /\ []Inductive
<1>1. FTLInit => Init /\ Inductive
  BY InitInductive DEF FTLInit
<1>2. Inductive /\ [FTLNext]_fvars => [Next]_vars /\ Inductive'
  BY FTLStep, NextKeeps
<1> QED
  BY <1>1, <1>2, PTL DEF FTLSpec, Spec

\* In every mode the table and the flash agree, wear is accounted for and no
\* panic is reached, under the conditions of the theorems about MappingCore.
THEOREM LayerSafe ==
  ASSUME FreshDevice, OneSlot, WarmupFits, TrimsWhole
  PROVE  FTLSpec => [](MappingConsistent /\ WearInvariant /\ NoPanic)
<1>1. IoUnitInPage > 1
  BY DEF OneSlot
<1>2. Spec => []MappingConsistent
  BY <1>1, MappingInvariant
<1>3. Spec => []WearInvariant
  BY WearSafe
<1>4. Spec => []NoPanic
  BY NeverPanics
<1> QED
  BY <1>2, <1>3, <1>4, ModesImplementCore, PTL

\* In every mode the layer implements the logical device.
THEOREM LayerImplementsDevice ==
  ASSUME IoUnitInPage > 1
  PROVE  FTLSpec => ImplementsDevice
<1>1. Spec => ImplementsDevice
  BY DeviceRefinement
<1> QED
  BY <1>1, ModesImplementCore, PTL

-----------------------------------------------------------------------------
(* Which block is opened *)

\* The step opens the block d for the slot s, or no block.
OpensFor(s, d) ==
    /\ Listed(d)
    /\ active' = active \cup {d}
    /\ lastFreeBlock' = [lastFreeBlock EXCEPT ![s] = d]
OpensNone == active' \subseteq active /\ UNCHANGED lastFreeBlock

\* A step opens no block, or one that getFreeBlock returned for the slot.
OpensAllotted ==
    OpensNone \/ \E s \in Slots : \E d \in FreeBlocksFor(s) : OpensFor(s, d)

\* getLastFreeBlock opens what getFreeBlock returns.
LEMMA AllocationOpens ==
  ASSUME TypeOK, NEW F, NEW d, Target(F, d), Refusal(F, d) = "run",
         Allotted(F, d), GetLastFreeBlock(F, d)
  PROVE  OpensAllotted
<1>1. CASE Opens(F)
  <2>1. OpenBlock(F) \in active /\ nFreeBlocks # 0 /\ nFreeBlocks > 0
    BY <1>1 DEF Refusal, TypeOK
  <2>2. Listed(d) /\ d \in FreeBlocksFor(SlotFor(F))
    BY <1>1, <2>1 DEF Target, Allotted
  <2>3. OpensFor(SlotFor(F), d)
    BY <1>1, <2>2 DEF GetLastFreeBlock, TakeFreeBlock, OpensFor
  <2> QED
    BY <2>2, <2>3, SlotInRange DEF OpensAllotted
<1>2. CASE ~Opens(F)
  BY <1>2 DEF GetLastFreeBlock, pool, OpensAllotted, OpensNone
<1> QED
  BY <1>1, <1>2

\* One step of a mode, by action.
LEMMA StepOpens ==
  ASSUME Inductive, Opening, ModeStep
  PROVE  OpensAllotted
<1> USE DEF Inductive
<1>1. ASSUME NEW why, Stop(why) PROVE OpensAllotted
  BY <1>1 DEF Stop, pool, OpensAllotted, OpensNone
<1>2. ASSUME NEW l, NEW F, NEW d, Target(F, d), Refusal(F, d) = "run",
             Allotted(F, d), WriteUnits(l, F, d)
      PROVE  OpensAllotted
  BY <1>2, AllocationOpens DEF WriteUnits
<1>3. ASSUME NEW d \in FreeBlocksFor(loop), OpenSlot(d)
      PROVE  OpensAllotted
  <2>1. CASE d \in active
    BY <1>1, <1>3, <2>1 DEF OpenSlot
  <2>2. CASE d \notin active
    <3>1. loop \in Slots
      BY <1>3, ParameterAssumption DEF OpenSlot, Opening, TypeOK, Slots
    <3>2. OpensFor(loop, d)
      BY <1>3, <2>2 DEF OpenSlot, TakeFreeBlock, OpensFor
    <3> QED
      BY <3>1, <3>2 DEF OpensAllotted
  <2> QED
    BY <2>1, <2>2
<1>4. ASSUME NEW l \in LPNs, NEW d \in Blocks, Allotted(Units, d),
             Warmup(l, d) \/ Invalidation(l, d)
      PROVE  OpensAllotted
  BY <1>1, <1>2, <1>4 DEF Warmup, Invalidation, InitialWrite
<1>5. CASE InitializeNext
  BY <1>5 DEF InitializeNext, pool, OpensAllotted, OpensNone
<1>6. ASSUME NEW l \in LPNs, Read(l) \/ Trim(l)
      PROVE  OpensAllotted
  BY <1>1, <1>6 DEF Read, Trim, vars, pool, OpensAllotted, OpensNone
<1>7. ASSUME NEW l \in LPNs, NEW F \in Flags, NEW d \in Blocks, Allotted(F, d),
             Write(l, F, d)
      PROVE  OpensAllotted
  BY <1>1, <1>2, <1>7 DEF Write
<1>8. ASSUME NEW lo \in LPNs, NEW hi \in LPNs, Format(lo, hi)
      PROVE  OpensAllotted
  BY <1>1, <1>8 DEF Format, pool, OpensAllotted, OpensNone
<1>9. CASE SelectByWeight([b \in Candidates |-> WeightOf(b)])
  <2>1. SamplingStuck \/ \E list : SelectVictimBlock(list)
    BY <1>9 DEF SelectByWeight
  <2> QED
    BY <1>1, <2>1 DEF SamplingStuck, SelectVictimBlock, OpensAllotted, OpensNone
<1>10. ASSUME NEW i \in 1 .. Len(victims), NEW p \in Pages, NEW d \in Blocks,
              Allotted(PageInfo(victims[i], p), d), CopyPage(i, p, d)
       PROVE  OpensAllotted
  BY <1>1, <1>10, AllocationOpens DEF CopyPage
<1>11. CASE CopyDone
  BY <1>11 DEF CopyDone, pool, OpensAllotted, OpensNone
<1>12. CASE EraseInternal
  BY <1>1, <1>12 DEF EraseInternal, OpensAllotted, OpensNone
<1>13. CASE Over
  BY <1>13 DEF Over, vars, pool, OpensAllotted, OpensNone
<1> QED
  BY <1>3, <1>4, <1>5, <1>6, <1>7, <1>8, <1>9, <1>10, <1>11, <1>12, <1>13
     DEF ModeStep

\* The layer opens only what its mode allots, in every reachable state.
LEMMA FTLOpens == FTLSpec => [](Inductive /\ Opening) /\ [][OpensAllotted]_fvars
<1>1. FTLInit => Inductive /\ Opening
  BY InitInductive, ParameterAssumption DEF FTLInit, Init, Opening
<1>2. Inductive /\ Opening /\ [FTLNext]_fvars => Inductive' /\ Opening'
  BY FTLStep, NextKeeps, OpeningBounded
<1>3. Inductive /\ Opening /\ [FTLNext]_fvars => [OpensAllotted]_fvars
  BY FTLStep, StepOpens
<1> QED
  BY <1>1, <1>2, <1>3, PTL DEF FTLSpec

\* The list of free blocks is in order of wear in every mode.
LEMMA ListAlwaysSorted == FTLSpec => []FreeListSorted
<1>1. FTLInit => Inductive /\ FreeListSorted
  BY InitInductive, FreshListSorted DEF FTLInit
<1>2. Inductive /\ FreeListSorted /\ [FTLNext]_fvars
        => (Inductive /\ FreeListSorted)'
  BY FTLStep, NextKeeps, ListStaysSorted
<1> QED
  BY <1>1, <1>2, PTL DEF FTLSpec

\* d is the first block of the list that falls on the slot s, or the first of
\* all when there is none.
FirstForSlot(s, d) ==
    LET own(j) == freeBlocks[j] % PageCountToMaxPerf = s
    IN  \E k \in 1 .. Len(freeBlocks) :
           /\ d = freeBlocks[k]
           /\ \/ own(k) /\ \A j \in 1 .. Len(freeBlocks) : own(j) => k <= j
              \/ k = 1 /\ \A j \in 1 .. Len(freeBlocks) : ~own(j)

\* getFreeBlock of modes 0 and 1.
LEMMA FirstAllotted ==
  ASSUME TypeOK, mode \in {0, 1}, NEW s \in Slots, NEW d \in FreeBlocksFor(s),
         Listed(d)
  PROVE  FirstForSlot(s, d)
<1> DEFINE I == {i \in 1 .. Len(freeBlocks) :
                    freeBlocks[i] % PageCountToMaxPerf = s}
           own == IF I # {} THEN Min(I) ELSE 0
<1>1. d \in {freeBlocks[IF own = 0 THEN 1 ELSE own]}
  <2>1. Baseline!GetFreeBlock(s) = {freeBlocks[IF own = 0 THEN 1 ELSE own]}
    BY Zenon DEF Baseline!GetFreeBlock, Baseline!SelectInSeq, Baseline!Min, Min
  <2>2. WL!GetFreeBlock(s) = {freeBlocks[IF own = 0 THEN 1 ELSE own]}
    BY Zenon DEF WL!GetFreeBlock, WL!SelectInSeq, WL!Min, Min
  <2>3. mode = 0 => FreeBlocksFor(s) = Baseline!GetFreeBlock(s)
    BY DEF FreeBlocksFor
  <2>4. mode = 1 => FreeBlocksFor(s) = WL!GetFreeBlock(s)
    BY DEF FreeBlocksFor
  <2> HIDE DEF own
  <2> QED
    BY <2>1, <2>2, <2>3, <2>4
<1>2. Len(freeBlocks) \in Nat /\ 1 \in 1 .. Len(freeBlocks)
  BY DEF TypeOK, Listed
<1>3. CASE I = {}
  <2>1. d = freeBlocks[1] /\ \A j \in 1 .. Len(freeBlocks) :
           ~(freeBlocks[j] % PageCountToMaxPerf = s)
    BY <1>1, <1>3
  <2> QED
    BY <1>2, <2>1 DEF FirstForSlot
<1>4. CASE I # {}
  <2>1. I \in SUBSET Nat
    BY <1>2
  <2>2. Min(I) \in I /\ \A j \in I : Min(I) <= j
    BY <1>4, <2>1, MinOfNats
  <2>3. d = freeBlocks[Min(I)] /\ Min(I) \in 1 .. Len(freeBlocks)
    BY <1>1, <1>2, <1>4, <2>2
  <2> DEFINE k == Min(I)
  <2>4. /\ k \in 1 .. Len(freeBlocks) /\ d = freeBlocks[k]
        /\ freeBlocks[k] % PageCountToMaxPerf = s
        /\ \A j \in 1 .. Len(freeBlocks) :
              freeBlocks[j] % PageCountToMaxPerf = s => k <= j
    BY <2>2, <2>3
  <2> HIDE DEF k
  <2> QED
    BY <2>4 DEF FirstForSlot
<1> QED
  BY <1>3, <1>4

\* Modes 0 and 1 open the least worn free block of a channel: getFreeBlock
\* (src/simplessd/ftl/page_mapping.cc, wl_page_mapping.cc) looks no further than
\* the first match, and the list is in order of wear in every reachable state.
THEOREM LeastWornIsOpened == FTLSpec => LeastWornOpened
<1> DEFINE A == (mode \in {0, 1}) =>
                   \A d \in active' \ active : \A b \in Blocks :
                      (Listed(b) /\ b % PageCountToMaxPerf = d % PageCountToMaxPerf)
                          => eraseCount[d] <= eraseCount[b]
<1>1. Inductive /\ FreeListSorted /\ [OpensAllotted]_fvars => [A]_fvars
  <2> SUFFICES ASSUME Inductive, FreeListSorted, OpensAllotted, mode \in {0, 1},
                      NEW d \in active' \ active, NEW b \in Blocks, Listed(b),
                      b % PageCountToMaxPerf = d % PageCountToMaxPerf
               PROVE  eraseCount[d] <= eraseCount[b]
    OBVIOUS
  <2>1. PICK s \in Slots : d \in FreeBlocksFor(s) /\ Listed(d)
    BY DEF OpensAllotted, OpensNone, OpensFor
  <2>2. FirstForSlot(s, d)
    BY <2>1, FirstAllotted DEF Inductive
  <2>3. PICK k \in 1 .. Len(freeBlocks) :
           /\ d = freeBlocks[k]
           /\ \/ /\ d % PageCountToMaxPerf = s
                 /\ \A j \in 1 .. Len(freeBlocks) :
                       freeBlocks[j] % PageCountToMaxPerf = s => k <= j
              \/ k = 1
    BY <2>2 DEF FirstForSlot
  <2>4. PICK j \in 1 .. Len(freeBlocks) : freeBlocks[j] = b
    BY DEF Listed
  <2>5. k <= j
    <3>1. Len(freeBlocks) \in Nat
      BY DEF Inductive, TypeOK
    <3> QED
      BY <2>3, <2>4, <3>1
  <2>6. eraseCount[b] \in Nat /\ Len(freeBlocks) \in Nat
    BY DEF Inductive, TypeOK
  <2>7. CASE k = j
    BY <2>3, <2>4, <2>6, <2>7
  <2>8. CASE k < j
    BY <2>3, <2>4, <2>8 DEF FreeListSorted
  <2> QED
    BY <2>5, <2>6, <2>7, <2>8
<1>2. FTLSpec => []FreeListSorted
  BY ListAlwaysSorted
<1>3. LeastWornOpened <=> [][A]_fvars
  BY DEF LeastWornOpened
<1> HIDE DEF A
<1> QED
  BY <1>1, <1>2, <1>3, FTLOpens, PTL

\* getFreeBlock of modes 0 to 2 leaves the slot's channel only when it has no
\* free block.
LEMMA AllottedKeepsChannel ==
  ASSUME TypeOK, mode \in 0 .. 2, NEW s \in Slots, NEW d \in FreeBlocksFor(s),
         Listed(d)
  PROVE  \/ d % PageCountToMaxPerf = s
         \/ \A b \in Blocks : Listed(b) => b % PageCountToMaxPerf # s
<1>1. CASE mode \in {0, 1}
  BY <1>1, FirstAllotted DEF FirstForSlot, Listed
<1>2. CASE mode = 2
  <2> DEFINE own == {b \in RBPA!ToSet(freeBlocks) : b % PageCountToMaxPerf = s}
  <2>1. d \in IF own = {} THEN {freeBlocks[1]} ELSE own
    BY <1>2 DEF FreeBlocksFor, RBPA!GetFreeBlock
  <2>2. \A b : Listed(b) => b \in RBPA!ToSet(freeBlocks)
    BY DEF Listed, RBPA!ToSet, TypeOK
  <2> QED
    BY <2>1, <2>2
<1> QED
  BY <1>1, <1>2

\* Modes 0 to 2 keep the parallelism: a slot gets a block of another channel
\* only when its own has no free block (getFreeBlock,
\* src/simplessd/ftl/page_mapping.cc, wl_page_mapping.cc, rbpa_page_mapping.cc).
THEOREM SlotsKeepChannel == FTLSpec => ChannelKept
<1> DEFINE A == (mode \in 0 .. 2) =>
                   \A i \in Slots : lastFreeBlock'[i] # lastFreeBlock[i] =>
                      \/ lastFreeBlock'[i] % PageCountToMaxPerf = i
                      \/ \A b \in Blocks : Listed(b) => b % PageCountToMaxPerf # i
<1>1. Inductive /\ [OpensAllotted]_fvars => [A]_fvars
  <2> SUFFICES ASSUME Inductive, OpensAllotted, mode \in 0 .. 2,
                      NEW i \in Slots, lastFreeBlock'[i] # lastFreeBlock[i]
               PROVE  \/ lastFreeBlock'[i] % PageCountToMaxPerf = i
                      \/ \A b \in Blocks : Listed(b) => b % PageCountToMaxPerf # i
    OBVIOUS
  <2>0. PICK s \in Slots : \E d \in FreeBlocksFor(s) : OpensFor(s, d)
    BY DEF OpensAllotted, OpensNone
  <2>1. PICK d \in FreeBlocksFor(s) :
           Listed(d) /\ lastFreeBlock' = [lastFreeBlock EXCEPT ![s] = d]
    BY <2>0 DEF OpensFor
  <2>2. s = i /\ lastFreeBlock'[i] = d
    BY <2>1 DEF Inductive, TypeOK
  <2> QED
    BY <2>1, <2>2, AllottedKeepsChannel DEF Inductive
<1>2. ChannelKept <=> [][A]_fvars
  BY DEF ChannelKept
<1> HIDE DEF A
<1> QED
  BY <1>1, <1>2, FTLOpens, PTL

\* Sum and number of the erase counts of the free blocks of a channel.
FreeOn(c)  == {b \in LA!ToSet(freeBlocks) : b % PageCountToMaxPerf = c}
FreeSum(c) == LA!WearSum(ToSet(freeBlocks), c)
FreeNum(c) == LA!WearNum(ToSet(freeBlocks), c)

\* They are those of a finite set of blocks.
LEMMA FreeSums ==
  ASSUME TypeOK, NEW c
  PROVE  /\ IsFiniteSet(FreeOn(c)) /\ FreeOn(c) \in SUBSET Blocks
         /\ \A b : b \in FreeOn(c) <=> Listed(b) /\ b % PageCountToMaxPerf = c
         /\ FreeNum(c) = Cardinality(FreeOn(c)) /\ FreeNum(c) \in Nat
         /\ FreeSum(c) = Total(eraseCount, FreeOn(c)) /\ FreeSum(c) \in Nat
<1>1. /\ LA!ToSet(freeBlocks) = ToSet(freeBlocks)
      /\ \A b : b \in ToSet(freeBlocks) <=> Listed(b)
  <2>1. LA!ToSet(freeBlocks) = ToSet(freeBlocks)
    BY DEF LA!ToSet, ToSet
  <2>2. DOMAIN freeBlocks = 1 .. Len(freeBlocks)
    BY DEF TypeOK
  <2>3. \A b : b \in ToSet(freeBlocks) <=> Listed(b)
    BY <2>2, Zenon DEF ToSet, Listed
  <2> QED
    BY <2>1, <2>3
<1>2. FreeOn(c) \in SUBSET Blocks
  <2>1. \A b : Listed(b) => b \in Blocks
    BY DEF Listed, TypeOK
  <2> QED
    BY <1>1, <2>1 DEF FreeOn
<1>3. IsFiniteSet(Blocks)
  BY ParameterAssumption, FS_Interval DEF Blocks
<1>4. IsFiniteSet(FreeOn(c))
  BY <1>2, <1>3, FS_Subset
<1>5. FreeOn(c) = {b \in ToSet(freeBlocks) : LA!Channel(b) = c}
  BY <1>1 DEF FreeOn, LA!Channel
<1>6. FreeNum(c) = Cardinality(FreeOn(c))
  BY <1>5 DEF FreeNum, LA!WearNum, LA!Cardinality, Cardinality
<1>7. FreeSum(c) = Total(eraseCount, FreeOn(c))
  BY <1>5 DEF FreeSum, LA!WearSum, LA!MapThenSumSet, LA!MapThenFoldSet,
              Total, MapThenSumSet, MapThenFoldSet
<1>8. \A b \in FreeOn(c) : eraseCount[b] \in Nat
  BY <1>2 DEF TypeOK
<1>9. Cardinality(FreeOn(c)) \in Nat /\ Total(eraseCount, FreeOn(c)) \in Nat
  BY <1>4, <1>8, FS_CardinalityType, TotalRemove
<1>10. \A b : b \in FreeOn(c) <=> Listed(b) /\ b % PageCountToMaxPerf = c
  BY <1>1 DEF FreeOn
<1> QED
  BY <1>2, <1>4, <1>6, <1>7, <1>9, <1>10

\* Being a smaller fraction is transitive.
LEMMA FractionsOrdered ==
  ASSUME NEW p \in Nat, NEW q \in Nat, NEW r \in Nat,
         NEW k \in Nat \ {0}, NEW m \in Nat \ {0}, NEW n \in Nat \ {0},
         p * m < q * k, q * n < r * m
  PROVE  p * n < r * k
<1>1. (p * m) * n < (q * k) * n
  <2>1. \A x, y \in Nat : x < y => x * n < y * n
    BY SMT
  <2>2. p * m \in Nat /\ q * k \in Nat
    BY SMT
  <2> QED
    BY <2>1, <2>2
<1>2. (q * n) * k < (r * m) * k
  <2>1. \A x, y \in Nat : x < y => x * k < y * k
    BY SMT
  <2>2. q * n \in Nat /\ r * m \in Nat
    BY SMT
  <2> QED
    BY <2>1, <2>2
<1>3. /\ (p * m) * n = (p * n) * m
      /\ (q * k) * n = (q * n) * k
      /\ (r * m) * k = (r * k) * m
  BY SMT
<1>4. (p * n) * m < (r * k) * m
  <2>1. (p * n) * m \in Nat /\ (q * n) * k \in Nat /\ (r * k) * m \in Nat
    BY SMT
  <2> QED
    BY <1>1, <1>2, <1>3, <2>1
<1>5. \A x, y \in Nat : x * m < y * m => x < y
  BY SMT
<1>6. p * n \in Nat /\ r * k \in Nat
  BY SMT
<1> QED
  BY <1>4, <1>5, <1>6

\* A channel of lowest average exists while there is a free block.
LEMMA LowestExists ==
  ASSUME TypeOK, NEW d, Listed(d)
  PROVE  \E c \in Slots : /\ FreeNum(c) > 0
                          /\ \A e \in Slots :
                                ~LA!LowerAverage(ToSet(freeBlocks), e, c)
<1> DEFINE Lower(e, c) == LA!LowerAverage(ToSet(freeBlocks), e, c)
           Below(c) == {e \in Slots : Lower(e, c)}
           Fam == {Below(c) : c \in {x \in Slots : FreeNum(x) > 0}}
<1>1. \A e, c : Lower(e, c) <=>
         /\ FreeNum(e) > 0
         /\ \/ FreeNum(c) = 0
            \/ FreeSum(e) * FreeNum(c) < FreeSum(c) * FreeNum(e)
  BY DEF LA!LowerAverage, FreeNum, FreeSum
<1>2. \A c : FreeNum(c) \in Nat /\ FreeSum(c) \in Nat
  BY FreeSums
<1> HIDE DEF Lower
<1>3. \E c \in Slots : FreeNum(c) > 0
  <2> DEFINE c == d % PageCountToMaxPerf
  <2>1. d \in Nat
    <3>1. d \in Blocks
      BY DEF Listed, TypeOK
    <3> QED
      BY <3>1 DEF Blocks
  <2>2. c \in Slots
    BY <2>1, ParameterAssumption DEF Slots
  <2>3. d \in FreeOn(c)
    BY FreeSums
  <2>4. FreeNum(c) # 0
    BY <2>3, FreeSums, FS_EmptySet
  <2> QED
    BY <1>2, <2>2, <2>4
<1>4. IsFiniteSet(Slots)
  BY ParameterAssumption, FS_Interval DEF Slots
<1>5. PICK X \in Fam : \A Y \in Fam : Y \subseteq X => Y = X
  <2>1. Fam \in SUBSET (SUBSET Slots) /\ Fam # {}
    BY <1>3
  <2> HIDE DEF Fam
  <2> QED
    BY <1>4, <2>1, SmallestSubset
<1>6. PICK c \in Slots : FreeNum(c) > 0 /\ X = Below(c)
  OBVIOUS
<1>7. ASSUME NEW e \in Slots, Lower(e, c) PROVE FALSE
  <2>1. FreeNum(e) > 0 /\ FreeSum(e) * FreeNum(c) < FreeSum(c) * FreeNum(e)
    BY <1>1, <1>2, <1>6, <1>7
  <2>2. ASSUME NEW f \in Slots, Lower(f, e) PROVE Lower(f, c)
    <3>1. FreeNum(f) > 0 /\ FreeSum(f) * FreeNum(e) < FreeSum(e) * FreeNum(f)
      BY <1>1, <1>2, <2>1, <2>2
    <3>2. FreeSum(f) * FreeNum(c) < FreeSum(c) * FreeNum(f)
      <4>1. /\ FreeNum(f) \in Nat \ {0} /\ FreeNum(e) \in Nat \ {0}
            /\ FreeNum(c) \in Nat \ {0}
        BY <1>2, <1>6, <2>1, <3>1
      <4> QED
        BY <1>2, <2>1, <3>1, <4>1, FractionsOrdered
    <3> QED
      BY <1>1, <3>1, <3>2
  <2>3. Below(e) \in Fam /\ Below(e) \subseteq X
    BY <1>6, <2>1, <2>2
  <2>4. e \in Below(e)
    BY <1>5, <1>6, <1>7, <2>3
  <2>5. Lower(e, e)
    BY <2>4
  <2>6. FreeSum(e) * FreeNum(e) \in Nat
    BY <1>2
  <2> QED
    BY <1>1, <2>1, <2>5, <2>6
<1> QED
  BY <1>6, <1>7 DEF Lower

\* getFreeBlock of mode 3: the first free block of a channel whose average is
\* the lowest.
LEMMA LowestAllotted ==
  ASSUME TypeOK, mode = 3, NEW s \in Slots, NEW d \in FreeBlocksFor(s), Listed(d)
  PROVE  \E c \in Slots :
            /\ FreeNum(c) > 0
            /\ \A e \in Slots : ~LA!LowerAverage(ToSet(freeBlocks), e, c)
            /\ d % PageCountToMaxPerf = c
            /\ \E k \in 1 .. Len(freeBlocks) :
                  /\ d = freeBlocks[k]
                  /\ \A j \in 1 .. Len(freeBlocks) :
                        freeBlocks[j] % PageCountToMaxPerf = c => k <= j
<1> DEFINE lowest == {c \in Slots : FreeNum(c) > 0
                         /\ \A e \in Slots : ~LA!LowerAverage(ToSet(freeBlocks), e, c)}
           t == LA!TargetChannel(s)
           I == {i \in 1 .. Len(freeBlocks) :
                    freeBlocks[i] % PageCountToMaxPerf = t}
           at == IF I # {} THEN Min(I) ELSE 0
<1>1. lowest # {} /\ lowest \in SUBSET Nat
  BY LowestExists DEF Slots
<1>2. t = IF s \in lowest THEN s ELSE Min(lowest)
  BY DEF LA!TargetChannel, FreeNum, LA!ToSet, ToSet, LA!Min, Min, LA!Slots, Slots
<1>3. Min(lowest) \in lowest
  BY <1>1, MinOfNats
<1>4. t \in lowest
  BY <1>2, <1>3
<1>5. d \in {freeBlocks[IF at = 0 THEN 1 ELSE at]}
  <2>1. FreeBlocksFor(s) = LA!GetFreeBlock(s)
    BY DEF FreeBlocksFor
  <2>2. LA!GetFreeBlock(s) = {freeBlocks[IF at = 0 THEN 1 ELSE at]}
    BY DEF LA!GetFreeBlock, LA!SelectInSeq, LA!Min, Min, LA!Channel
  <2> HIDE DEF at
  <2> QED
    BY <2>1, <2>2
<1> HIDE DEF t, lowest
<1>6. Len(freeBlocks) \in Nat
  BY DEF TypeOK
<1>7. I # {}
  <2>1. FreeNum(t) # 0
    BY <1>4 DEF lowest
  <2>2. PICK b : b \in FreeOn(t)
    BY <2>1, FreeSums, FS_EmptySet
  <2>3. Listed(b) /\ b % PageCountToMaxPerf = t
    BY <2>2, FreeSums
  <2> QED
    BY <2>3 DEF Listed
<1>8. I \in SUBSET Nat
  BY <1>6
<1> DEFINE k == Min(I)
<1>9. k \in I /\ \A j \in I : k <= j
  BY <1>7, <1>8, MinOfNats
<1>10. d = freeBlocks[k]
  BY <1>5, <1>6, <1>7, <1>9
<1> HIDE DEF k
<1> QED
  BY <1>4, <1>9, <1>10 DEF lowest

\* Mode 3 opens a block that is no more worn than the average free block of
\* any channel, whichever slot asked (getFreeBlock of
\* src/simplessd/ftl/la_page_mapping.cc): averages are compared without rounding,
\* and the list is in order of wear in every reachable state.
THEOREM AverageBoundsOpened == FTLSpec => OpensBelowEveryAverage
<1> DEFINE A == mode = 3 =>
                  \A d \in active' \ active : \A c \in Slots :
                     LA!WearNum(ToSet(freeBlocks), c) > 0 =>
                        eraseCount[d] * LA!WearNum(ToSet(freeBlocks), c)
                           <= LA!WearSum(ToSet(freeBlocks), c)
<1>1. Inductive /\ FreeListSorted /\ [OpensAllotted]_fvars => [A]_fvars
  <2> SUFFICES ASSUME Inductive, FreeListSorted, OpensAllotted, mode = 3,
                      NEW d \in active' \ active, NEW c \in Slots, FreeNum(c) > 0
               PROVE  eraseCount[d] * FreeNum(c) <= FreeSum(c)
    BY DEF FreeNum, FreeSum
  <2>1. PICK s \in Slots : d \in FreeBlocksFor(s) /\ Listed(d)
    BY DEF OpensAllotted, OpensNone, OpensFor
  <2>2. PICK t \in Slots :
            /\ FreeNum(t) > 0
            /\ ~LA!LowerAverage(ToSet(freeBlocks), c, t)
            /\ \E k \in 1 .. Len(freeBlocks) :
                  /\ d = freeBlocks[k]
                  /\ \A j \in 1 .. Len(freeBlocks) :
                        freeBlocks[j] % PageCountToMaxPerf = t => k <= j
    BY <2>1, LowestAllotted DEF Inductive
  <2>3. PICK k \in 1 .. Len(freeBlocks) :
                  /\ d = freeBlocks[k]
                  /\ \A j \in 1 .. Len(freeBlocks) :
                        freeBlocks[j] % PageCountToMaxPerf = t => k <= j
    BY <2>2
  <2>4. /\ \A b \in Blocks : eraseCount[b] \in Nat
        /\ d \in Blocks /\ Len(freeBlocks) \in Nat
    BY <2>3 DEF Inductive, TypeOK
  <2>5. ASSUME NEW b \in FreeOn(t)
        PROVE  eraseCount[b] \in Nat /\ eraseCount[d] <= eraseCount[b]
    <3>1. b \in Blocks /\ Listed(b) /\ b % PageCountToMaxPerf = t
      BY FreeSums DEF Inductive
    <3>2. PICK j \in 1 .. Len(freeBlocks) : freeBlocks[j] = b
      BY <3>1 DEF Listed
    <3>3. k <= j
      BY <2>3, <3>1, <3>2
    <3>4. CASE k = j
      BY <2>3, <2>4, <3>1, <3>2, <3>4
    <3>5. CASE k < j
      BY <2>3, <2>4, <3>1, <3>2, <3>5 DEF FreeListSorted
    <3> QED
      BY <2>4, <3>3, <3>4, <3>5
  <2>6. /\ FreeNum(t) \in Nat /\ FreeSum(t) \in Nat
        /\ FreeNum(c) \in Nat /\ FreeSum(c) \in Nat /\ eraseCount[d] \in Nat
    BY <2>4, FreeSums DEF Inductive
  <2>7. eraseCount[d] * FreeNum(t) <= FreeSum(t)
    <3>1. /\ IsFiniteSet(FreeOn(t)) /\ FreeNum(t) = Cardinality(FreeOn(t))
          /\ FreeSum(t) = Total(eraseCount, FreeOn(t))
      BY FreeSums DEF Inductive
    <3> QED
      BY <2>5, <2>6, <3>1, TotalAtLeast
  <2>8. ~(FreeSum(c) * FreeNum(t) < FreeSum(t) * FreeNum(c))
    BY <2>2 DEF LA!LowerAverage, FreeNum, FreeSum
  <2>9. ASSUME NEW x \in Nat, NEW m \in Nat \ {0}, NEW n \in Nat, NEW p \in Nat,
               NEW q \in Nat, x * m <= p, ~(q * m < p * n)
        PROVE  x * n <= q
    <3>1. (x * m) * n <= p * n
      <4>1. \A y, z \in Nat : y <= z => y * n <= z * n
        BY SMT
      <4>2. x * m \in Nat
        BY SMT
      <4> QED
        BY <2>9, <4>1, <4>2
    <3>2. (x * m) * n = (x * n) * m
      BY SMT
    <3>3. (x * n) * m <= q * m
      <4>1. p * n \in Nat /\ q * m \in Nat /\ (x * n) * m \in Nat
        BY SMT
      <4> QED
        BY <2>9, <3>1, <3>2, <4>1
    <3>4. \A y, z \in Nat : y * m <= z * m => y <= z
      BY SMT
    <3>5. x * n \in Nat
      BY SMT
    <3> QED
      BY <3>3, <3>4, <3>5
  <2>10. FreeNum(t) \in Nat \ {0}
    BY <2>2, <2>6
  <2> QED
    BY <2>6, <2>7, <2>8, <2>9, <2>10
<1>2. FTLSpec => []FreeListSorted
  BY ListAlwaysSorted
<1>3. OpensBelowEveryAverage <=> [][A]_fvars
  BY DEF OpensBelowEveryAverage
<1> HIDE DEF A
<1> QED
  BY <1>1, <1>2, <1>3, FTLOpens, PTL

-----------------------------------------------------------------------------
(* Which victims are taken *)

\* While a call is selecting, the only step is selectVictimBlock's.
LEMMA OnlySelects ==
  ASSUME pc = "select", ModeStep
  PROVE  SelectByWeight([b \in Candidates |-> WeightOf(b)])
BY DEF ModeStep, OpenSlot, Warmup, Invalidation, InitializeNext, Read, Trim, Write,
       Format, CopyPage, CopyDone, EraseInternal, Over

\* Valid units are counted by a natural number.
LEMMA ValidCountType ==
  ASSUME TypeOK, NEW b
  PROVE  ValidCount(b) \in Nat
<1>1. IsFiniteSet(Blocks) /\ IsFiniteSet(Pages) /\ IsFiniteSet(Units)
  <2>1. /\ 0 \in Int /\ TotalBlocks - 1 \in Int /\ PagesInBlock - 1 \in Int
        /\ IoUnitInPage - 1 \in Int
    BY ParameterAssumption
  <2>2. IsFiniteSet(0 .. IoUnitInPage - 1) /\ IsFiniteSet({0})
    BY <2>1, FS_Interval, FS_Singleton
  <2> QED
    BY <2>1, <2>2, FS_Interval DEF Blocks, Pages, Units
<1>2. IsFiniteSet(Blocks \X (Pages \X Units))
  BY <1>1, FS_Product
<1> DEFINE V == {c \in valid : c[1] = b}
           f == [c \in Cells |-> <<c[1], <<c[2], c[3]>>>>]
<1>3. IsFiniteSet(V)
  <2>1. f \in [Cells -> Blocks \X (Pages \X Units)]
    BY DEF Cells
  <2>2. \A c, d \in Cells : f[c] = f[d] => c = d
    BY DEF Cells
  <2>3. f \in Injection(Cells, Blocks \X (Pages \X Units))
    BY <2>1, <2>2 DEF Injection, IsInjective
  <2>4. IsFiniteSet(Cells)
    BY <1>2, <2>3, FS_Injection
  <2>5. V \in SUBSET Cells
    BY DEF TypeOK
  <2> QED
    BY <2>4, <2>5, FS_Subset
<1> QED
  BY <1>3, FS_CardinalityType DEF ValidCount

\* A block that is no fuller and less worn is strictly lighter.
LEMMA DominatedIsHeavier ==
  ASSUME TypeOK, mode = 1, WLLambdaPct > 0, BadBlockThreshold > 0,
         NEW a \in Blocks, NEW b \in Blocks,
         ValidCount(b) <= ValidCount(a), eraseCount[b] < eraseCount[a]
  PROVE  ~(WeightOf(a) <= WeightOf(b))
<1>1. \A x : WL!ValidCount(x) = ValidCount(x)
  BY DEF WL!ValidCount, ValidCount, WL!Cardinality, Cardinality
<1>2. \A x : WeightOf(x) = 100 * BadBlockThreshold * ValidCount(x)
                              + WLLambdaPct * PagesInBlock * eraseCount[x]
  <2>1. BadBlockThreshold # 0
    BY ParameterAssumption
  <2> QED
    BY <1>1, <2>1 DEF WeightOf, WL!CalculateVictimWeight, WL!WearTerm
<1>3. /\ ValidCount(a) \in Nat /\ ValidCount(b) \in Nat
      /\ eraseCount[a] \in Nat /\ eraseCount[b] \in Nat
  BY ValidCountType DEF TypeOK
<1>4. /\ BadBlockThreshold \in Nat \ {0} /\ WLLambdaPct \in Nat \ {0}
      /\ PagesInBlock \in Nat \ {0}
  BY ParameterAssumption, ModeAssumption
<1>5. \A s, t \in Nat \ {0} : s * t \in Nat \ {0}
  BY SMT
<1>6. ASSUME NEW s \in Nat \ {0}, NEW t \in Nat \ {0},
             NEW v \in Nat, NEW w \in Nat, NEW m \in Nat, NEW n \in Nat,
             v <= w, m < n
      PROVE  ~(s * w + t * n <= s * v + t * m)
  <2>1. s * v <= s * w
    BY <1>6, SMT
  <2>2. t * m < t * n
    BY <1>6, SMT
  <2>3. /\ s * v \in Nat /\ s * w \in Nat /\ t * m \in Nat /\ t * n \in Nat
    BY <1>6, SMT
  <2> QED
    BY <2>1, <2>2, <2>3, SMT
<1>7. 100 * BadBlockThreshold \in Nat \ {0} /\ WLLambdaPct * PagesInBlock \in Nat \ {0}
  BY <1>4, <1>5
<1> QED
  BY <1>2, <1>3, <1>6, <1>7

\* Mode 1 with the greedy policy never wears a block out in place of a
\* candidate that is no fuller and less worn, whatever the number of victims
\* (selectVictimBlock and calculateVictimWeight of
\* src/simplessd/ftl/wl_page_mapping.cc).  lambda must not be zero; the sampling
\* policies do not look at every candidate.
THEOREM NoVictimDominated ==
  ASSUME EvictPolicy = "greedy", WLLambdaPct > 0, BadBlockThreshold > 0
  PROVE  FTLSpec => NoDominatedVictim
<1> DEFINE A == mode = 1 /\ pc = "select" =>
                  \A a \in ToSet(victims') : \A b \in Candidates \ ToSet(victims') :
                     ~(ValidCount(b) <= ValidCount(a) /\ eraseCount[b] < eraseCount[a])
<1>1. Inductive /\ [FTLNext]_fvars => [A]_fvars
  <2> SUFFICES ASSUME Inductive, ModeStep, mode = 1, pc = "select",
                      NEW a \in ToSet(victims'),
                      NEW b \in Candidates \ ToSet(victims'),
                      ValidCount(b) <= ValidCount(a), eraseCount[b] < eraseCount[a]
               PROVE  FALSE
    BY FTLStep
  <2> DEFINE w == [x \in Candidates |-> WeightOf(x)]
  <2>1. SelectByWeight(w)
    BY OnlySelects
  <2>2. Samples = {Candidates}
    BY DEF Samples
  <2>3. PICK list \in [1 .. Min({BlocksToReclaim, Cardinality(Candidates)})
                         -> Candidates] :
           Lightest(list, Candidates, w) /\ victims' = list
    BY <2>1, <2>2 DEF SelectByWeight, SelectVictimBlock
  <2>4. PICK i \in DOMAIN list : a = list[i]
    BY <2>3 DEF ToSet
  <2>5. a \in Candidates /\ b \in Candidates /\ Candidates \in SUBSET Blocks
    BY <2>3, <2>4 DEF Candidates, Inductive, TypeOK
  <2>6. w[a] <= w[b]
    <3>1. DOMAIN list = 1 .. Len(list)
      <4>1. list \in Lists(Candidates)
        BY <2>2, <2>3, VictimsListed
      <4> QED
        BY <4>1, ListsAreSequences
    <3>2. b \in Candidates \ ToSet(list)
      BY <2>3
    <3> HIDE DEF w
    <3> QED
      BY <2>3, <2>4, <3>1, <3>2 DEF Lightest
  <2> QED
    BY <2>5, <2>6, DominatedIsHeavier DEF Inductive
<1>2. FTLSpec => []Inductive
  BY ModesImplementCore, PTL
<1>3. NoDominatedVictim <=> [][A]_fvars
  BY DEF NoDominatedVictim
<1> HIDE DEF A
<1> QED
  BY <1>1, <1>2, <1>3, PTL DEF FTLSpec

=============================================================================
