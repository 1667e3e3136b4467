---------------------------- MODULE CacheProofs ----------------------------
(***************************************************************************)
(* Proofs about the line cache, for every geometry, number of lines in a   *)
(* page, width of an I/O and choice of the eviction policy.                *)
(*                                                                         *)
(* A valid line lies in the set of its tag and no two valid lines carry    *)
(* one tag.  The hard step is a read that fills several lines: while it    *)
(* reserves them, lines are valid under tags they are about to lose, and   *)
(* neither half of the property holds.                                     *)
(***************************************************************************)
EXTENDS GenericCache, SeqLemmas

-----------------------------------------------------------------------------
(* The inductive invariant *)

\* A valid line lies in the set of its tag.
Located(c) ==
    \A l \in Slots : c[l].valid => l[1] = CalcSetIndex(c[l].tag)

\* No two valid lines carry one tag.
Unique(c) ==
    \A l, m \in Slots :
        c[l].valid /\ c[m].valid /\ c[l].tag = c[m].tag => l = m

\* The trigger lies half of a prefetch behind its end, so that the next one
\* reaches a bounded distance past the device.
Ahead ==
    prefetchTrigger # None =>
        lastPrefetched = prefetchTrigger + (PrefetchSpan - PrefetchSpan \div 2)

CacheInv ==
    /\ TypeOK
    /\ Located(cacheData)
    /\ Unique(cacheData)
    /\ Ahead
    /\ ~fault

\* Located and Unique are what Indexed says.
LEMMA IndexedMeans ==
  ASSUME CacheInv
  PROVE  Indexed
<1> SUFFICES ASSUME NEW l \in Slots, cacheData[l].valid
             PROVE  GetValidWay(cacheData, cacheData[l].tag) = {l}
  BY DEF CacheInv, Indexed
<1>1. l[1] = CalcSetIndex(cacheData[l].tag)
  BY DEF CacheInv, Located
<1>2. \A m \in Slots : cacheData[m].valid /\ cacheData[m].tag = cacheData[l].tag => m = l
  BY DEF CacheInv, Unique
<1> QED
  BY <1>1, <1>2 DEF GetValidWay

-----------------------------------------------------------------------------
(* Geometry *)

\* A quotient is below the factor the dividend is below.
LEMMA QuotientBelow ==
  ASSUME NEW t \in Nat, NEW k \in Nat \ {0}, NEW p \in Nat, t < p * k
  PROVE  t \div k \in 0 .. p - 1
<1> DEFINE q == t \div k
<1>1. q \in Nat /\ k * q <= t
  OBVIOUS
<1> HIDE DEF q
<1>2. SUFFICES ASSUME q >= p PROVE FALSE
  BY <1>1 DEF q
<1>3. k * q >= k * p
  BY <1>1, <1>2
<1>4. k * p = p * k
  OBVIOUS
<1>5. k * q \in Nat /\ k * p \in Nat
  BY <1>1
<1> QED
  BY <1>1, <1>3, <1>4, <1>5

\* A dividend is within a divisor of the multiple below it.
LEMMA DivisionLeaves ==
  ASSUME NEW t \in Nat, NEW k \in Nat \ {0}
  PROVE  t \in k * (t \div k) .. k * (t \div k) + k - 1
<1> DEFINE q == t \div k
<1>1. q \in Nat /\ k * q <= t
  OBVIOUS
<1>2. t < k * (q + 1)
  OBVIOUS
<1>3. k * q \in Nat /\ k * (q + 1) = k * q + k
  BY <1>1
<1> HIDE DEF q
<1>4. t \in k * q .. k * q + k - 1
  <2> DEFINE z == k * q
  <2> HIDE DEF z
  <2>1. z \in Nat /\ z <= t /\ t < z + k
    BY <1>1, <1>2, <1>3 DEF z
  <2>2. t \in z .. z + k - 1
    BY <2>1
  <2> QED
    BY <2>2 DEF z
<1> QED
  BY <1>4 DEF q

\* What the constructor computes.
LEMMA ConfType ==
  ASSUME conf \in Configurations
  PROVE  /\ conf.ways \in Nat \ {0} /\ conf.sets \in Nat \ {0}
         /\ conf.k \in Nat \ {0}
         /\ {conf.read, conf.write, conf.prefetch, conf.evictAll,
             conf.prefetchAll} \subseteq BOOLEAN
<1>1. \E r \in ReadCaching : \E w \in WriteCaching : \E p \in ReadPrefetch :
      \E k \in LineCounts : \E e \in EvictAll : \E a \in PrefetchAll :
      \E n \in WaySizes : \E super \in BOOLEAN :
         conf = [read |-> r, write |-> w, prefetch |-> p, k |-> k,
                 evictAll |-> e, prefetchAll |-> a \/ ~super,
                 ways |-> IF n = 0 THEN Larger(CacheLines, 1) ELSE n,
                 sets |-> IF n = 0 THEN 1 ELSE Larger(CacheLines \div n, 1)]
  BY DEF Configurations
<1>2. \A n \in WaySizes : /\ (IF n = 0 THEN Larger(CacheLines, 1) ELSE n) \in Nat \ {0}
                          /\ (IF n = 0 THEN 1 ELSE Larger(CacheLines \div n, 1)) \in Nat \ {0}
  <2> SUFFICES ASSUME NEW n \in WaySizes
               PROVE  /\ (IF n = 0 THEN Larger(CacheLines, 1) ELSE n) \in Nat \ {0}
                      /\ (IF n = 0 THEN 1 ELSE Larger(CacheLines \div n, 1)) \in Nat \ {0}
    OBVIOUS
  <2>1. n \in Nat /\ CacheLines \in Nat
    BY GeometryAssumption
  <2>2. n # 0 => CacheLines \div n \in Nat
    BY <2>1
  <2> QED
    BY <2>1, <2>2 DEF Larger
<1>3. /\ LineCounts \subseteq Nat \ {0} /\ ReadCaching \subseteq BOOLEAN
      /\ WriteCaching \subseteq BOOLEAN /\ ReadPrefetch \subseteq BOOLEAN
      /\ EvictAll \subseteq BOOLEAN /\ PrefetchAll \subseteq BOOLEAN
  BY GeometryAssumption
<1> QED
  BY <1>1, <1>2, <1>3

\* Sets and positions of an address.
LEMMA AddressType ==
  ASSUME conf \in Configurations, NEW lca \in Nat
  PROVE  /\ CalcSetIndex(lca) \in Sets
         /\ CalcIOPosition(lca) \in IOPositions
         /\ PrefetchSpan \in Nat \ {0}
<1>0. /\ conf.ways \in Nat \ {0} /\ conf.sets \in Nat \ {0} /\ conf.k \in Nat \ {0}
      /\ ParallelIO \in Nat \ {0}
  BY ConfType, GeometryAssumption
<1>1. CalcSetIndex(lca) \in Sets
  BY <1>0 DEF CalcSetIndex, Sets
<1>2. LineCountInMaxIO \in Nat \ {0}
  BY <1>0 DEF LineCountInMaxIO
<1>3. PrefetchSpan \in Nat \ {0}
  BY <1>0, <1>2 DEF PrefetchSpan
<1>4. CalcIOPosition(lca) \in IOPositions
  <2> DEFINE tmp == lca % LineCountInMaxIO
  <2>1. tmp \in Nat /\ tmp < ParallelIO * conf.k
    <3>1. tmp \in 0 .. LineCountInMaxIO - 1
      BY <1>2
    <3> QED
      BY <1>2, <3>1 DEF LineCountInMaxIO
  <2> HIDE DEF tmp
  <2>2. tmp \div conf.k \in 0 .. ParallelIO - 1
    BY <1>0, <2>1, QuotientBelow
  <2>3. tmp % conf.k \in 0 .. conf.k - 1
    BY <1>0, <2>1
  <2> QED
    BY <2>2, <2>3 DEF CalcIOPosition, IOPositions, tmp
<1> QED
  BY <1>1, <1>3, <1>4

\* The pieces of Slots and Tags.
LEMMA SlotType ==
  ASSUME conf \in Configurations
  PROVE  /\ \A l \in Slots : l[1] \in Sets /\ l[2] \in Ways /\ l = <<l[1], l[2]>>
         /\ \A s \in Sets, w \in Ways : <<s, w>> \in Slots /\ <<s, w>>[1] = s
         /\ Ways # {} /\ 0 \in Ways
         /\ Tags \subseteq Nat /\ 0 \in Tags /\ 0 .. LCAs - 1 \subseteq Tags
         /\ BlankLine \in Lines /\ NoSlot \notin Slots
<1>0. conf.ways \in Nat \ {0} /\ conf.sets \in Nat \ {0} /\ LCAs \in Nat \ {0}
  BY ConfType, GeometryAssumption
<1>1. PrefetchSpan \in Nat \ {0}
  BY AddressType
<1>2. Tags \subseteq Nat /\ 0 \in Tags /\ 0 .. LCAs - 1 \subseteq Tags
  BY <1>0, <1>1 DEF Tags
<1>3. BlankLine \in Lines
  BY <1>2 DEF BlankLine, Lines
<1>4. NoSlot \notin Slots
  BY <1>0 DEF NoSlot, None, Slots, Sets
<1>5. Ways # {} /\ 0 \in Ways
  BY <1>0 DEF Ways
<1> QED
  BY <1>2, <1>3, <1>4, <1>5 DEF Slots

-----------------------------------------------------------------------------
(* Writes *)

\* A cache whose lines are where the lookup expects them.
Sound(c) == c \in [Slots -> Lines] /\ Located(c) /\ Unique(c)

\* Dropping lines, and forgetting whether they are current, keeps it so.
LEMMA FewerValid ==
  ASSUME NEW c, Sound(c), NEW d \in [Slots -> Lines],
         \A l \in Slots : d[l].valid => c[l].valid /\ d[l].tag = c[l].tag
  PROVE  Sound(d)
<1>1. Located(d)
  BY DEF Sound, Located
<1>2. Unique(d)
  BY DEF Sound, Unique
<1> QED
  BY <1>1, <1>2 DEF Sound

\* A line is placed in its set, in the slot of its tag if there is one.
LEMMA PlacedSound ==
  ASSUME NEW c, Sound(c), NEW l \in Slots, NEW lca \in Tags, NEW dirty \in BOOLEAN,
         l[1] = CalcSetIndex(lca),
         \A m \in Slots : c[m].valid /\ c[m].tag = lca => m = l
  PROVE  Sound(Placed(c, l, lca, dirty))
<1> DEFINE f == Fresh(lca, dirty)
           d == Placed(c, l, lca, dirty)
<1>1. f \in Lines /\ f.tag = lca
  BY DEF Fresh, Lines
<1>2. /\ d \in [Slots -> Lines] /\ d[l] = f
      /\ \A m \in Slots : m # l => d[m] = c[m]
  BY <1>1 DEF Placed, Sound
<1> HIDE DEF d, f
<1>3. Located(d)
  BY <1>1, <1>2 DEF Sound, Located
<1>4. Unique(d)
  <2> SUFFICES ASSUME NEW x \in Slots, NEW y \in Slots, d[x].valid, d[y].valid,
                      d[x].tag = d[y].tag, x # y
               PROVE  FALSE
    BY DEF Unique
  <2>1. CASE x = l
    BY <1>1, <1>2, <2>1
  <2>2. CASE y = l
    BY <1>1, <1>2, <2>2
  <2>3. CASE x # l /\ y # l
    BY <1>2, <2>3 DEF Sound, Unique
  <2> QED
    BY <2>1, <2>2, <2>3
<1> QED
  BY <1>2, <1>3, <1>4 DEF Sound, d

\* The host's version supersedes the others: the lookup sees no difference.
LEMMA SupersedeSound ==
  ASSUME NEW c, Sound(c), NEW lca
  PROVE  /\ Sound(Supersede(c, lca))
         /\ \A l \in Slots : /\ Supersede(c, lca)[l].valid = c[l].valid
                             /\ Supersede(c, lca)[l].tag = c[l].tag
<1> DEFINE d == Supersede(c, lca)
<1>1. \A l \in Slots : c[l] \in Lines /\ [c[l] EXCEPT !.new = FALSE] \in Lines
  BY DEF Sound, Lines
<1>2. d \in [Slots -> Lines]
  BY <1>1 DEF Supersede
<1>3. \A l \in Slots : d[l].valid = c[l].valid /\ d[l].tag = c[l].tag
  BY <1>1 DEF Supersede, Lines
<1> HIDE DEF d
<1>4. Sound(d)
  BY <1>2, <1>3, FewerValid
<1> QED
  BY <1>3, <1>4 DEF d

\* Lines that are evicted are blank, the others as they were.
LEMMA EvictSound ==
  ASSUME conf \in Configurations, NEW c, Sound(c), NEW e
  PROVE  /\ Sound(EvictCache(c, e))
         /\ \A l \in Chosen(e) \cap Slots : ~EvictCache(c, e)[l].valid
         /\ \A l \in Slots : EvictCache(c, e)[l].valid =>
               EvictCache(c, e)[l] = c[l]
<1> DEFINE d == EvictCache(c, e)
<1>1. BlankLine \in Lines /\ ~BlankLine.valid
  BY SlotType DEF BlankLine
<1>2. /\ d \in [Slots -> Lines]
      /\ \A l \in Slots : d[l] = IF l \in Chosen(e) THEN BlankLine ELSE c[l]
  BY <1>1 DEF EvictCache, Sound
<1> HIDE DEF d
<1>3. \A l \in Slots : d[l].valid => d[l] = c[l]
  BY <1>1, <1>2
<1>4. Sound(d)
  BY <1>2, <1>3, FewerValid
<1> QED
  BY <1>1, <1>2, <1>3, <1>4 DEF d

\* What the FTL is given are tags.
LEMMA FlashType ==
  ASSUME NEW c \in [Slots -> Lines], NEW fl \in SUBSET Tags, NEW e,
         Chosen(e) \subseteq Slots
  PROVE  EvictedToFlash(c, e, fl) \subseteq Tags
<1>1. \A l \in Slots : c[l].tag \in Tags
  BY DEF Lines
<1> QED
  BY <1>1 DEF EvictedToFlash, WriteBack

\* A selection for a full set takes valid lines, one of the set among them,
\* so that the set has an empty way after the eviction.
LEMMA SelectionFrees ==
  ASSUME conf \in Configurations, NEW c, Sound(c), NEW set \in Sets,
         GetEmptyWay(c, set) = {}, NEW s \in Selections(c),
         NEW e \in WithSetToFlush(c, s, set)
  PROVE  /\ Chosen(e) \subseteq Slots /\ \A l \in Chosen(e) : c[l].valid
         /\ GetEmptyWay(EvictCache(c, e), set) # {}
<1>0. Tags \subseteq Nat /\ NoSlot \notin Slots
  BY SlotType
<1>1. /\ DOMAIN s = IOPositions
      /\ \A p \in IOPositions : s[p] = NoSlot \/ (s[p] \in Slots /\ c[s[p]].valid)
  <2>1. DOMAIN s = IOPositions /\ \A p \in IOPositions : s[p] \in Preferred(c, p)
    BY DEF Selections
  <2>2. \A p \in IOPositions : \A l \in Preferred(c, p) :
           l = NoSlot \/ (l \in Slots /\ c[l].valid)
    BY DEF Preferred, Comparable
  <2> QED
    BY <2>1, <2>2
<1>2. \A l \in Chosen(s) : l \in Slots /\ c[l].valid
  BY <1>1 DEF Chosen
<1>3. ASSUME NEW d, NEW l \in Slots, l \in Chosen(d), l[1] = set
      PROVE  GetEmptyWay(EvictCache(c, d), set) # {}
  <2>1. ~EvictCache(c, d)[l].valid
    BY <1>3, EvictSound
  <2> QED
    BY <1>3, <2>1 DEF GetEmptyWay
<1>4. CASE \E l \in Chosen(s) : CalcSetIndex(c[l].tag) = set
  <2>1. PICK l \in Chosen(s) : CalcSetIndex(c[l].tag) = set
    BY <1>4
  <2>2. l[1] = set
    BY <1>2, <2>1 DEF Sound, Located
  <2>3. e = s
    BY <1>4 DEF WithSetToFlush
  <2> QED
    BY <1>2, <1>3, <2>2, <2>3
<1>5. CASE ~\E l \in Chosen(s) : CalcSetIndex(c[l].tag) = set
  <2>1. PICK l \in {x \in Slots : x[1] = set /\ c[x].valid} :
           e = [s EXCEPT ![CalcIOPosition(c[l].tag)] = l]
    BY <1>5 DEF WithSetToFlush
  <2> DEFINE pos == CalcIOPosition(c[l].tag)
  <2>2. pos \in IOPositions
    <3>1. c[l].tag \in Nat
      BY <1>0 DEF Sound, Lines
    <3> QED
      BY <3>1, AddressType
  <2> HIDE DEF pos
  <2>3. /\ e[pos] = l /\ \A p \in IOPositions : e[p] = l \/ e[p] = s[p]
    BY <1>1, <2>1, <2>2 DEF pos
  <2>4. l \in Chosen(e)
    BY <1>0, <2>2, <2>3 DEF Chosen
  <2>5. \A x \in Chosen(e) : x \in Slots /\ c[x].valid
    BY <1>1, <2>1, <2>3 DEF Chosen
  <2> QED
    BY <1>3, <2>1, <2>4, <2>5
<1> QED
  BY <1>4, <1>5

\* What a step must show: the configuration never changes.
LEMMA CacheFrame ==
  ASSUME CacheInv, conf' = conf, Sound(cacheData'), flash' \subseteq Tags,
         live' \subseteq 0 .. LCAs - 1, flushed' \in BOOLEAN, fault' = FALSE,
         prefetchTrigger' \in Tags \cup {None}, lastPrefetched' \in Tags,
         prefetchTrigger' # None =>
            lastPrefetched' = prefetchTrigger' + (PrefetchSpan - PrefetchSpan \div 2)
  PROVE  CacheInv'
<1>1. /\ Slots' = Slots /\ Tags' = Tags /\ Lines' = Lines
      /\ PrefetchSpan' = PrefetchSpan /\ Configurations' = Configurations
  BY DEF Slots, Sets, Ways, Tags, Lines, PrefetchSpan, LineCountInMaxIO,
         Configurations
<1>2. TypeOK'
  BY <1>1 DEF CacheInv, TypeOK, Sound
<1>3. Located(cacheData)' /\ Unique(cacheData)'
  BY <1>1 DEF Sound, Located, Unique, CalcSetIndex
<1>4. Ahead'
  BY <1>1 DEF Ahead, None
<1> QED
  BY <1>2, <1>3, <1>4 DEF CacheInv

\* A write of lca that puts its line into slot l: of the cache c, if that has
\* the line or an empty way, or of what an eviction leaves of it.
Placing(c, fl, l, lca, partial) ==
    \/ /\ cacheData' = Placed(c, l, lca, DirtyOf(partial))
       /\ flash' = fl
       /\ \A m \in Slots : c[m].valid /\ c[m].tag = lca => m = l
       /\ ~c[l].valid \/ c[l].tag = lca
    \/ \E e :
       /\ Chosen(e) \subseteq Slots
       /\ cacheData' = Placed(EvictCache(c, e), l, lca, TRUE)
       /\ flash' = EvictedToFlash(c, e, fl)
       /\ \A m \in Slots : ~(c[m].valid /\ c[m].tag = lca)
       /\ ~EvictCache(c, e)[l].valid

\* A cached write always finds a slot of its set; "Cache corrupted!" is not
\* reached.
LEMMA WriteShape ==
  ASSUME conf \in Configurations, Sound(cacheData), NEW lca \in 0 .. LCAs - 1,
         NEW partial \in BOOLEAN, WriteCached(lca, partial)
  PROVE  /\ UNCHANGED fault
         /\ \E l \in Slots :
              /\ l[1] = CalcSetIndex(lca)
              /\ Placing(Supersede(cacheData, lca), FlashAfterWrite(lca, partial),
                         l, lca, partial)
<1> DEFINE c == Supersede(cacheData, lca)
           fl == FlashAfterWrite(lca, partial)
           set == CalcSetIndex(lca)
           here == IF GetValidWay(c, lca) # {} THEN GetValidWay(c, lca)
                                               ELSE GetEmptyWay(c, set)
<1>0. SUFFICES /\ UNCHANGED fault
               /\ \E l \in Slots : l[1] = set /\ Placing(c, fl, l, lca, partial)
  OBVIOUS
<1>1. lca \in Nat
  OBVIOUS
<1>2. Sound(c) /\ set \in Sets
  BY <1>1, SupersedeSound, AddressType
<1>3. \/ /\ here # {}
         /\ \E l \in here : cacheData' = Placed(c, l, lca, DirtyOf(partial))
         /\ flash' = fl
         /\ UNCHANGED fault
      \/ /\ here = {}
         /\ \E s \in Selections(c) : \E e \in WithSetToFlush(c, s, set) :
              /\ flash' = EvictedToFlash(c, e, fl)
              /\ IF GetEmptyWay(EvictCache(c, e), set) = {}
                 THEN fault' = TRUE /\ cacheData' = EvictCache(c, e)
                 ELSE /\ UNCHANGED fault
                      /\ \E l \in GetEmptyWay(EvictCache(c, e), set) :
                            cacheData' = Placed(EvictCache(c, e), l, lca, TRUE)
  BY DEF WriteCached
<1> HIDE DEF c, fl
<1>4. \A m \in Slots : c[m].valid /\ c[m].tag = lca => m \in GetValidWay(c, lca)
  BY <1>2 DEF GetValidWay, Sound, Located
<1>5. CASE /\ here # {}
           /\ \E l \in here : cacheData' = Placed(c, l, lca, DirtyOf(partial))
           /\ flash' = fl
           /\ UNCHANGED fault
  <2>1. PICK l \in here : cacheData' = Placed(c, l, lca, DirtyOf(partial))
    BY <1>5
  <2>2. l \in Slots /\ l[1] = CalcSetIndex(lca)
    BY DEF GetValidWay, GetEmptyWay
  <2>3. /\ \A m \in Slots : c[m].valid /\ c[m].tag = lca => m = l
        /\ ~c[l].valid \/ c[l].tag = lca
    <3>1. CASE GetValidWay(c, lca) # {}
      <4>1. c[l].valid /\ c[l].tag = lca
        BY <3>1 DEF GetValidWay
      <4> QED
        BY <1>2, <2>2, <4>1 DEF Sound, Unique
    <3>2. CASE GetValidWay(c, lca) = {}
      <4>1. ~c[l].valid
        BY <3>2 DEF GetEmptyWay
      <4> QED
        BY <1>4, <3>2, <4>1
    <3> QED
      BY <3>1, <3>2
  <2>4. Placing(c, fl, l, lca, partial)
    BY <1>5, <2>1, <2>3 DEF Placing
  <2> QED
    BY <1>5, <2>2, <2>4
<1>6. CASE /\ here = {}
           /\ \E s \in Selections(c) : \E e \in WithSetToFlush(c, s, set) :
              /\ flash' = EvictedToFlash(c, e, fl)
              /\ IF GetEmptyWay(EvictCache(c, e), set) = {}
                 THEN fault' = TRUE /\ cacheData' = EvictCache(c, e)
                 ELSE /\ UNCHANGED fault
                      /\ \E l \in GetEmptyWay(EvictCache(c, e), set) :
                            cacheData' = Placed(EvictCache(c, e), l, lca, TRUE)
  <2>1. GetValidWay(c, lca) = {} /\ GetEmptyWay(c, set) = {}
    BY <1>6
  <2>2. PICK s \in Selections(c) : \E e \in WithSetToFlush(c, s, set) :
              /\ flash' = EvictedToFlash(c, e, fl)
              /\ IF GetEmptyWay(EvictCache(c, e), set) = {}
                 THEN fault' = TRUE /\ cacheData' = EvictCache(c, e)
                 ELSE /\ UNCHANGED fault
                      /\ \E l \in GetEmptyWay(EvictCache(c, e), set) :
                            cacheData' = Placed(EvictCache(c, e), l, lca, TRUE)
    BY <1>6
  <2>3. PICK e \in WithSetToFlush(c, s, set) :
              /\ flash' = EvictedToFlash(c, e, fl)
              /\ IF GetEmptyWay(EvictCache(c, e), set) = {}
                 THEN fault' = TRUE /\ cacheData' = EvictCache(c, e)
                 ELSE /\ UNCHANGED fault
                      /\ \E l \in GetEmptyWay(EvictCache(c, e), set) :
                            cacheData' = Placed(EvictCache(c, e), l, lca, TRUE)
    BY <2>2
  <2>4. Chosen(e) \subseteq Slots /\ GetEmptyWay(EvictCache(c, e), set) # {}
    <3> HIDE DEF set
    <3> QED BY <1>2, <2>1, SelectionFrees
  <2>5. PICK l \in GetEmptyWay(EvictCache(c, e), set) :
           cacheData' = Placed(EvictCache(c, e), l, lca, TRUE)
    BY <2>3, <2>4
  <2>6. l \in Slots /\ l[1] = CalcSetIndex(lca) /\ ~EvictCache(c, e)[l].valid
    BY DEF GetEmptyWay
  <2>7. \A m \in Slots : ~(c[m].valid /\ c[m].tag = lca)
    BY <1>4, <2>1
  <2>8. UNCHANGED fault
    BY <2>3, <2>4
  <2>9. Placing(c, fl, l, lca, partial)
    BY <2>3, <2>4, <2>5, <2>6, <2>7 DEF Placing
  <2> QED
    BY <2>6, <2>8, <2>9
<1> QED
  BY <1>3, <1>5, <1>6

\* No write raises "Cache corrupted!", and each leaves the cache sound.
LEMMA WriteKeeps ==
  ASSUME CacheInv, NEW lca \in 0 .. LCAs - 1, NEW partial \in BOOLEAN,
         Write(lca, partial)
  PROVE  CacheInv'
<1>0. /\ conf \in Configurations /\ Sound(cacheData) /\ flash \in SUBSET Tags
      /\ UNCHANGED <<conf, prefetchTrigger, lastPrefetched, flushed>>
      /\ live' = live \cup {lca} /\ fault = FALSE
  BY DEF CacheInv, TypeOK, Sound, Write
<1>1. lca \in Nat /\ lca \in Tags
  BY <1>0, SlotType
<1>2. SUFFICES Sound(cacheData') /\ flash' \subseteq Tags /\ fault' = FALSE
  <2>1. live' \subseteq 0 .. LCAs - 1 /\ flushed' \in BOOLEAN
    BY <1>0 DEF CacheInv, TypeOK
  <2>2. /\ prefetchTrigger' \in Tags \cup {None} /\ lastPrefetched' \in Tags
        /\ prefetchTrigger' # None =>
             lastPrefetched' = prefetchTrigger' + (PrefetchSpan - PrefetchSpan \div 2)
    BY <1>0 DEF CacheInv, TypeOK, Ahead
  <2> QED
    BY <1>0, <1>2, <2>1, <2>2, CacheFrame
<1> DEFINE c == Supersede(cacheData, lca)
           fl == FlashAfterWrite(lca, partial)
<1>3. Sound(c) /\ fl \in SUBSET Tags
  BY <1>0, <1>1, SupersedeSound DEF FlashAfterWrite
<1>4. CASE ~conf.write
  BY <1>0, <1>1, <1>3, <1>4 DEF Write
<1>5. CASE conf.write /\ WriteCached(lca, partial)
  <2>1. /\ UNCHANGED fault
        /\ \E l \in Slots : l[1] = CalcSetIndex(lca) /\ Placing(c, fl, l, lca, partial)
    BY <1>0, <1>5, WriteShape
  <2> HIDE DEF c, fl
  <2>2. PICK l \in Slots : l[1] = CalcSetIndex(lca) /\ Placing(c, fl, l, lca, partial)
    BY <2>1
  <2>3. CASE /\ cacheData' = Placed(c, l, lca, DirtyOf(partial))
             /\ flash' = fl
             /\ \A m \in Slots : c[m].valid /\ c[m].tag = lca => m = l
    <3>1. DirtyOf(partial) \in BOOLEAN
      BY DEF DirtyOf
    <3>2. Sound(cacheData')
      BY <1>1, <1>3, <2>2, <2>3, <3>1, PlacedSound
    <3> QED
      BY <1>0, <1>3, <2>1, <2>3, <3>2
  <2>4. CASE \E e : /\ Chosen(e) \subseteq Slots
                    /\ cacheData' = Placed(EvictCache(c, e), l, lca, TRUE)
                    /\ flash' = EvictedToFlash(c, e, fl)
                    /\ \A m \in Slots : ~(c[m].valid /\ c[m].tag = lca)
    <3>1. PICK e : /\ Chosen(e) \subseteq Slots
                   /\ cacheData' = Placed(EvictCache(c, e), l, lca, TRUE)
                   /\ flash' = EvictedToFlash(c, e, fl)
                   /\ \A m \in Slots : ~(c[m].valid /\ c[m].tag = lca)
      BY <2>4
    <3> DEFINE c2 == EvictCache(c, e)
    <3>2. Sound(c2) /\ \A m \in Slots : c2[m].valid => c2[m] = c[m]
      BY <1>0, <1>3, EvictSound
    <3> HIDE DEF c2
    <3>3. \A m \in Slots : c2[m].valid /\ c2[m].tag = lca => m = l
      BY <3>1, <3>2
    <3>4. Sound(cacheData')
      BY <1>1, <2>2, <3>1, <3>2, <3>3, PlacedSound DEF c2
    <3>5. flash' \subseteq Tags
      BY <1>3, <3>1, FlashType DEF Sound
    <3> QED
      BY <1>0, <2>1, <3>4, <3>5
  <2> QED
    BY <2>2, <2>3, <2>4 DEF Placing
<1> QED
  BY <1>4, <1>5 DEF Write

-----------------------------------------------------------------------------
(* Flushes *)

\* One line per page and per set: the geometry in which a flush loses nothing.
Direct == conf.ways = 1 /\ conf.k = 1

\* A dirty line holds the last version of what it carries.
DirtyIsNew ==
    \A l \in Slots : cacheData[l].dirty /\ cacheData[l].tag \in live =>
        cacheData[l].new

\* The loop of flush goes over slots, and over all of them if there is one way.
LEMMA SlotOrderType ==
  ASSUME conf \in Configurations
  PROVE  /\ conf.sets * conf.ways \in Nat
         /\ SlotOrder \in [1 .. conf.sets * conf.ways -> Slots]
         /\ Direct => \A l \in Slots : \E i \in 1 .. conf.sets * conf.ways :
                         SlotOrder[i] = l
<1>0. conf.ways \in Nat \ {0} /\ conf.sets \in Nat \ {0}
  BY ConfType
<1> DEFINE N == conf.sets * conf.ways
<1>1. N \in Nat
  BY <1>0
<1>2. ASSUME NEW i \in 1 .. N
      PROVE  <<(i - 1) \div conf.ways, (i - 1) % conf.ways>> \in Slots
  <2>1. i - 1 \in Nat /\ i - 1 < conf.sets * conf.ways
    BY <1>1
  <2>2. (i - 1) \div conf.ways \in 0 .. conf.sets - 1
    BY <1>0, <2>1, QuotientBelow
  <2>3. (i - 1) % conf.ways \in 0 .. conf.ways - 1
    BY <1>0, <2>1
  <2> QED
    BY <2>2, <2>3 DEF Slots, Sets, Ways
<1>3. SlotOrder = [i \in 1 .. N |-> <<(i - 1) \div conf.ways, (i - 1) % conf.ways>>]
  BY DEF SlotOrder
<1>4. ASSUME Direct, NEW l \in Slots
      PROVE  \E i \in 1 .. N : SlotOrder[i] = l
  <2>1. l = <<l[1], l[2]>> /\ l[1] \in 0 .. conf.sets - 1 /\ l[2] = 0
    BY <1>0, <1>4 DEF Direct, Slots, Sets, Ways
  <2>2. N = conf.sets
    BY <1>0, <1>4 DEF Direct
  <2> HIDE DEF N
  <2>3. l[1] + 1 \in 1 .. N /\ (l[1] + 1) - 1 = l[1]
    BY <1>0, <2>1, <2>2
  <2>4. l[1] \div 1 = l[1] /\ l[1] % 1 = 0
    BY <1>0, <2>1
  <2> QED
    BY <1>3, <1>4, <2>1, <2>3, <2>4 DEF Direct
<1> QED
  BY <1>1, <1>2, <1>3, <1>4

\* The whole loop, as a function of its range.
FlushLoop(a, n) ==
    FoldLeft(LAMBDA s, l : IF l \in ToFlush(a, n) THEN FlushLine(s, l) ELSE s,
             [bits |-> {}, fl |-> flash], SlotOrder)

\* flush writes tags.  With one line per page and per set it keeps what was in
\* flash and adds the current lines it writes.
LEMMA FlushWrites ==
  ASSUME conf \in Configurations, cacheData \in [Slots -> Lines],
         flash \in SUBSET Tags, NEW a, NEW n
  PROVE  /\ FlushLoop(a, n).fl \subseteq Tags
         /\ Direct /\ DirtyIsNew => \A t \in live :
               t \in flash \/ (\E l \in ToFlush(a, n) : cacheData[l].tag = t)
                  => t \in FlushLoop(a, n).fl
<1> DEFINE N == conf.sets * conf.ways
           base == [bits |-> {}, fl |-> flash]
           op(s, l) == IF l \in ToFlush(a, n) THEN FlushLine(s, l) ELSE s
           X == [bits : SUBSET Nat, fl : SUBSET Tags]
           G == [z \in X \X (1 .. N) |-> op(z[1], SlotOrder[z[2]])]
           lost(s, l) == {conf.k * (cacheData[l].tag \div conf.k) + b :
                             b \in s.bits \cup {cacheData[l].tag % conf.k}}
           body(f) == [s \in SUBSET (1 .. N) |->
                          IF s = {} THEN base
                          ELSE op(f[s \ {Max(s)}], SlotOrder[Max(s)])]
           F == CHOOSE f : f = body(f)
           Kept0(s, k) ==
               Direct /\ DirtyIsNew =>
                   /\ s.bits \subseteq {0}
                   /\ \A t \in live :
                         \/ t \in flash
                         \/ \E j \in 1 .. k : /\ SlotOrder[j] \in ToFlush(a, n)
                                              /\ cacheData[SlotOrder[j]].tag = t
                         => t \in s.fl
           P == [k \in 0 .. N |-> {s \in X : Kept0(s, k)}]
<1>0. /\ N \in Nat /\ SlotOrder \in [1 .. N -> Slots] /\ DOMAIN SlotOrder = 1 .. N
      /\ conf.k \in Nat \ {0} /\ Tags \subseteq Nat
  BY SlotOrderType, ConfType, SlotType
<1>1. FlushLoop(a, n) = F[1 .. N]
  BY <1>0 DEF FlushLoop, FoldLeft, MapThenFoldSet
<1>2. base \in X /\ base.bits = {} /\ base.fl = flash
  OBVIOUS
<1>3. ASSUME NEW s \in X, NEW l \in Slots
      PROVE  /\ FlushLine(s, l) \in X
             /\ FlushLine(s, l).bits = s.bits \cup {cacheData[l].tag % conf.k}
             /\ FlushLine(s, l).fl = WriteBack(cacheData, {l}, s.fl \ lost(s, l))
  <2>1. cacheData[l].tag \in Tags /\ cacheData[l].tag \in Nat
    BY <1>0 DEF Lines
  <2>2. cacheData[l].tag % conf.k \in Nat
    BY <1>0, <2>1
  <2>3. \A fl \in SUBSET Tags : WriteBack(cacheData, {l}, fl) \subseteq Tags
    BY <2>1 DEF WriteBack
  <2> QED
    BY <2>2, <2>3 DEF FlushLine
<1>4. ASSUME NEW s \in X, NEW l \in Slots PROVE op(s, l) \in X
  BY <1>3
<1> HIDE DEF N, base, op, X, lost
<1>5. G \in [X \X (1 .. N) -> X]
  BY <1>0, <1>4
<1>6. PICK f \in [SUBSET (1 .. N) -> X] : Folded(f, G, base, N)
  BY <1>0, <1>2, <1>5, FoldExists
<1>7. f = body(f)
  <2> SUFFICES ASSUME NEW s \in SUBSET (1 .. N)
               PROVE  f[s] = IF s = {} THEN base
                             ELSE op(f[s \ {Max(s)}], SlotOrder[Max(s)])
    OBVIOUS
  <2>1. f[s] = IF s = {} THEN base ELSE G[<<f[s \ {Max(s)}], Max(s)>>]
    BY <1>6 DEF Folded
  <2>2. CASE s # {}
    <3>1. Max(s) \in 1 .. N /\ f[s \ {Max(s)}] \in X
      BY <1>0, <2>2, MaxOfIndices
    <3> QED
      BY <2>1, <2>2, <3>1
  <2> QED
    BY <2>1, <2>2
<1>8. F = body(F)
  BY <1>7
<1> HIDE DEF F
<1>9. F[{}] = base
  BY <1>8
<1>10. ASSUME NEW k \in 1 .. N, F[1 .. k - 1] \in X
       PROVE  F[1 .. k] = G[<<F[1 .. k - 1], k>>]
  <2>1. /\ Max(1 .. k) = k /\ (1 .. k) \ {k} = 1 .. k - 1 /\ 1 .. k # {}
        /\ 1 .. k \in SUBSET (1 .. N)
    <3>1. k \in Nat \ {0} /\ 1 .. k \in SUBSET (1 .. N)
      BY <1>0
    <3> QED
      BY <3>1, LastIndex
  <2>2. F[1 .. k] = op(F[1 .. k - 1], SlotOrder[k])
    BY <1>8, <2>1
  <2> QED
    BY <1>10, <2>2
<1>11. base \in P[0]
  <2>1. 1 .. 0 = {} /\ 0 \in 0 .. N
    BY <1>0
  <2>2. Kept0(base, 0)
    BY <1>2, <2>1
  <2> QED
    BY <1>2, <2>1, <2>2
<1>12. ASSUME NEW k \in 1 .. N, NEW y \in P[k - 1] PROVE G[<<y, k>>] \in P[k]
  <2> DEFINE l == SlotOrder[k]
             z == op(y, l)
  <2>1. /\ y \in X /\ Kept0(y, k - 1) /\ l \in Slots /\ k - 1 \in 0 .. N
        /\ k \in 0 .. N
    BY <1>0, <1>12
  <2>2. G[<<y, k>>] = z /\ z \in X
    BY <1>4, <2>1
  <2>3. ASSUME Direct, DirtyIsNew PROVE Kept0(z, k)
    <3>1. /\ y.bits \subseteq {0}
          /\ \A t \in live :
                \/ t \in flash
                \/ \E j \in 1 .. k - 1 : /\ SlotOrder[j] \in ToFlush(a, n)
                                         /\ cacheData[SlotOrder[j]].tag = t
                => t \in y.fl
      BY <2>1, <2>3
    <3>2. \A j \in 1 .. k : j \in 1 .. k - 1 \/ j = k
      BY <1>0
    <3>3. CASE l \notin ToFlush(a, n)
      <4>1. z = y
        BY <3>3 DEF op
      <4> QED
        BY <3>1, <3>2, <3>3, <4>1
    <3>4. CASE l \in ToFlush(a, n)
      <4> DEFINE tag == cacheData[l].tag
      <4>1. z = FlushLine(y, l) /\ tag \in Nat
        BY <1>0, <2>1, <3>4 DEF op, Lines
      <4>2. tag % conf.k = 0 /\ conf.k * (tag \div conf.k) = tag
        BY <2>3, <4>1 DEF Direct
      <4>3. y.bits \cup {tag % conf.k} = {0}
        BY <3>1, <4>2
      <4>4. /\ z.bits = {0}
            /\ z.fl = WriteBack(cacheData, {l}, y.fl \ {tag})
        <5>1. lost(y, l) = {tag}
          <6>1. \A b \in y.bits \cup {tag % conf.k} : b = 0
            BY <4>3
          <6>2. 0 \in y.bits \cup {tag % conf.k}
            BY <4>3
          <6>3. conf.k * (tag \div conf.k) + 0 = tag
            BY <4>1, <4>2
          <6>4. \A x : x \in lost(y, l) <=> x = tag
            BY <6>1, <6>2, <6>3 DEF lost
          <6> QED
            BY <6>4
        <5>2. /\ z.bits = y.bits \cup {tag % conf.k}
              /\ z.fl = WriteBack(cacheData, {l}, y.fl \ lost(y, l))
          <6> HIDE DEF P, Kept0, l
          <6>1. /\ FlushLine(y, l).bits = y.bits \cup {cacheData[l].tag % conf.k}
                /\ FlushLine(y, l).fl = WriteBack(cacheData, {l}, y.fl \ lost(y, l))
            BY <1>3, <2>1
          <6> QED
            BY <4>1, <6>1
        <5> HIDE DEF tag
        <5> QED
          BY <4>3, <5>1, <5>2
      <4>5. tag \in live => z.fl = (y.fl \ {tag}) \cup {tag}
        <5>1. tag \in live => cacheData[l].new
          BY <2>1, <2>3, <3>4 DEF DirtyIsNew, ToFlush
        <5> QED
          BY <4>4, <5>1 DEF WriteBack
      <4>6. \A t : t # tag => (t \in z.fl <=> t \in y.fl)
        BY <4>4 DEF WriteBack
      <4> HIDE DEF tag
      <4>7. \A t \in live : t \in y.fl \/ t = tag => t \in z.fl
        BY <4>5, <4>6
      <4> QED
        BY <3>1, <3>2, <4>4, <4>7 DEF tag
    <3> QED
      BY <3>3, <3>4
  <2>4. Kept0(z, k)
    <3>1. CASE Direct /\ DirtyIsNew
      BY <2>3, <3>1
    <3>2. CASE ~(Direct /\ DirtyIsNew)
      BY <3>2
    <3> QED
      BY <3>1, <3>2
  <2> HIDE DEF z
  <2> QED
    BY <2>1, <2>2, <2>4
<1>13. P \in [0 .. N -> SUBSET X]
  OBVIOUS
<1> HIDE DEF G
<1>14. F[1 .. N] \in P[N]
  <2>1. Steps(F, G, X, N)
    BY <1>10 DEF Steps
  <2> HIDE DEF P
  <2>2. Leads(G, P, N)
    BY <1>12 DEF Leads
  <2> QED
    BY <1>0, <1>9, <1>11, <1>13, <2>1, <2>2, FoldReaches
<1>15. F[1 .. N] \in X /\ Kept0(F[1 .. N], N)
  BY <1>0, <1>14
<1>16. F[1 .. N].fl \subseteq Tags
  BY <1>15 DEF X
<1>17. ASSUME Direct, DirtyIsNew, NEW t \in live,
              t \in flash \/ (\E l \in ToFlush(a, n) : cacheData[l].tag = t)
       PROVE  t \in F[1 .. N].fl
  <2>1. CASE t \in flash
    BY <1>15, <1>17, <2>1
  <2>2. CASE \E l \in ToFlush(a, n) : cacheData[l].tag = t
    <3>1. PICK l \in ToFlush(a, n) : cacheData[l].tag = t
      BY <2>2
    <3>2. PICK i \in 1 .. N : SlotOrder[i] = l
      BY <1>17, SlotOrderType DEF ToFlush, N
    <3> QED
      BY <1>15, <1>17, <3>1, <3>2
  <2> QED
    BY <1>17, <2>1, <2>2
<1> QED
  BY <1>1, <1>16, <1>17

\* Lines a flush or a trim drops lose their valid flag and nothing else.
LEMMA InvalidatedSound ==
  ASSUME Sound(cacheData), NEW a, NEW n
  PROVE  /\ Sound(Invalidated(a, n))
         /\ \A l \in Slots :
              /\ Invalidated(a, n)[l].tag = cacheData[l].tag
              /\ Invalidated(a, n)[l].dirty = cacheData[l].dirty
              /\ Invalidated(a, n)[l].new = cacheData[l].new
              /\ Invalidated(a, n)[l].valid =>
                    cacheData[l].valid /\ ~InRange(cacheData[l].tag, a, n)
              /\ ~InRange(cacheData[l].tag, a, n) =>
                    Invalidated(a, n)[l] = cacheData[l]
<1> DEFINE d == Invalidated(a, n)
<1>1. \A l \in Slots : /\ cacheData[l] \in Lines
                       /\ [cacheData[l] EXCEPT !.valid = FALSE] \in Lines
  BY DEF Sound, Lines
<1>2. d \in [Slots -> Lines]
  BY <1>1 DEF Invalidated
<1>3. \A l \in Slots :
         /\ d[l].tag = cacheData[l].tag /\ d[l].dirty = cacheData[l].dirty
         /\ d[l].new = cacheData[l].new
         /\ d[l].valid => cacheData[l].valid /\ ~InRange(cacheData[l].tag, a, n)
         /\ ~InRange(cacheData[l].tag, a, n) => d[l] = cacheData[l]
  BY <1>1 DEF Invalidated, Lines
<1> HIDE DEF d
<1>4. Sound(d)
  BY <1>2, <1>3, FewerValid
<1> QED
  BY <1>3, <1>4 DEF d

\* A flush leaves the cache sound.
LEMMA FlushKeeps ==
  ASSUME CacheInv, NEW a, NEW n, Flush(a, n)
  PROVE  CacheInv'
<1>0. /\ conf \in Configurations /\ Sound(cacheData) /\ flash \in SUBSET Tags
      /\ UNCHANGED <<conf, prefetchTrigger, lastPrefetched, live, fault>>
      /\ flushed' = TRUE /\ fault = FALSE
      /\ cacheData' = Invalidated(a, n) /\ flash' = FlushLoop(a, n).fl
  BY DEF CacheInv, TypeOK, Sound, Flush, FlushLoop
<1>1. Sound(cacheData')
  BY <1>0, InvalidatedSound
<1>2. flash' \subseteq Tags
  BY <1>0, FlushWrites DEF Sound
<1>3. live' \subseteq 0 .. LCAs - 1 /\ flushed' \in BOOLEAN
  BY <1>0 DEF CacheInv, TypeOK
<1>4. /\ prefetchTrigger' \in Tags \cup {None} /\ lastPrefetched' \in Tags
      /\ prefetchTrigger' # None =>
           lastPrefetched' = prefetchTrigger' + (PrefetchSpan - PrefetchSpan \div 2)
  BY <1>0 DEF CacheInv, TypeOK, Ahead
<1> QED
  BY <1>0, <1>1, <1>2, <1>3, <1>4, CacheFrame

\* Discarded lines are forgotten by the history, not by the lookup.
LEMMA DiscardKeeps ==
  ASSUME CacheInv, NEW c, Sound(c), NEW gone, Discard(c, gone),
         UNCHANGED <<conf, prefetchTrigger, lastPrefetched, flushed, fault>>
  PROVE  /\ CacheInv'
         /\ \A l \in Slots :
              /\ cacheData'[l].tag = c[l].tag /\ cacheData'[l].dirty = c[l].dirty
              /\ cacheData'[l].valid = c[l].valid
              /\ c[l].tag \notin gone => cacheData'[l] = c[l]
<1>0. conf \in Configurations /\ flash \subseteq Tags /\ fault = FALSE
  BY DEF CacheInv, TypeOK
<1>1. \A l \in Slots : c[l] \in Lines /\ [c[l] EXCEPT !.new = FALSE] \in Lines
  BY DEF Sound, Lines
<1>2. cacheData' \in [Slots -> Lines]
  BY <1>1 DEF Discard
<1>3. \A l \in Slots :
         /\ cacheData'[l].tag = c[l].tag /\ cacheData'[l].dirty = c[l].dirty
         /\ cacheData'[l].valid = c[l].valid
         /\ c[l].tag \notin gone => cacheData'[l] = c[l]
  BY <1>1 DEF Discard, Lines
<1>4. Sound(cacheData')
  BY <1>2, <1>3, FewerValid
<1>5. flash' \subseteq Tags /\ live' \subseteq 0 .. LCAs - 1 /\ flushed' \in BOOLEAN
  BY <1>0 DEF Discard, CacheInv, TypeOK
<1>6. /\ prefetchTrigger' \in Tags \cup {None} /\ lastPrefetched' \in Tags
      /\ prefetchTrigger' # None =>
           lastPrefetched' = prefetchTrigger' + (PrefetchSpan - PrefetchSpan \div 2)
  BY DEF CacheInv, TypeOK, Ahead
<1>7. CacheInv'
  BY <1>0, <1>4, <1>5, <1>6, CacheFrame
<1> QED
  BY <1>3, <1>7

\* The cache format leaves before the history forgets the lines.
Formatted(a, n) ==
    [l \in Slots |-> IF Enabled /\ cacheData[l].valid /\
                        InRange(cacheData[l].tag, a, n)
                     THEN [cacheData[l] EXCEPT !.valid = FALSE]
                     ELSE cacheData[l]]

\* A format drops the valid lines of its range.
LEMMA FormattedSound ==
  ASSUME Sound(cacheData), NEW a, NEW n
  PROVE  /\ Sound(Formatted(a, n))
         /\ \A l \in Slots :
              /\ Formatted(a, n)[l].tag = cacheData[l].tag
              /\ Formatted(a, n)[l].dirty = cacheData[l].dirty
              /\ Formatted(a, n)[l].new = cacheData[l].new
              /\ Formatted(a, n)[l].valid => cacheData[l].valid
              /\ ~InRange(cacheData[l].tag, a, n) =>
                    Formatted(a, n)[l] = cacheData[l]
<1> DEFINE d == Formatted(a, n)
<1>1. \A l \in Slots : /\ cacheData[l] \in Lines
                       /\ [cacheData[l] EXCEPT !.valid = FALSE] \in Lines
  BY DEF Sound, Lines
<1>2. d \in [Slots -> Lines]
  BY <1>1 DEF Formatted
<1>3. \A l \in Slots :
         /\ d[l].tag = cacheData[l].tag /\ d[l].dirty = cacheData[l].dirty
         /\ d[l].new = cacheData[l].new
         /\ d[l].valid => cacheData[l].valid
         /\ ~InRange(cacheData[l].tag, a, n) => d[l] = cacheData[l]
  BY <1>1 DEF Formatted, Lines
<1> HIDE DEF d
<1>4. Sound(d)
  BY <1>2, <1>3, FewerValid
<1> QED
  BY <1>3, <1>4 DEF d

\* What trim and format discard.
TrimGone(a, n) ==
    UNION {LinesOf(t \div conf.k) :
             t \in {cacheData[l].tag : l \in {x \in Slots :
                       InRange(cacheData[x].tag, a, n)}}}

FormatGone(a, n) ==
    (a .. a + n - 1) \cup
    UNION {LinesOf(p) : p \in a \div conf.k .. a \div conf.k + ((n - 1) \div conf.k + 1) - 1}

\* Trims and formats leave the cache sound.
LEMMA DropsKeep ==
  ASSUME CacheInv, NEW a, NEW n, Trim(a, n) \/ Format(a, n)
  PROVE  CacheInv'
<1>0. Sound(cacheData)
  BY DEF CacheInv, TypeOK, Sound
<1>1. CASE Trim(a, n)
  <2>1. /\ Discard(Invalidated(a, n), TrimGone(a, n))
        /\ UNCHANGED <<conf, prefetchTrigger, lastPrefetched, flushed, fault>>
    BY <1>1 DEF Trim, TrimGone
  <2>2. Sound(Invalidated(a, n))
    BY <1>0, InvalidatedSound
  <2> QED
    BY <2>1, <2>2, DiscardKeeps
<1>2. CASE Format(a, n)
  <2>1. /\ Discard(Formatted(a, n), FormatGone(a, n))
        /\ UNCHANGED <<conf, prefetchTrigger, lastPrefetched, flushed, fault>>
    BY <1>2 DEF Format, Formatted, FormatGone
  <2>2. Sound(Formatted(a, n))
    BY <1>0, FormattedSound
  <2> QED
    BY <2>1, <2>2, DiscardKeeps
<1> QED
  BY <1>1, <1>2

-----------------------------------------------------------------------------
(* Reads *)

\* The state of the loop that reserves lines.
Reserving == [c : [Slots -> Lines], evict : [IOPositions -> Slots \cup {NoSlot}],
              list : Seq([lca : Tags, line : Slots])]

\* One iteration finds the line cached, or takes one slot of its set.
LEMMA ReserveStep ==
  ASSUME conf \in Configurations, NEW s \in Reserving, NEW lca \in Tags,
         NEW pick \in Ways
  PROVE  LET t == Reserve(s, lca, pick) IN
         /\ t \in Reserving
         /\ \/ t = s
            \/ /\ GetValidWay(s.c, lca) = {}
               /\ \E l \in Slots :
                    /\ l[1] = CalcSetIndex(lca)
                    /\ t.list = Append(s.list, [lca |-> lca, line |-> l])
                    /\ \A m \in Slots : m # l => t.c[m] = s.c[m]
                    /\ \A p \in IOPositions : t.evict[p] \in {s.evict[p], l}
<1> DEFINE set   == CalcSetIndex(lca)
           empty == GetEmptyWay(s.c, set)
           l     == IF empty = {} \/ <<set, pick>> \in empty THEN <<set, pick>>
                    ELSE CHOOSE x \in empty : TRUE
           nc    == [s.c EXCEPT ![l].valid = TRUE, ![l].dirty = FALSE]
           pos   == CalcIOPosition(s.c[l].tag)
           ne    == IF empty = {} /\ s.c[l].dirty THEN [s.evict EXCEPT ![pos] = l]
                                                  ELSE s.evict
           nl    == Append(s.list, [lca |-> lca, line |-> l])
           t     == Reserve(s, lca, pick)
<1>0. /\ s.c \in [Slots -> Lines] /\ s.evict \in [IOPositions -> Slots \cup {NoSlot}]
      /\ s.list \in Seq([lca : Tags, line : Slots])
  BY DEF Reserving
<1>1. Tags \subseteq Nat /\ lca \in Nat
  BY SlotType
<1>2. t = IF GetValidWay(s.c, lca) # {} THEN s
          ELSE [c |-> nc, evict |-> ne, list |-> nl]
  BY DEF Reserve
<1>3. l \in Slots /\ l[1] = set
  <2>1. set \in Sets
    BY <1>1, AddressType
  <2>2. <<set, pick>> \in Slots /\ <<set, pick>>[1] = set
    BY <2>1, SlotType
  <2>3. \A x \in empty : x \in Slots /\ x[1] = set
    BY DEF GetEmptyWay
  <2> HIDE DEF empty, set
  <2> QED
    BY <2>2, <2>3
<1> HIDE DEF l, empty, set
<1>4. /\ nc \in [Slots -> Lines] /\ \A m \in Slots : m # l => nc[m] = s.c[m]
  <2>1. [s.c[l] EXCEPT !.valid = TRUE, !.dirty = FALSE] \in Lines
    BY <1>0, <1>3 DEF Lines
  <2> DEFINE q == [s.c[l] EXCEPT !.valid = TRUE, !.dirty = FALSE]
  <2>2. nc = [s.c EXCEPT ![l] = q]
    BY <1>0, <1>3 DEF Lines
  <2> HIDE DEF q, nc
  <2> QED
    BY <1>0, <1>3, <2>1, <2>2 DEF q
<1>5. /\ ne \in [IOPositions -> Slots \cup {NoSlot}]
      /\ \A p \in IOPositions : ne[p] \in {s.evict[p], l}
  <2>1. s.c[l].tag \in Nat
    BY <1>0, <1>1, <1>3 DEF Lines
  <2>2. pos \in IOPositions
    BY <2>1, AddressType
  <2> HIDE DEF pos
  <2> QED
    BY <1>0, <1>3, <2>2
<1>6. nl \in Seq([lca : Tags, line : Slots])
  BY <1>0, <1>3
<1> HIDE DEF nc, ne, nl
<1>7. CASE GetValidWay(s.c, lca) # {}
  BY <1>2, <1>7
<1>8. CASE GetValidWay(s.c, lca) = {}
  <2>1. t = [c |-> nc, evict |-> ne, list |-> nl]
    BY <1>2, <1>8
  <2> HIDE DEF t
  <2>2. t \in Reserving /\ t.c = nc /\ t.evict = ne /\ t.list = nl
    BY <1>4, <1>5, <1>6, <2>1 DEF Reserving
  <2> QED
    BY <1>3, <1>4, <1>5, <1>8, <2>2 DEF nl, set, t
<1> QED
  BY <1>7, <1>8

\* The slots a list of reservations names.
Taken(list) == {list[i].line : i \in 1 .. Len(list)}

\* What holds of the loop after it has seen the addresses from begin up to
\* end - 1: the addresses it reserved lines for are distinct and in the set
\* of their line, other slots are as they were and are not evicted, and a slot
\* that had one of the addresses is itself reserved.
Reserved(s, begin, end) ==
    /\ \A i \in 1 .. Len(s.list) :
          /\ s.list[i].lca >= begin /\ s.list[i].lca < end
          /\ s.list[i].line[1] = CalcSetIndex(s.list[i].lca)
          /\ \A l \in Slots : cacheData[l].valid /\ cacheData[l].tag = s.list[i].lca
                => l \in Taken(s.list)
          /\ \A j \in 1 .. Len(s.list) : s.list[i].lca = s.list[j].lca => i = j
    /\ \A l \in Slots : l \notin Taken(s.list) => s.c[l] = cacheData[l]
    /\ Chosen(s.evict) \subseteq Taken(s.list)

\* One iteration keeps it so.
LEMMA ReservedStep ==
  ASSUME conf \in Configurations, Sound(cacheData), NEW s \in Reserving,
         NEW begin \in Nat, NEW lca \in Tags, NEW pick \in Ways,
         begin <= lca, Reserved(s, begin, lca)
  PROVE  Reserved(Reserve(s, lca, pick), begin, lca + 1)
<1> DEFINE t == Reserve(s, lca, pick)
           L == Len(s.list)
<1>0. Tags \subseteq Nat /\ s.list \in Seq([lca : Tags, line : Slots]) /\ L \in Nat
  BY SlotType DEF Reserving
<1>1. \A i \in 1 .. L : s.list[i].lca \in Nat /\ s.list[i].line \in Slots
  <2> SUFFICES ASSUME NEW i \in 1 .. L
               PROVE  s.list[i].lca \in Nat /\ s.list[i].line \in Slots
    OBVIOUS
  <2>1. s.list[i] \in [lca : Tags, line : Slots]
    <3> DEFINE R == [lca : Tags, line : Slots]
               w == s.list
    <3>1. w \in Seq(R) /\ i \in 1 .. Len(w)
      BY <1>0
    <3> HIDE DEF R, w
    <3>2. w[i] \in R
      BY <3>1
    <3> QED
      BY <3>2 DEF R, w
  <2> QED
    BY <1>0, <2>1
<1>a. lca \in Nat
  BY <1>0
<1>2. CASE t = s
  BY <1>0, <1>1, <1>2 DEF Reserved
<1>3. CASE t # s
  <2>1. PICK l \in Slots :
           /\ l[1] = CalcSetIndex(lca)
           /\ t.list = Append(s.list, [lca |-> lca, line |-> l])
           /\ \A m \in Slots : m # l => t.c[m] = s.c[m]
           /\ \A p \in IOPositions : t.evict[p] \in {s.evict[p], l}
    BY <1>3, ReserveStep
  <2>2. GetValidWay(s.c, lca) = {}
    BY <1>3, ReserveStep
  <2> HIDE DEF t
  <2>3. /\ Len(t.list) = L + 1 /\ t.list[L + 1] = [lca |-> lca, line |-> l]
        /\ \A i \in 1 .. L : t.list[i] = s.list[i]
    BY <1>0, <2>1
  <2>4. \A i \in 1 .. L + 1 : i \in 1 .. L \/ i = L + 1
    BY <1>0
  <2>5. \A m : m \in Taken(t.list) <=> m \in Taken(s.list) \/ m = l
    <3>1. L + 1 \in 1 .. L + 1 /\ \A i \in 1 .. L : i \in 1 .. L + 1
      BY <1>0
    <3> QED
      BY <2>3, <2>4, <3>1, SMTT(20) DEF Taken
  <2>6. \A m \in Slots : cacheData[m].valid /\ cacheData[m].tag = lca
                            => m \in Taken(s.list)
    <3> SUFFICES ASSUME NEW m \in Slots, cacheData[m].valid, cacheData[m].tag = lca,
                        m \notin Taken(s.list)
                 PROVE  FALSE
      OBVIOUS
    <3>1. s.c[m] = cacheData[m]
      BY DEF Reserved
    <3>2. m[1] = CalcSetIndex(lca)
      BY DEF Sound, Located
    <3> QED
      BY <2>2, <3>1, <3>2 DEF GetValidWay
  <2>7. ASSUME NEW i \in 1 .. Len(t.list)
        PROVE  /\ t.list[i].lca >= begin /\ t.list[i].lca < lca + 1
               /\ t.list[i].line[1] = CalcSetIndex(t.list[i].lca)
               /\ \A m \in Slots : cacheData[m].valid /\ cacheData[m].tag = t.list[i].lca
                    => m \in Taken(t.list)
               /\ \A j \in 1 .. Len(t.list) : t.list[i].lca = t.list[j].lca => i = j
    <3>1. \A j \in 1 .. L : s.list[j].lca < lca /\ s.list[j].lca >= begin
      BY DEF Reserved
    <3>2. CASE i \in 1 .. L
      <4>1. t.list[i].lca >= begin /\ t.list[i].lca < lca + 1
        BY <1>1, <1>a, <2>3, <3>1, <3>2, SMTT(20)
      <4>2. \A j \in 1 .. Len(t.list) : t.list[i].lca = t.list[j].lca => i = j
        <5> SUFFICES ASSUME NEW j \in 1 .. Len(t.list), t.list[i].lca = t.list[j].lca
                     PROVE  i = j
          OBVIOUS
        <5>1. CASE j \in 1 .. L
          BY <2>3, <3>2, <5>1 DEF Reserved
        <5>2. CASE j = L + 1
          <6>1. s.list[i].lca = lca
            BY <2>3, <3>2, <5>2
          <6> QED
            BY <1>a, <3>1, <3>2, <6>1
        <5> QED
          BY <2>3, <2>4, <5>1, <5>2
      <4>3. t.list[i].line[1] = CalcSetIndex(t.list[i].lca)
        BY <2>3, <3>2 DEF Reserved
      <4>4. \A m \in Slots : cacheData[m].valid /\ cacheData[m].tag = t.list[i].lca
              => m \in Taken(t.list)
        BY <2>3, <2>5, <3>2 DEF Reserved
      <4> QED
        BY <4>1, <4>2, <4>3, <4>4
    <3>3. CASE i = L + 1
      <4>1. t.list[i].lca = lca /\ t.list[i].line = l
        BY <2>3, <3>3
      <4>2. \A j \in 1 .. Len(t.list) : t.list[i].lca = t.list[j].lca => i = j
        <5> SUFFICES ASSUME NEW j \in 1 .. L, lca = t.list[j].lca PROVE FALSE
          BY <2>3, <2>4, <3>3, <4>1
        <5> QED
          <6>1. s.list[j].lca = lca
            BY <2>3
          <6> QED
            BY <1>a, <3>1, <6>1
      <4> QED
        BY <1>0, <2>1, <2>5, <2>6, <4>1, <4>2, SMTT(20)
    <3> QED
      BY <2>3, <2>4, <3>2, <3>3
  <2>8. \A m \in Slots : m \notin Taken(t.list) => t.c[m] = cacheData[m]
    BY <2>1, <2>5 DEF Reserved
  <2>9. Chosen(t.evict) \subseteq Taken(t.list)
    BY <2>1, <2>5 DEF Reserved, Chosen
  <2> QED
    BY <2>7, <2>8, <2>9 DEF Reserved, t
<1> QED
  BY <1>2, <1>3

\* The reserving loop over the n lines from begin on.
ReserveAll(begin, n, pick) ==
    FoldLeft(LAMBDA s1, i : Reserve(s1, begin + i - 1, pick[i]),
             [c |-> cacheData, evict |-> NoEviction, list |-> << >>],
             [i \in 1 .. n |-> i])

\* The whole loop.
LEMMA ReserveLoop ==
  ASSUME conf \in Configurations, Sound(cacheData), NEW begin \in Nat, NEW n \in Nat,
         NEW pick \in [1 .. n -> Ways], \A i \in 1 .. n : begin + i - 1 \in Tags
  PROVE  /\ ReserveAll(begin, n, pick) \in Reserving
         /\ Reserved(ReserveAll(begin, n, pick), begin, begin + n)
<1> DEFINE base == [c |-> cacheData, evict |-> NoEviction, list |-> << >>]
           X == Reserving
           op(s, i) == Reserve(s, begin + i - 1, pick[i])
           G == [z \in X \X (1 .. n) |-> op(z[1], z[2])]
           body(f) == [s \in SUBSET (1 .. n) |->
                          IF s = {} THEN base ELSE op(f[s \ {Max(s)}], Max(s))]
           F == CHOOSE f : f = body(f)
           P == [k \in 0 .. n |-> {s \in X : Reserved(s, begin, begin + k)}]
           idx == [i \in 1 .. n |-> i]
<1>1. ReserveAll(begin, n, pick) = F[1 .. n]
  <2>1. DOMAIN idx = 1 .. n
    OBVIOUS
  <2> DEFINE opx(s, i) == Reserve(s, begin + idx[i] - 1, pick[idx[i]])
             bodyx(f) == [s \in SUBSET (1 .. n) |->
                            IF s = {} THEN base ELSE opx(f[s \ {Max(s)}], Max(s))]
             Fx == CHOOSE f : f = bodyx(f)
  <2>2. ReserveAll(begin, n, pick) = Fx[1 .. n]
    BY <2>1 DEF ReserveAll, FoldLeft, MapThenFoldSet
  <2>3. ASSUME NEW f PROVE bodyx(f) = body(f)
    <3> SUFFICES ASSUME NEW s \in SUBSET (1 .. n), s # {}
                 PROVE  opx(f[s \ {Max(s)}], Max(s)) = op(f[s \ {Max(s)}], Max(s))
      OBVIOUS
    <3>1. Max(s) \in 1 .. n
      BY MaxOfIndices
    <3>2. idx[Max(s)] = Max(s)
      BY <3>1
    <3> HIDE DEF idx
    <3> QED
      BY <3>2
  <2> HIDE DEF body, bodyx
  <2>4. Fx = F
    BY <2>3
  <2> QED
    BY <2>2, <2>4
<1>2. base \in X /\ base \in P[0]
  <2>1. NoEviction \in [IOPositions -> Slots \cup {NoSlot}]
    BY DEF NoEviction
  <2>2. cacheData \in [Slots -> Lines]
    BY DEF Sound
  <2>3. base \in X
    BY <2>1, <2>2 DEF Reserving
  <2>4. /\ base.c = cacheData /\ Len(base.list) = 0 /\ base.evict = NoEviction
        /\ 1 .. 0 = {} /\ 0 \in 0 .. n
    OBVIOUS
  <2> HIDE DEF base
  <2>5. Chosen(base.evict) = {}
    BY <2>4 DEF Chosen, NoEviction
  <2>6. Reserved(base, begin, begin + 0)
    BY <2>4, <2>5 DEF Reserved
  <2> QED
    BY <2>3, <2>4, <2>6
<1>3. ASSUME NEW s \in X, NEW i \in 1 .. n PROVE op(s, i) \in X
  <2>1. begin + i - 1 \in Tags /\ pick[i] \in Ways
    OBVIOUS
  <2> QED
    BY <2>1, ReserveStep
<1>4. G \in [X \X (1 .. n) -> X]
  <2> HIDE DEF op
  <2> QED BY <1>3
<1>5. ASSUME NEW k \in 1 .. n, NEW y \in P[k - 1] PROVE G[<<y, k>>] \in P[k]
  <2>1. k - 1 \in 0 .. n /\ k \in 0 .. n
    OBVIOUS
  <2>2. y \in X /\ Reserved(y, begin, begin + (k - 1))
    BY <1>5, <2>1
  <2> HIDE DEF P
  <2> DEFINE lca == begin + k - 1
  <2>3. /\ lca \in Tags /\ pick[k] \in Ways /\ begin <= lca /\ lca = begin + (k - 1)
        /\ lca + 1 = begin + k
    OBVIOUS
  <2>4. G[<<y, k>>] = op(y, k)
    BY <2>2
  <2>5. op(y, k) = Reserve(y, lca, pick[k])
    OBVIOUS
  <2> HIDE DEF lca, G, op
  <2>6. Reserved(Reserve(y, lca, pick[k]), begin, lca + 1)
    BY <2>2, <2>3, ReservedStep
  <2> QED
    BY <1>3, <2>1, <2>2, <2>3, <2>4, <2>5, <2>6 DEF P
<1> HIDE DEF base, op, X
<1>6. PICK f \in [SUBSET (1 .. n) -> X] : Folded(f, G, base, n)
  <2> HIDE DEF G
  <2> QED BY <1>2, <1>4, FoldExists
<1>7. f = body(f)
  <2> SUFFICES ASSUME NEW s \in SUBSET (1 .. n)
               PROVE  f[s] = IF s = {} THEN base ELSE op(f[s \ {Max(s)}], Max(s))
    OBVIOUS
  <2>1. f[s] = IF s = {} THEN base ELSE G[<<f[s \ {Max(s)}], Max(s)>>]
    BY <1>6 DEF Folded
  <2>2. CASE s # {}
    <3>1. Max(s) \in 1 .. n /\ f[s \ {Max(s)}] \in X
      BY <2>2, MaxOfIndices
    <3> QED
      BY <2>1, <2>2, <3>1
  <2> QED
    BY <2>1, <2>2
<1>8. F = body(F)
  BY <1>7
<1> HIDE DEF F
<1>9. F[{}] \in P[0]
  BY <1>2, <1>8
<1>10. Steps(F, G, X, n)
  <2> SUFFICES ASSUME NEW k \in 1 .. n, F[1 .. k - 1] \in X
               PROVE  F[1 .. k] = G[<<F[1 .. k - 1], k>>]
    BY DEF Steps
  <2>1. /\ Max(1 .. k) = k /\ (1 .. k) \ {k} = 1 .. k - 1 /\ 1 .. k # {}
        /\ 1 .. k \in SUBSET (1 .. n)
    <3>1. k \in Nat \ {0} /\ 1 .. k \in SUBSET (1 .. n)
      OBVIOUS
    <3> QED
      BY <3>1, LastIndex
  <2>2. F[1 .. k] = op(F[1 .. k - 1], k)
    BY <1>8, <2>1
  <2> QED
    BY <2>2
<1>11. P \in [0 .. n -> SUBSET X]
  OBVIOUS
<1>12. F[1 .. n] \in P[n]
  <2> HIDE DEF G, P
  <2>1. Leads(G, P, n)
    BY <1>5 DEF Leads
  <2> QED
    BY <1>9, <1>10, <1>11, <2>1, FoldReaches
<1>13. F[1 .. n] \in X /\ Reserved(F[1 .. n], begin, begin + n)
  <2>1. n \in 0 .. n
    OBVIOUS
  <2> QED
    BY <1>12, <2>1
<1> QED
  BY <1>1, <1>13 DEF X

\* A line read from flash: its tag and content, nothing else.
LEMMA FetchStep ==
  ASSUME NEW c \in [Slots -> Lines], NEW r \in [lca : Tags, line : Slots]
  PROVE  /\ Fetch(c, r) \in [Slots -> Lines]
         /\ Fetch(c, r)[r.line].tag = r.lca
         /\ \A m \in Slots : m # r.line => Fetch(c, r)[m] = c[m]
<1> DEFINE l == r.line
           b == r.lca \in flash
           q == [c[l] EXCEPT !.tag = r.lca, !.new = b]
<1>1. l \in Slots /\ r.lca \in Tags /\ c[l] \in Lines
  OBVIOUS
<1>2. q \in Lines /\ q.tag = r.lca
  <2>1. b \in BOOLEAN
    OBVIOUS
  <2> HIDE DEF b
  <2> QED
    BY <1>1, <2>1 DEF Lines
<1>3. Fetch(c, r) = [c EXCEPT ![l] = q]
  BY <1>1 DEF Fetch, Lines
<1> HIDE DEF l, q
<1> QED
  BY <1>1, <1>2, <1>3 DEF l

\* What a read leaves is sound again: every reserved slot got the tag of a
\* reservation of its own, and no other slot has one of those tags.
LEMMA FetchLoop ==
  ASSUME conf \in Configurations, Sound(cacheData), NEW s \in Reserving,
         NEW begin, NEW end, Reserved(s, begin, end)
  PROVE  Sound(FoldLeft(Fetch, EvictCache(s.c, s.evict), s.list))
<1> DEFINE list == s.list
           n == Len(list)
           base == EvictCache(s.c, s.evict)
           X == [Slots -> Lines]
           R == [lca : Tags, line : Slots]
           G == [z \in X \X (1 .. n) |-> Fetch(z[1], list[z[2]])]
           body(f) == [t \in SUBSET (1 .. n) |->
                          IF t = {} THEN base
                          ELSE Fetch(f[t \ {Max(t)}], list[Max(t)])]
           F == CHOOSE f : f = body(f)
           Done(c, k) ==
               /\ \A l \in Slots : l \notin Taken(list) => c[l] = cacheData[l]
               /\ \A i \in 1 .. k : \E j \in 1 .. k :
                     list[j].line = list[i].line /\ c[list[i].line].tag = list[j].lca
           P == [k \in 0 .. n |-> {c \in X : Done(c, k)}]
<1>0. list \in Seq(R) /\ n \in Nat /\ DOMAIN list = 1 .. n
  BY DEF Reserving
<1>1. FoldLeft(Fetch, base, list) = F[1 .. n]
  BY <1>0 DEF FoldLeft, MapThenFoldSet
<1>2. \A i \in 1 .. n : list[i] \in R
  <2> HIDE DEF R, list
  <2> QED BY <1>0
<1>3. base \in X /\ \A l \in Slots : l \notin Taken(list) => base[l] = cacheData[l]
  <2>1. BlankLine \in Lines /\ s.c \in [Slots -> Lines]
    BY SlotType DEF Reserving
  <2>2. Chosen(s.evict) \subseteq Taken(list)
    BY DEF Reserved
  <2>3. \A l \in Slots : l \notin Taken(list) => s.c[l] = cacheData[l]
    BY DEF Reserved
  <2> QED
    BY <2>1, <2>2, <2>3 DEF EvictCache
<1> HIDE DEF list, n, base
<1>4. ASSUME NEW c \in X, NEW i \in 1 .. n PROVE Fetch(c, list[i]) \in X
  BY <1>2, FetchStep
<1>5. G \in [X \X (1 .. n) -> X]
  BY <1>4
<1>6. base \in P[0]
  <2>1. 1 .. 0 = {} /\ 0 \in 0 .. n
    BY <1>0
  <2> QED
    BY <1>3, <2>1
<1>7. ASSUME NEW k \in 1 .. n, NEW y \in P[k - 1] PROVE G[<<y, k>>] \in P[k]
  <2>1. k - 1 \in 0 .. n /\ k \in 0 .. n /\ k \in Nat
    BY <1>0
  <2>2. y \in X /\ Done(y, k - 1)
    BY <1>7, <2>1
  <2> HIDE DEF P
  <2> DEFINE r == list[k]
             z == Fetch(y, r)
  <2>3. G[<<y, k>>] = z /\ r \in R
    BY <1>2, <2>2
  <2> HIDE DEF G
  <2>4. /\ z \in X /\ z[r.line].tag = r.lca
        /\ \A m \in Slots : m # r.line => z[m] = y[m]
    BY <2>2, <2>3, FetchStep
  <2>5. r.line \in Taken(list)
    BY DEF Taken, n
  <2> HIDE DEF z
  <2>6. \A l \in Slots : l \notin Taken(list) => z[l] = cacheData[l]
    BY <2>2, <2>4, <2>5
  <2>7. ASSUME NEW i \in 1 .. k
        PROVE  \E j \in 1 .. k : /\ list[j].line = list[i].line
                                 /\ z[list[i].line].tag = list[j].lca
    <3>1. CASE list[i].line = r.line
      <4>1. k \in 1 .. k
        BY <2>1
      <4> QED
        BY <2>4, <3>1, <4>1
    <3>2. CASE list[i].line # r.line
      <4>1. i \in 1 .. k - 1 /\ list[i].line \in Slots
        <5>1. i # k /\ i \in 1 .. n
          BY <1>0, <2>1, <3>2
        <5> QED
          BY <1>2, <2>1, <5>1
      <4>2. PICK j \in 1 .. k - 1 : /\ list[j].line = list[i].line
                                    /\ y[list[i].line].tag = list[j].lca
        BY <2>2, <4>1
      <4>3. z[list[i].line] = y[list[i].line] /\ j \in 1 .. k
        BY <2>1, <2>4, <3>2, <4>1
      <4> QED
        BY <4>2, <4>3
    <3> QED
      BY <3>1, <3>2
  <2>8. Done(z, k)
    BY <2>6, <2>7
  <2> HIDE DEF Done
  <2> QED
    BY <2>1, <2>3, <2>4, <2>8 DEF P
<1> HIDE DEF X
<1>8. PICK f \in [SUBSET (1 .. n) -> X] : Folded(f, G, base, n)
  <2> HIDE DEF G
  <2> QED BY <1>0, <1>3, <1>5, FoldExists
<1>9. f = body(f)
  <2> SUFFICES ASSUME NEW t \in SUBSET (1 .. n)
               PROVE  f[t] = IF t = {} THEN base
                             ELSE Fetch(f[t \ {Max(t)}], list[Max(t)])
    OBVIOUS
  <2>1. f[t] = IF t = {} THEN base ELSE G[<<f[t \ {Max(t)}], Max(t)>>]
    BY <1>8 DEF Folded
  <2>2. CASE t # {}
    <3>1. Max(t) \in 1 .. n /\ f[t \ {Max(t)}] \in X
      BY <1>0, <2>2, MaxOfIndices
    <3> QED
      BY <2>1, <2>2, <3>1
  <2> QED
    BY <2>1, <2>2
<1>10. F = body(F)
  BY <1>9
<1> HIDE DEF F
<1>11. F[{}] \in P[0]
  BY <1>6, <1>10
<1>12. Steps(F, G, X, n)
  <2> SUFFICES ASSUME NEW k \in 1 .. n, F[1 .. k - 1] \in X
               PROVE  F[1 .. k] = G[<<F[1 .. k - 1], k>>]
    BY DEF Steps
  <2>1. /\ Max(1 .. k) = k /\ (1 .. k) \ {k} = 1 .. k - 1 /\ 1 .. k # {}
        /\ 1 .. k \in SUBSET (1 .. n)
    <3>1. k \in Nat \ {0} /\ 1 .. k \in SUBSET (1 .. n)
      BY <1>0
    <3> QED
      BY <3>1, LastIndex
  <2>2. F[1 .. k] = Fetch(F[1 .. k - 1], list[k])
    BY <1>10, <2>1
  <2> QED
    BY <2>2
<1>13. P \in [0 .. n -> SUBSET X]
  OBVIOUS
<1>14. F[1 .. n] \in P[n]
  <2> HIDE DEF G, P
  <2>1. Leads(G, P, n)
    BY <1>7 DEF Leads
  <2> QED
    BY <1>0, <1>11, <1>12, <1>13, <2>1, FoldReaches
<1> DEFINE d == F[1 .. n]
<1>15. d \in X /\ Done(d, n)
  <2>1. n \in 0 .. n
    BY <1>0
  <2> QED
    BY <1>14, <2>1
<1> HIDE DEF d, P, G
<1>16. ASSUME NEW l \in Slots, l \in Taken(list)
       PROVE  \E j \in 1 .. n : list[j].line = l /\ d[l].tag = list[j].lca
  <2>1. PICK i \in 1 .. n : list[i].line = l
    BY <1>16 DEF Taken, n
  <2> QED
    BY <1>15, <2>1
<1>17. \A l \in Slots : l \notin Taken(list) => d[l] = cacheData[l]
  BY <1>15
<1>18. \A i \in 1 .. n :
          /\ list[i].line[1] = CalcSetIndex(list[i].lca)
          /\ \A l \in Slots : cacheData[l].valid /\ cacheData[l].tag = list[i].lca
                => l \in Taken(list)
          /\ \A j \in 1 .. n : list[i].lca = list[j].lca => i = j
  BY DEF Reserved, list, n
<1> HIDE DEF Done
<1>19. Located(d)
  <2> SUFFICES ASSUME NEW l \in Slots, d[l].valid
               PROVE  l[1] = CalcSetIndex(d[l].tag)
    BY DEF Located
  <2>1. CASE l \in Taken(list)
    BY <1>16, <1>18, <2>1
  <2>2. CASE l \notin Taken(list)
    BY <1>17, <2>2 DEF Sound, Located
  <2> QED
    BY <2>1, <2>2
<1>20. ASSUME NEW l \in Slots, NEW m \in Slots, l \in Taken(list), d[m].valid,
              d[l].tag = d[m].tag
       PROVE  l = m
  <2>1. PICK j \in 1 .. n : list[j].line = l /\ d[l].tag = list[j].lca
    BY <1>16, <1>20
  <2>2. CASE m \in Taken(list)
    <3>1. PICK i \in 1 .. n : list[i].line = m /\ d[m].tag = list[i].lca
      BY <1>16, <2>2
    <3>2. i = j
      BY <1>18, <1>20, <2>1, <3>1
    <3> QED
      BY <2>1, <3>1, <3>2
  <2>3. CASE m \notin Taken(list)
    BY <1>17, <1>18, <1>20, <2>1, <2>3
  <2> QED
    BY <2>2, <2>3
<1>21. Unique(d)
  <2> SUFFICES ASSUME NEW l \in Slots, NEW m \in Slots, d[l].valid, d[m].valid,
                      d[l].tag = d[m].tag
               PROVE  l = m
    BY DEF Unique
  <2>1. CASE l \in Taken(list) \/ m \in Taken(list)
    BY <1>20, <2>1
  <2>2. CASE l \notin Taken(list) /\ m \notin Taken(list)
    BY <1>17, <2>2 DEF Sound, Unique
  <2> QED
    BY <2>1, <2>2
<1> QED
  BY <1>1, <1>15, <1>19, <1>21 DEF Sound, X, d, list, base

\* A read fills within reach of the tags and leaves the cache sound.
LEMMA ReadKeeps ==
  ASSUME CacheInv, NEW lca \in 0 .. LCAs - 1, Read(lca)
  PROVE  CacheInv'
<1> DEFINE span == PrefetchSpan
<1>0. /\ conf \in Configurations /\ Sound(cacheData) /\ flash \in SUBSET Tags
      /\ UNCHANGED <<conf, live, flushed, fault>> /\ fault = FALSE
      /\ conf.prefetch \in BOOLEAN /\ span \in Nat \ {0} /\ LCAs \in Nat
      /\ Tags \subseteq Nat
  BY AddressType, ConfType, SlotType, GeometryAssumption
     DEF CacheInv, TypeOK, Sound, Read
<1>1. PICK enabled \in {FALSE, conf.prefetch} :
         \/ FillFrom(lca, enabled)
         \/ lca = prefetchTrigger /\ FillFrom(lastPrefetched, enabled)
  BY DEF Read
<1>2. PICK begin \in Nat : /\ FillFrom(begin, enabled)
                           /\ begin <= LCAs - 1 + span
  <2>1. CASE FillFrom(lca, enabled)
    <3>1. lca \in Nat /\ lca <= LCAs - 1 + span
      BY <1>0
    <3> QED
      BY <2>1, <3>1
  <2>2. CASE lca = prefetchTrigger /\ FillFrom(lastPrefetched, enabled)
    <3>1. lca # None
      BY DEF None
    <3>2. lastPrefetched = lca + (span - span \div 2)
      BY <2>2, <3>1 DEF CacheInv, Ahead
    <3>3. span \div 2 \in Nat /\ span \div 2 <= span
      BY <1>0
    <3> HIDE DEF span
    <3>4. lastPrefetched \in Nat /\ lastPrefetched <= LCAs - 1 + span
      BY <1>0, <3>2, <3>3
    <3> QED
      BY <2>2, <3>4
  <2> QED
    BY <1>1, <2>1, <2>2
<1> DEFINE n == IF enabled THEN span ELSE 1
<1>3. n \in Nat \ {0} /\ n <= span /\ (begin + n) - begin = n
  <2> HIDE DEF span
  <2> QED BY <1>0
<1>4. PICK pick \in [1 .. n -> Ways] :
         LET s == ReserveAll(begin, n, pick) IN
         /\ cacheData' = FoldLeft(Fetch, EvictCache(s.c, s.evict), s.list)
         /\ flash' = EvictedToFlash(s.c, s.evict, flash)
  <2>1. \E pick \in [1 .. (begin + n) - begin -> Ways] : Fill(begin, begin + n, pick)
    BY <1>2, Zenon DEF FillFrom
  <2> HIDE DEF n
  <2>2. PICK pick \in [1 .. n -> Ways] : Fill(begin, begin + n, pick)
    BY <1>3, <2>1
  <2>3. LET s == ReserveAll(begin, (begin + n) - begin, pick) IN
        /\ cacheData' = FoldLeft(Fetch, EvictCache(s.c, s.evict), s.list)
        /\ flash' = EvictedToFlash(s.c, s.evict, flash)
    BY <2>2, Zenon DEF Fill, ReserveAll
  <2>4. ReserveAll(begin, (begin + n) - begin, pick) = ReserveAll(begin, n, pick)
    BY <1>3
  <2> QED
    BY <2>3, <2>4
<1> DEFINE s == ReserveAll(begin, n, pick)
<1>5. /\ prefetchTrigger' = IF enabled THEN begin + span \div 2 ELSE prefetchTrigger
      /\ lastPrefetched' = IF enabled THEN begin + n ELSE lastPrefetched
  BY <1>2 DEF FillFrom
<1>6. \A i \in 1 .. n : begin + i - 1 \in Tags
  <2> HIDE DEF n, span
  <2>1. \A i \in 1 .. n : /\ begin + i - 1 \in Nat
                          /\ begin + i - 1 <= LCAs + 2 * span
    BY <1>0, <1>2, <1>3
  <2>2. LCAs + 2 * span \in Nat
    BY <1>0
  <2> QED
    BY <2>1, <2>2 DEF Tags, span
<1>7. s \in Reserving /\ Reserved(s, begin, begin + n)
  <2> HIDE DEF n
  <2> QED BY <1>0, <1>3, <1>6, ReserveLoop
<1> HIDE DEF s
<1>8. Sound(cacheData')
  BY <1>0, <1>4, <1>7, FetchLoop DEF s
<1>9. flash' \subseteq Tags
  <2>1. s.c \in [Slots -> Lines]
    BY <1>7 DEF Reserving
  <2>2. Chosen(s.evict) \subseteq Slots
    BY <1>7 DEF Reserving, Chosen
  <2> QED
    BY <1>0, <1>4, <2>1, <2>2, FlashType DEF s
<1>10. /\ prefetchTrigger' \in Tags \cup {None} /\ lastPrefetched' \in Tags
       /\ prefetchTrigger' # None =>
            lastPrefetched' = prefetchTrigger' + (PrefetchSpan - PrefetchSpan \div 2)
  <2>1. CASE enabled = FALSE
    BY <1>5, <2>1 DEF CacheInv, TypeOK, Ahead
  <2>2. CASE enabled = TRUE
    <3>1. /\ prefetchTrigger' = begin + span \div 2
          /\ lastPrefetched' = begin + span
      BY <1>5, <2>2
    <3>2. span \div 2 \in Nat /\ span \div 2 <= span
      BY <1>0
    <3>3. Tags = 0 .. LCAs + 2 * span
      BY DEF Tags
    <3> HIDE DEF span
    <3> DEFINE half == span \div 2
    <3> HIDE DEF half
    <3>4. half \in Nat /\ half <= span /\ prefetchTrigger' = begin + half
      BY <3>1, <3>2 DEF half
    <3>5. begin + half \in 0 .. LCAs + 2 * span /\ begin + span \in 0 .. LCAs + 2 * span
      BY <1>0, <1>2, <3>4
    <3>6. begin + span = (begin + half) + (span - half)
      BY <1>0, <3>4
    <3>7. prefetchTrigger' \in Tags /\ lastPrefetched' \in Tags
      BY <3>1, <3>3, <3>4, <3>5
    <3>8. lastPrefetched' = prefetchTrigger' + (span - half)
      BY <3>1, <3>4, <3>6
    <3> QED
      BY <3>7, <3>8 DEF span, half
  <2> QED
    BY <1>0, <2>1, <2>2
<1>11. live' \subseteq 0 .. LCAs - 1 /\ flushed' \in BOOLEAN
  BY <1>0 DEF CacheInv, TypeOK
<1> QED
  BY <1>0, <1>8, <1>9, <1>10, <1>11, CacheFrame

\* The empty cache is sound.
LEMMA CacheInit ==
  ASSUME Init
  PROVE  CacheInv
<1>0. conf \in Configurations
  BY DEF Init
<1>1. BlankLine \in Lines /\ ~BlankLine.valid /\ 0 \in Tags
  BY <1>0, SlotType DEF BlankLine
<1>2. /\ cacheData \in [Slots -> Lines]
      /\ \A l \in Slots : ~cacheData[l].valid
  BY <1>1 DEF Init
<1>3. TypeOK
  BY <1>0, <1>1, <1>2 DEF Init, TypeOK
<1>4. Located(cacheData) /\ Unique(cacheData)
  BY <1>2 DEF Located, Unique
<1> QED
  BY <1>3, <1>4 DEF Init, CacheInv, Ahead

\* Every step keeps the cache sound.
LEMMA CacheStep ==
  ASSUME CacheInv, [Next]_vars
  PROVE  CacheInv'
<1>1. CASE \E lca \in 0 .. LCAs - 1, partial \in BOOLEAN : Write(lca, partial)
  BY <1>1, WriteKeeps
<1>2. CASE \E lca \in 0 .. LCAs - 1 : Read(lca)
  BY <1>2, ReadKeeps
<1>3. CASE \E r \in Ranges : Flush(r[1], r[2])
  BY <1>3, FlushKeeps
<1>4. CASE \E r \in Ranges : Trim(r[1], r[2])
  BY <1>4, DropsKeep
<1>5. CASE \E r \in Ranges : Format(r[1], r[2])
  BY <1>5, DropsKeep
<1>6. CASE UNCHANGED vars
  <2>1. /\ conf' = conf /\ cacheData' = cacheData /\ flash' = flash /\ live' = live
        /\ flushed' = flushed /\ fault' = fault
        /\ prefetchTrigger' = prefetchTrigger /\ lastPrefetched' = lastPrefetched
    BY <1>6 DEF vars
  <2>2. fault' = FALSE
    BY <2>1 DEF CacheInv, TypeOK
  <2> QED
    BY <2>1, <2>2, CacheFrame DEF CacheInv, TypeOK, Sound, Ahead
<1> QED
  BY <1>1, <1>2, <1>3, <1>4, <1>5, <1>6 DEF Next

\* The invariant of the specification.
LEMMA CacheInvariant == Spec => []CacheInv
<1>1. Init => CacheInv
  BY CacheInit
<1>2. CacheInv /\ [Next]_vars => CacheInv'
  BY CacheStep
<1> QED
  BY <1>1, <1>2, PTL DEF Spec

\* In every cache, a valid line is the one the lookup of its tag finds, and
\* the state is well typed: getValidWay may stop at the first match of the one
\* set it searches.
THEOREM CacheIndexed == Spec => []Indexed
<1>1. CacheInv => Indexed
  BY IndexedMeans
<1> QED
  BY <1>1, CacheInvariant, PTL

\* No write to a full set ends in the panic "Cache corrupted!".
THEOREM CacheNeverCorrupted == Spec => []NeverCorrupted
<1>1. CacheInv => NeverCorrupted
  BY DEF CacheInv, NeverCorrupted
<1> QED
  BY <1>1, CacheInvariant, PTL

-----------------------------------------------------------------------------
(* No write is lost *)

\* What keeps writes without read caching.  A line that would be written back
\* over a live address holds its last version.  In the geometry in which
\* flushes are harmless this is so of invalid lines too, which a flush writes
\* as well, and they never leave the set of their tag.
KeptInv ==
    ~conf.read =>
        /\ ~flushed \/ Direct => \A lca \in live : Kept(lca)
        /\ \A l \in Slots :
             cacheData[l].valid /\ cacheData[l].dirty /\ cacheData[l].tag \in live
                => cacheData[l].new
        /\ Direct => /\ DirtyIsNew
                     /\ \A l \in Slots : cacheData[l].dirty =>
                           l[1] = CalcSetIndex(cacheData[l].tag)
        /\ ~conf.write => \A l \in Slots : ~cacheData[l].valid /\ ~cacheData[l].dirty

\* A write keeps the other lines that hold live data, and its own.
LEMMA WriteKeepsWrites ==
  ASSUME CacheInv, KeptInv, NEW lca \in 0 .. LCAs - 1, NEW partial \in BOOLEAN,
         Write(lca, partial), conf.read = FALSE
  PROVE  KeptInv'
<1>0. /\ conf \in Configurations /\ Sound(cacheData) /\ flash \in SUBSET Tags
      /\ UNCHANGED <<conf, prefetchTrigger, lastPrefetched, flushed>>
      /\ live' = live \cup {lca} /\ fault = FALSE
  BY DEF CacheInv, TypeOK, Sound, Write
<1>1. /\ Slots' = Slots /\ Direct' = Direct
      /\ \A t : CalcSetIndex(t)' = CalcSetIndex(t)
  BY <1>0 DEF Slots, Sets, Ways, Direct, CalcSetIndex
<1> DEFINE c == Supersede(cacheData, lca)
           fl == FlashAfterWrite(lca, partial)
           set == CalcSetIndex(lca)
           KeptIn(d, f, t) == \/ t \in f
                              \/ \E l \in Slots : /\ d[l].valid /\ d[l].dirty
                                                  /\ d[l].new /\ d[l].tag = t
<1>2. SUFFICES
        /\ ~flushed \/ Direct => \A t \in live' : KeptIn(cacheData', flash', t)
        /\ \A l \in Slots :
             /\ cacheData'[l].dirty /\ cacheData'[l].tag \in live'
             /\ cacheData'[l].valid \/ Direct
             => cacheData'[l].new
        /\ Direct => \A l \in Slots : cacheData'[l].dirty =>
                        l[1] = CalcSetIndex(cacheData'[l].tag)
        /\ ~conf.write => \A l \in Slots : ~cacheData'[l].valid /\ ~cacheData'[l].dirty
  BY <1>0, <1>1, <1>2 DEF KeptInv, Kept, DirtyIsNew
<1>3. /\ ~flushed \/ Direct => \A t \in live : KeptIn(cacheData, flash, t)
      /\ \A l \in Slots :
             /\ cacheData[l].dirty /\ cacheData[l].tag \in live
             /\ cacheData[l].valid \/ Direct
             => cacheData[l].new
      /\ Direct => \A l \in Slots : cacheData[l].dirty =>
                        l[1] = CalcSetIndex(cacheData[l].tag)
      /\ ~conf.write => \A l \in Slots : ~cacheData[l].valid /\ ~cacheData[l].dirty
  BY DEF KeptInv, Kept, DirtyIsNew
<1>4. Sound(c)
  BY <1>0, SupersedeSound
<1>5. \A l \in Slots : /\ c[l].valid = cacheData[l].valid /\ c[l].tag = cacheData[l].tag
                       /\ c[l].dirty = cacheData[l].dirty
                       /\ c[l].tag # lca => c[l] = cacheData[l]
  BY <1>0 DEF Supersede, Sound, Lines
<1>6. \A t : t # lca => (t \in fl <=> t \in flash)
  BY DEF FlashAfterWrite
<1>7. CASE ~conf.write
  <2>1. cacheData' = c /\ flash' = flash \cup {lca}
    BY <1>7 DEF Write
  <2> HIDE DEF c
  <2>2. \A l \in Slots : ~cacheData'[l].valid /\ ~cacheData'[l].dirty
    BY <1>3, <1>5, <1>7, <2>1
  <2>3. ~flushed \/ Direct => \A t \in live' : t \in flash'
    BY <1>0, <1>3, <1>7, <2>1
  <2> QED
    BY <2>2, <2>3
<1>8. CASE conf.write /\ WriteCached(lca, partial)
  \* Slot l takes the line; the others are those of d, a part of c.
  <2> DEFINE
        Before(d, l, dirty) ==
            /\ cacheData' = Placed(d, l, lca, dirty)
            /\ l[1] = CalcSetIndex(lca)
            /\ \A m \in Slots : d[m].valid \/ d[m].dirty => d[m] = c[m]
            /\ \A m \in Slots : d[m].valid /\ d[m].tag = lca => m = l
            /\ dirty = TRUE \/ lca \in flash'
            /\ ~flushed \/ Direct =>
                  \A t \in live \ {lca} : \/ t \in flash'
                                          \/ \E m \in Slots \ {l} :
                                              /\ d[m].valid /\ d[m].dirty
                                              /\ d[m].new /\ d[m].tag = t
        After ==
            /\ ~flushed \/ Direct => \A t \in live' : KeptIn(cacheData', flash', t)
            /\ \A m \in Slots :
                  /\ cacheData'[m].dirty /\ cacheData'[m].tag \in live'
                  /\ cacheData'[m].valid \/ Direct
                  => cacheData'[m].new
            /\ Direct => \A m \in Slots : cacheData'[m].dirty =>
                           m[1] = CalcSetIndex(cacheData'[m].tag)
  <2>1. ASSUME NEW d \in [Slots -> Lines], NEW l \in Slots, NEW dirty \in BOOLEAN,
               Before(d, l, dirty)
        PROVE  After
    <3> DEFINE e == cacheData'
    <3>1. /\ e[l] = Fresh(lca, dirty) /\ \A m \in Slots : m # l => e[m] = d[m]
      BY <2>1 DEF Placed
    <3>2. /\ e[l].valid /\ e[l].dirty = dirty /\ e[l].tag = lca /\ e[l].new
      BY <3>1 DEF Fresh
    <3> HIDE DEF e, c
    <3>3. ASSUME ~flushed \/ Direct, NEW t \in live' PROVE KeptIn(e, flash', t)
      <4>1. CASE t = lca
        BY <2>1, <3>2, <4>1
      <4>2. CASE t # lca
        BY <1>0, <2>1, <3>1, <3>3, <4>2
      <4> QED
        BY <4>1, <4>2
    <3>4. ASSUME NEW m \in Slots, m # l, Direct, d[m].dirty PROVE d[m].tag # lca
      <4>1. m[1] = CalcSetIndex(d[m].tag)
        BY <1>3, <1>5, <2>1, <3>4
      <4>2. m[1] # l[1]
        BY <3>4 DEF Direct, Slots, Ways
      <4> QED
        BY <2>1, <4>1, <4>2
    <3>5. ASSUME NEW m \in Slots, e[m].dirty, e[m].tag \in live',
                 e[m].valid \/ Direct
          PROVE  e[m].new
      <4>1. CASE m = l
        BY <3>2, <4>1
      <4>2. CASE m # l
        <5>1. e[m] = d[m] /\ d[m] = c[m] /\ d[m].tag # lca
          BY <2>1, <3>1, <3>4, <3>5, <4>2
        <5>2. c[m] = cacheData[m] /\ cacheData[m].tag \in live
          BY <1>0, <1>5, <3>5, <5>1
        <5> QED
          BY <1>3, <3>5, <5>1, <5>2
      <4> QED
        BY <4>1, <4>2
    <3>6. ASSUME NEW m \in Slots, Direct, e[m].dirty
          PROVE  m[1] = CalcSetIndex(e[m].tag)
      <4>1. CASE m = l
        BY <2>1, <3>2, <4>1
      <4>2. CASE m # l
        BY <1>3, <1>5, <2>1, <3>1, <3>6, <4>2
      <4> QED
        BY <4>1, <4>2
    <3> QED
      BY <3>3, <3>5, <3>6 DEF e
  <2>2. \E l \in Slots : l[1] = CalcSetIndex(lca) /\ Placing(c, fl, l, lca, partial)
    BY <1>0, <1>8, WriteShape
  <2>3. partial = FALSE => lca \in fl
    BY DEF FlashAfterWrite
  <2> HIDE DEF c, fl
  <2>4. PICK l \in Slots : l[1] = CalcSetIndex(lca) /\ Placing(c, fl, l, lca, partial)
    BY <2>2
  <2>5. CASE /\ cacheData' = Placed(c, l, lca, DirtyOf(partial))
             /\ flash' = fl
             /\ \A m \in Slots : c[m].valid /\ c[m].tag = lca => m = l
             /\ ~c[l].valid \/ c[l].tag = lca
    <3>1. DirtyOf(partial) = partial /\ c \in [Slots -> Lines]
      BY <1>4 DEF DirtyOf, Sound
    <3>2. ASSUME ~flushed \/ Direct, NEW t \in live \ {lca}
          PROVE  \/ t \in flash'
                 \/ \E m \in Slots \ {l} : /\ c[m].valid /\ c[m].dirty
                                           /\ c[m].new /\ c[m].tag = t
      <4>1. CASE t \in flash
        BY <1>6, <2>5, <4>1
      <4>2. CASE \E m \in Slots : /\ cacheData[m].valid /\ cacheData[m].dirty
                                  /\ cacheData[m].new /\ cacheData[m].tag = t
        BY <1>5, <2>5, <4>2
      <4> QED
        BY <1>3, <3>2, <4>1, <4>2
    <3>3. Before(c, l, partial)
      BY <2>3, <2>4, <2>5, <3>1, <3>2
    <3> HIDE DEF Before, After
    <3>4. After
      BY <2>1, <3>1, <3>3
    <3> QED
      BY <1>8, <3>4 DEF After
  <2>6. CASE \E e : /\ Chosen(e) \subseteq Slots
                    /\ cacheData' = Placed(EvictCache(c, e), l, lca, TRUE)
                    /\ flash' = EvictedToFlash(c, e, fl)
                    /\ \A m \in Slots : ~(c[m].valid /\ c[m].tag = lca)
                    /\ ~EvictCache(c, e)[l].valid
    <3>1. PICK e : /\ Chosen(e) \subseteq Slots
                   /\ cacheData' = Placed(EvictCache(c, e), l, lca, TRUE)
                   /\ flash' = EvictedToFlash(c, e, fl)
                   /\ \A m \in Slots : ~(c[m].valid /\ c[m].tag = lca)
                   /\ ~EvictCache(c, e)[l].valid
      BY <2>6
    <3> DEFINE d == EvictCache(c, e)
    <3>2. /\ d \in [Slots -> Lines]
          /\ \A m \in Slots : d[m] = IF m \in Chosen(e) THEN BlankLine ELSE c[m]
      BY <1>0, <1>4, SlotType DEF EvictCache, Sound
    <3>3. BlankLine.valid = FALSE /\ BlankLine.dirty = FALSE
      BY DEF BlankLine
    <3> HIDE DEF d
    <3>4. \A m \in Slots : d[m].valid \/ d[m].dirty => d[m] = c[m]
      BY <3>2, <3>3
    <3>5. \A m \in Slots : d[m].valid /\ d[m].tag = lca => m = l
      BY <3>1, <3>4
    <3>6. ASSUME ~flushed \/ Direct, NEW t \in live \ {lca}
          PROVE  \/ t \in flash'
                 \/ \E m \in Slots \ {l} : /\ d[m].valid /\ d[m].dirty
                                           /\ d[m].new /\ d[m].tag = t
      <4>1. CASE t \in flash
        <5>1. \A m \in Slots : c[m].valid /\ c[m].dirty /\ c[m].tag = t => c[m].new
          BY <1>3, <1>5, <3>6
        <5>2. t \in fl
          BY <1>6, <3>6, <4>1
        <5> QED
          BY <3>1, <5>1, <5>2 DEF EvictedToFlash, WriteBack
      <4>2. CASE \E m \in Slots : /\ cacheData[m].valid /\ cacheData[m].dirty
                                  /\ cacheData[m].new /\ cacheData[m].tag = t
        <5>1. PICK m \in Slots : /\ c[m].valid /\ c[m].dirty
                                 /\ c[m].new /\ c[m].tag = t
          BY <1>5, <3>6, <4>2
        <5>2. CASE m \in Chosen(e)
          BY <3>1, <5>1, <5>2 DEF EvictedToFlash, WriteBack
        <5>3. CASE m \notin Chosen(e)
          <6>1. d[m] = c[m] /\ m # l
            BY <3>1, <3>2, <5>1, <5>3 DEF d
          <6> QED
            BY <5>1, <6>1
        <5> QED
          BY <5>2, <5>3
      <4> QED
        BY <1>3, <3>6, <4>1, <4>2
    <3>7. cacheData' = Placed(d, l, lca, TRUE)
      BY <3>1 DEF d
    <3>8. ~flushed \/ Direct =>
             \A t \in live \ {lca} : \/ t \in flash'
                                     \/ \E m \in Slots \ {l} :
                                         /\ d[m].valid /\ d[m].dirty
                                         /\ d[m].new /\ d[m].tag = t
      BY <3>6
    <3>9. Before(d, l, TRUE)
      BY <2>4, <3>4, <3>5, <3>7, <3>8
    <3> HIDE DEF Before, After
    <3>10. After
      BY <2>1, <3>2, <3>9
    <3> QED
      BY <1>8, <3>10 DEF After
  <2> QED
    BY <2>4, <2>5, <2>6 DEF Placing
<1> QED
  BY <1>7, <1>8 DEF Write

\* A flush of the direct-mapped cache writes what it drops.
LEMMA FlushKeepsWrites ==
  ASSUME CacheInv, KeptInv, NEW a, NEW n, Flush(a, n), conf.read = FALSE
  PROVE  KeptInv'
<1>0. /\ conf \in Configurations /\ Sound(cacheData) /\ flash \in SUBSET Tags
      /\ UNCHANGED <<conf, prefetchTrigger, lastPrefetched, live, fault>>
      /\ flushed' = TRUE
      /\ cacheData' = Invalidated(a, n) /\ flash' = FlushLoop(a, n).fl
  BY DEF CacheInv, TypeOK, Sound, Flush, FlushLoop
<1>1. /\ Slots' = Slots /\ Direct' = Direct
      /\ \A t : CalcSetIndex(t)' = CalcSetIndex(t)
  BY <1>0 DEF Slots, Sets, Ways, Direct, CalcSetIndex
<1>2. \A l \in Slots :
         /\ cacheData'[l].tag = cacheData[l].tag
         /\ cacheData'[l].dirty = cacheData[l].dirty
         /\ cacheData'[l].new = cacheData[l].new
         /\ cacheData'[l].valid => cacheData[l].valid
         /\ ~InRange(cacheData[l].tag, a, n) => cacheData'[l] = cacheData[l]
  BY <1>0, InvalidatedSound
<1>3. ASSUME Direct, NEW t \in live PROVE Kept(t)'
  <2>1. DirtyIsNew /\ Kept(t)
    BY <1>3 DEF KeptInv
  <2>2. t \in flash \/ (\E l \in ToFlush(a, n) : cacheData[l].tag = t) => t \in flash'
    BY <1>0, <1>3, <2>1, FlushWrites DEF Sound
  <2>3. CASE t \in flash
    BY <2>2, <2>3 DEF Kept
  <2>4. CASE \E l \in Slots : /\ cacheData[l].valid /\ cacheData[l].dirty
                              /\ cacheData[l].new /\ cacheData[l].tag = t
    <3>1. PICK l \in Slots : /\ cacheData[l].valid /\ cacheData[l].dirty
                             /\ cacheData[l].new /\ cacheData[l].tag = t
      BY <2>4
    <3>2. CASE InRange(t, a, n)
      <4>1. l \in ToFlush(a, n)
        BY <3>1, <3>2 DEF ToFlush
      <4> QED
        BY <2>2, <3>1, <4>1 DEF Kept
    <3>3. CASE ~InRange(t, a, n)
      <4>1. cacheData'[l] = cacheData[l]
        BY <1>2, <3>1, <3>3
      <4> QED
        BY <1>1, <3>1, <4>1 DEF Kept
    <3> QED
      BY <3>2, <3>3
  <2> QED
    BY <2>1, <2>3, <2>4 DEF Kept
<1>4. \A l \in Slots :
         cacheData'[l].valid /\ cacheData'[l].dirty /\ cacheData'[l].tag \in live
            => cacheData'[l].new
  BY <1>2 DEF KeptInv
<1>5. Direct =>
         /\ \A l \in Slots : cacheData'[l].dirty /\ cacheData'[l].tag \in live =>
               cacheData'[l].new
         /\ \A l \in Slots : cacheData'[l].dirty =>
               l[1] = CalcSetIndex(cacheData'[l].tag)
  BY <1>2 DEF KeptInv, DirtyIsNew
<1>6. ~conf.write => \A l \in Slots : ~cacheData'[l].valid /\ ~cacheData'[l].dirty
  BY <1>2 DEF KeptInv
<1> QED
  BY <1>0, <1>1, <1>3, <1>4, <1>5, <1>6 DEF KeptInv, DirtyIsNew

\* Discards lose what they discard, and only lines of it are dropped.
LEMMA DiscardKeepsWrites ==
  ASSUME CacheInv, KeptInv, NEW c, Sound(c), NEW gone, Discard(c, gone),
         UNCHANGED <<conf, prefetchTrigger, lastPrefetched, flushed, fault>>,
         conf.read = FALSE,
         \A l \in Slots : /\ c[l].tag = cacheData[l].tag
                          /\ c[l].dirty = cacheData[l].dirty
                          /\ c[l].valid => cacheData[l].valid
                          /\ cacheData[l].tag \notin gone => c[l] = cacheData[l]
  PROVE  KeptInv'
<1>1. /\ Slots' = Slots /\ Direct' = Direct
      /\ \A t : CalcSetIndex(t)' = CalcSetIndex(t)
  BY DEF Slots, Sets, Ways, Direct, CalcSetIndex
<1>2. live' = live \ gone /\ flash' = flash \ gone
  BY DEF Discard
<1>3. \A l \in Slots :
         /\ cacheData'[l].tag = cacheData[l].tag
         /\ cacheData'[l].dirty = cacheData[l].dirty
         /\ cacheData'[l].valid => cacheData[l].valid
         /\ cacheData[l].tag \notin gone => cacheData'[l] = cacheData[l]
  BY DiscardKeeps
<1>4. ASSUME ~flushed \/ Direct, NEW t \in live' PROVE Kept(t)'
  <2>1. Kept(t) /\ t \notin gone
    BY <1>2, <1>4 DEF KeptInv
  <2>2. CASE t \in flash
    BY <1>2, <2>1, <2>2 DEF Kept
  <2>3. CASE t \notin flash
    <3>1. PICK l \in Slots : /\ cacheData[l].valid /\ cacheData[l].dirty
                             /\ cacheData[l].new /\ cacheData[l].tag = t
      BY <2>1, <2>3 DEF Kept
    <3>2. cacheData'[l] = cacheData[l]
      BY <1>3, <2>1, <3>1
    <3> QED
      BY <1>1, <3>1, <3>2 DEF Kept
  <2> QED
    BY <2>2, <2>3
<1>5. \A l \in Slots : cacheData'[l].tag \in live' =>
         cacheData[l].tag \in live /\ cacheData'[l] = cacheData[l]
  BY <1>2, <1>3
<1>6. \A l \in Slots :
         cacheData'[l].valid /\ cacheData'[l].dirty /\ cacheData'[l].tag \in live'
            => cacheData'[l].new
  BY <1>5 DEF KeptInv
<1>7. Direct =>
         /\ \A l \in Slots : cacheData'[l].dirty /\ cacheData'[l].tag \in live' =>
               cacheData'[l].new
         /\ \A l \in Slots : cacheData'[l].dirty =>
               l[1] = CalcSetIndex(cacheData'[l].tag)
  BY <1>3, <1>5 DEF KeptInv, DirtyIsNew
<1>8. ~conf.write => \A l \in Slots : ~cacheData'[l].valid /\ ~cacheData'[l].dirty
  BY <1>3 DEF KeptInv
<1> QED
  BY <1>1, <1>4, <1>6, <1>7, <1>8 DEF KeptInv, DirtyIsNew

\* Trims and formats drop lines of what they discard only.
LEMMA DropsKeepWrites ==
  ASSUME CacheInv, KeptInv, NEW a \in Nat, NEW n \in Nat,
         Trim(a, n) \/ Format(a, n), conf.read = FALSE
  PROVE  KeptInv'
<1>0. /\ Sound(cacheData) /\ conf \in Configurations /\ conf.k \in Nat \ {0}
      /\ \A l \in Slots : cacheData[l].tag \in Nat
  <2>1. Sound(cacheData) /\ conf \in Configurations
    BY DEF CacheInv, TypeOK, Sound
  <2>2. conf.k \in Nat \ {0} /\ Tags \subseteq Nat
    BY <2>1, ConfType, SlotType
  <2> QED
    BY <2>1, <2>2 DEF Sound, Lines
<1>1. CASE Trim(a, n)
  <2>1. /\ Discard(Invalidated(a, n), TrimGone(a, n))
        /\ UNCHANGED <<conf, prefetchTrigger, lastPrefetched, flushed, fault>>
    BY <1>1 DEF Trim, TrimGone
  <2>2. \A t \in Nat : t \in LinesOf(t \div conf.k)
    <3> SUFFICES ASSUME NEW t \in Nat PROVE t \in LinesOf(t \div conf.k)
      OBVIOUS
    <3> QED
      BY <1>0, DivisionLeaves DEF LinesOf
  <2>3. \A l \in Slots : InRange(cacheData[l].tag, a, n) =>
           cacheData[l].tag \in TrimGone(a, n)
    BY <1>0, <2>2 DEF TrimGone
  <2>4. /\ Sound(Invalidated(a, n))
        /\ \A l \in Slots : /\ Invalidated(a, n)[l].tag = cacheData[l].tag
                            /\ Invalidated(a, n)[l].dirty = cacheData[l].dirty
                            /\ Invalidated(a, n)[l].valid => cacheData[l].valid
                            /\ cacheData[l].tag \notin TrimGone(a, n) =>
                                 Invalidated(a, n)[l] = cacheData[l]
    BY <1>0, <2>3, InvalidatedSound
  <2> QED
    BY <2>1, <2>4, DiscardKeepsWrites
<1>2. CASE Format(a, n)
  <2>1. /\ Discard(Formatted(a, n), FormatGone(a, n))
        /\ UNCHANGED <<conf, prefetchTrigger, lastPrefetched, flushed, fault>>
    BY <1>2 DEF Format, Formatted, FormatGone
  <2>2. \A l \in Slots : InRange(cacheData[l].tag, a, n) =>
           cacheData[l].tag \in FormatGone(a, n)
    <3> SUFFICES ASSUME NEW l \in Slots, InRange(cacheData[l].tag, a, n)
                 PROVE  cacheData[l].tag \in a .. a + n - 1
      BY DEF FormatGone
    <3> QED
      BY <1>0 DEF InRange
  <2>3. /\ Sound(Formatted(a, n))
        /\ \A l \in Slots : /\ Formatted(a, n)[l].tag = cacheData[l].tag
                            /\ Formatted(a, n)[l].dirty = cacheData[l].dirty
                            /\ Formatted(a, n)[l].valid => cacheData[l].valid
                            /\ cacheData[l].tag \notin FormatGone(a, n) =>
                                 Formatted(a, n)[l] = cacheData[l]
    BY <1>0, <2>2, FormattedSound
  <2> QED
    BY <2>1, <2>3, DiscardKeepsWrites
<1> QED
  BY <1>1, <1>2

\* Every step keeps the writes that it must keep.
LEMMA KeptStep ==
  ASSUME CacheInv, KeptInv, [Next]_vars
  PROVE  KeptInv'
<1>0. conf' = conf /\ conf.read \in BOOLEAN
  <2>1. conf' = conf
    BY DEF Next, Write, Read, Flush, Trim, Format, vars
  <2>2. conf.read \in BOOLEAN
    BY ConfType DEF CacheInv, TypeOK
  <2> QED
    BY <2>1, <2>2
<1>1. CASE conf.read = TRUE
  BY <1>0, <1>1 DEF KeptInv
<1>2. CASE conf.read = FALSE
  <2>1. CASE \E lca \in 0 .. LCAs - 1, partial \in BOOLEAN : Write(lca, partial)
    BY <1>2, <2>1, WriteKeepsWrites
  <2>2. CASE \E lca \in 0 .. LCAs - 1 : Read(lca)
    BY <1>2, <2>2 DEF Read
  <2>3. CASE \E r \in Ranges : Flush(r[1], r[2])
    BY <1>2, <2>3, FlushKeepsWrites
  <2>4. CASE \E r \in Ranges : Trim(r[1], r[2]) \/ Format(r[1], r[2])
    <3>1. PICK r \in Ranges : Trim(r[1], r[2]) \/ Format(r[1], r[2])
      BY <2>4
    <3>2. r[1] \in Nat /\ r[2] \in Nat
      BY GeometryAssumption DEF Ranges
    <3> QED
      BY <1>2, <3>1, <3>2, DropsKeepWrites
  <2>5. CASE UNCHANGED vars
    <3>1. /\ conf' = conf /\ cacheData' = cacheData /\ flash' = flash /\ live' = live
          /\ flushed' = flushed
      BY <2>5 DEF vars
    <3> QED
      BY <3>1 DEF KeptInv, Kept, DirtyIsNew, Direct, Slots, Sets, Ways, CalcSetIndex
  <2> QED
    BY <2>1, <2>2, <2>3, <2>4, <2>5 DEF Next
<1> QED
  BY <1>0, <1>1, <1>2

\* Without read caching no write is lost: in every geometry until a flush is
\* served, and in the direct-mapped cache with one line per page also after
\* flushes.
THEOREM CacheWritesKept == Spec => []WritesKept
<1>1. Init => KeptInv
  <2> SUFFICES ASSUME Init PROVE KeptInv
    OBVIOUS
  <2>1. \A l \in Slots : cacheData[l].valid = FALSE /\ cacheData[l].dirty = FALSE
    BY DEF Init, BlankLine
  <2> QED
    BY <2>1 DEF Init, KeptInv, DirtyIsNew
<1>2. CacheInv /\ KeptInv /\ [Next]_vars => KeptInv'
  BY KeptStep
<1>3. CacheInv /\ KeptInv => WritesKept
  <2> SUFFICES ASSUME CacheInv, KeptInv, ~conf.read,
                      ~(flushed /\ (conf.ways > 1 \/ conf.k > 1))
               PROVE  \A lca \in live : Kept(lca)
    BY DEF WritesKept
  <2>1. conf.ways \in Nat \ {0} /\ conf.k \in Nat \ {0}
    BY ConfType DEF CacheInv, TypeOK
  <2>2. ~flushed \/ Direct
    BY <2>1 DEF Direct
  <2> QED
    BY <2>2 DEF KeptInv
<1> QED
  BY <1>1, <1>2, <1>3, CacheInvariant, PTL DEF Spec

=============================================================================
