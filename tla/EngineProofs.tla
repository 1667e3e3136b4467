---------------------------- MODULE EngineProofs ----------------------------
(***************************************************************************)
(* Proofs about the event engine and the process around it, for every      *)
(* number of handles, every range of ticks and every length of the run.    *)
(*                                                                         *)
(* QueueInvariant is inductive once it says that a callback runs only      *)
(* below the bound on eventHandled (InCallback).  The work is in           *)
(* insertEvent: one pass that inserts an entry and erases the old one of   *)
(* the same event must keep order, uniqueness and first come first served. *)
(***************************************************************************)
EXTENDS Simulator, SeqLemmas

\* QueueSorted, QueuedOnce and FirstComeFirstServed of any queues.
Ordered(q) == \A i, j \in 1 .. Len(q) : i < j => q[i].tick <= q[j].tick
Once(q) == \A i, j \in 1 .. Len(q) : q[i].eid = q[j].eid => i = j
Fair(q, r) ==
    \A c, d \in 1 .. Len(r) :
        (c < d /\ r[c].tick = r[d].tick) =>
            \A b \in 1 .. Len(q) : q[b] = r[d] =>
                \E a \in 1 .. b - 1 : q[a] = r[c]

\* The entries of a queue have integer ticks.
LEMMA EntryTicks ==
  /\ \A e \in Entry : e.tick \in Int /\ e.eid \in Eids
  /\ \A t \in Ticks : t \in Int
  /\ \A q \in Seq(Entry) : /\ Len(q) \in Nat
                          /\ \A j \in 1 .. Len(q) : q[j] \in Entry
<1>1. \A t \in Ticks : t \in Int
  BY BoundsAssumption DEF Ticks
<1>2. \A e \in Entry : e.tick \in Int /\ e.eid \in Eids
  BY <1>1 DEF Entry
<1> QED
  BY <1>1, <1>2

\* The position insertEvent searches exists: the first later entry, or the end.
LEMMA InsertPositionProperties ==
  ASSUME NEW q \in Seq(Entry), NEW tick \in Ticks
  PROVE  LET at == InsertPosition(q, tick)
         IN  /\ at \in 1 .. Len(q) + 1
             /\ \A j \in 1 .. at - 1 : q[j].tick <= tick
             /\ at <= Len(q) => q[at].tick > tick
<1> DEFINE T == {i \in 1 .. Len(q) + 1 : i = Len(q) + 1 \/ q[i].tick > tick}
<1>1. Len(q) \in Nat /\ T \in SUBSET Nat /\ Len(q) + 1 \in T
  OBVIOUS
<1>2. PICK m \in T : \A n \in T : m <= n
  BY <1>1, LeastNat
<1>3. \A j \in 1 .. Len(q) : q[j].tick \in Int
  BY EntryTicks
<1>4. /\ m \in 1 .. Len(q) + 1
      /\ \A j \in 1 .. m - 1 : q[j].tick <= tick
      /\ m <= Len(q) => q[m].tick > tick
  <2>1. m \in 1 .. Len(q) + 1 /\ (m <= Len(q) => q[m].tick > tick)
    BY <1>1
  <2>2. ASSUME NEW j \in 1 .. m - 1
        PROVE  q[j].tick <= tick
    <3>1. j \in 1 .. Len(q) /\ ~(m <= j)
      BY <1>1, <2>1
    <3>2. j \notin T
      BY <1>2, <3>1
    <3>3. tick \in Int
      BY EntryTicks
    <3> QED
      BY <1>1, <1>3, <3>1, <3>2, <3>3
  <2> QED
    BY <2>1, <2>2
<1> QED
  BY <1>4 DEF InsertPosition

\* An event that is queued once has one position, which is the Max and Min.
LEMMA OnePosition ==
  ASSUME NEW q \in Seq(Entry), Once(q), NEW eid \in Eids,
         Positions(q, eid) # {}
  PROVE  \E o \in 1 .. Len(q) :
            /\ q[o].eid = eid
            /\ Positions(q, eid) = {o}
            /\ Max(Positions(q, eid)) = o
            /\ Min(Positions(q, eid)) = o
<1>1. PICK o \in 1 .. Len(q) : q[o].eid = eid
  BY DEF Positions
<1>2. Positions(q, eid) = {o}
  BY <1>1 DEF Positions, Once
<1>3. Len(q) \in Nat /\ o \in Int
  OBVIOUS
<1>4. Max({o}) = o /\ Min({o}) = o
  BY <1>3 DEF Max, Min
<1> QED
  BY <1>1, <1>2, <1>4

\* Taking an entry out keeps the queue in order, once and fair.
LEMMA RemoveKeepsQueue ==
  ASSUME NEW q \in Seq(Entry), Ordered(q), Once(q), NEW i \in 1 .. Len(q)
  PROVE  LET r == RemoveAt(q, i)
         IN  /\ r \in Seq(Entry) /\ Ordered(r) /\ Once(r) /\ Fair(q, r)
             /\ \A j \in 1 .. Len(r) : \E k \in 1 .. Len(q) :
                   k # i /\ r[j] = q[k]
<1> DEFINE r == RemoveAt(q, i)
           from(j) == IF j < i THEN j ELSE j + 1
<1>1. Len(q) \in Nat /\ i \in Int
  OBVIOUS
<1>2. /\ r \in Seq(Entry) /\ Len(r) = Len(q) - 1
      /\ \A j \in 1 .. Len(q) - 1 : r[j] = q[from(j)]
  BY RemoveAtProperties, Zenon
<1>3. \A j \in 1 .. Len(r) :
         /\ from(j) \in 1 .. Len(q) /\ from(j) # i /\ r[j] = q[from(j)]
  BY <1>1, <1>2
<1>4. \A c, d \in 1 .. Len(r) : (c < d => from(c) < from(d))
                                /\ (from(c) = from(d) => c = d)
  BY <1>1, <1>2
<1> HIDE DEF r, from
<1>5. Ordered(r)
  BY <1>3, <1>4 DEF Ordered
<1>6. Once(r)
  BY <1>3, <1>4, SMTT(20) DEF Once
<1>7. Fair(q, r)
  <2> SUFFICES ASSUME NEW c \in 1 .. Len(r), NEW d \in 1 .. Len(r), c < d,
                      NEW b \in 1 .. Len(q), q[b] = r[d]
               PROVE  \E a \in 1 .. b - 1 : q[a] = r[c]
    BY DEF Fair
  <2>1. b = from(d)
    BY <1>3 DEF Once
  <2>2. from(c) \in 1 .. b - 1
    BY <1>1, <1>3, <1>4, <2>1
  <2> QED
    BY <1>3, <2>2
<1> QED
  BY <1>2, <1>3, <1>5, <1>6, <1>7 DEF r

\* The list of insertEvent between the insertion and the erasure: in order,
\* the new entry at its place, behind every entry of the same tick.
LEMMA InsertedQueue ==
  ASSUME NEW q \in Seq(Entry), Ordered(q), NEW e \in Entry
  PROVE  LET at  == InsertPosition(q, e.tick)
             new == InsertAt(q, at, e)
             from(j) == IF j < at THEN j ELSE j - 1
         IN  /\ at \in 1 .. Len(q) + 1
             /\ new \in Seq(Entry) /\ Len(new) = Len(q) + 1 /\ Ordered(new)
             /\ new[at] = e
             /\ \A j \in 1 .. Len(q) + 1 : j # at =>
                   from(j) \in 1 .. Len(q) /\ new[j] = q[from(j)]
             /\ \A j \in 1 .. Len(q) + 1 : at < j => e.tick < new[j].tick
<1> DEFINE at  == InsertPosition(q, e.tick)
           new == InsertAt(q, at, e)
           from(j) == IF j < at THEN j ELSE j - 1
           n == Len(q)
<1>1. /\ n \in Nat /\ e.tick \in Ticks /\ e.tick \in Int
      /\ \A j \in 1 .. n : q[j].tick \in Int
  BY EntryTicks DEF Entry
<1>2. /\ at \in 1 .. n + 1
      /\ \A j \in 1 .. at - 1 : q[j].tick <= e.tick
      /\ at <= n => q[at].tick > e.tick
  BY <1>1, InsertPositionProperties
<1> HIDE DEF at
<1>3. /\ new \in Seq(Entry) /\ Len(new) = n + 1
      /\ \A j \in 1 .. n + 1 : new[j] = IF j < at THEN q[j]
                                       ELSE IF j = at THEN e ELSE q[j - 1]
  BY <1>2, InsertAtProperties
<1> HIDE DEF new
<1>4. /\ new[at] = e
      /\ \A j \in 1 .. n + 1 : j # at =>
            from(j) \in 1 .. n /\ new[j] = q[from(j)]
  BY <1>1, <1>2, <1>3
<1>5. ASSUME NEW j \in 1 .. n + 1, at < j
      PROVE  e.tick < new[j].tick
  <2>1. from(j) = j - 1 /\ j - 1 \in 1 .. n /\ at <= j - 1 /\ at \in 1 .. n
    BY <1>1, <1>2, <1>5
  <2>2. q[at].tick <= q[j - 1].tick
    BY <1>1, <2>1 DEF Ordered
  <2> QED
    BY <1>1, <1>2, <1>4, <1>5, <2>1, <2>2, SMTT(20)
<1>6. Ordered(new)
  <2> SUFFICES ASSUME NEW i \in 1 .. n + 1, NEW j \in 1 .. n + 1, i < j
               PROVE  new[i].tick <= new[j].tick
    BY <1>3 DEF Ordered
  <2>1. CASE i = at
    BY <1>1, <1>4, <1>5, <2>1
  <2>2. CASE j = at
    <3>1. i \in 1 .. at - 1 /\ from(i) = i
      BY <1>2, <2>2
    <3> QED
      BY <1>2, <1>4, <2>2, <3>1
  <2>3. CASE i # at /\ j # at
    <3>1. from(i) \in 1 .. n /\ from(j) \in 1 .. n /\ from(i) < from(j)
      BY <1>1, <1>2, <1>4, <2>3
    <3> QED
      BY <1>4, <2>3, <3>1 DEF Ordered
  <2> QED
    BY <2>1, <2>2, <2>3
<1> QED
  BY <1>2, <1>3, <1>4, <1>5, <1>6 DEF at, new

\* insertEvent keeps the queue in order, once and fair, wherever the old
\* entry of the event was; the other entries stay.
LEMMA InsertKeepsQueue ==
  ASSUME NEW q \in Seq(Entry), Ordered(q), Once(q),
         NEW eid \in Eids, NEW tick \in Ticks
  PROVE  LET r == InsertEvent(q, eid, tick)
         IN  /\ r \in Seq(Entry) /\ Ordered(r) /\ Once(r) /\ Fair(q, r)
             /\ \A j \in 1 .. Len(r) :
                   \/ r[j].eid = eid /\ r[j].tick = tick
                   \/ \E k \in 1 .. Len(q) : r[j] = q[k]
<1> DEFINE e   == [eid |-> eid, tick |-> tick]
           at  == InsertPosition(q, e.tick)
           new == InsertAt(q, at, e)
           from(j) == IF j < at THEN j ELSE j - 1
           n   == Len(q)
           r   == InsertEvent(q, eid, tick)
<1>1. e \in Entry /\ e.tick = tick /\ e.eid = eid /\ n \in Nat
  BY DEF Entry
<1>2. /\ at \in 1 .. n + 1
      /\ new \in Seq(Entry) /\ Len(new) = n + 1 /\ Ordered(new)
      /\ new[at] = e
      /\ \A j \in 1 .. n + 1 : j # at =>
            from(j) \in 1 .. n /\ new[j] = q[from(j)]
      /\ \A j \in 1 .. n + 1 : at < j => tick < new[j].tick
  BY <1>1, InsertedQueue, Zenon
<1>3. \A j, k \in 1 .. n + 1 : j # at /\ k # at =>
         (j < k => from(j) < from(k)) /\ (from(j) = from(k) => j = k)
  BY <1>1, <1>2
<1>4. \A j \in 1 .. n : q[j].tick \in Int
  BY EntryTicks
<1> HIDE DEF e, at, new, from
\* What the two cases share: a queue that takes its entries from new, in
\* order, and the new entry not beside an old one.
<1>5. ASSUME NEW s \in Seq(Entry), NEW f \in [1 .. Len(s) -> 1 .. n + 1],
             \A j \in 1 .. Len(s) : s[j] = new[f[j]],
             \A j, k \in 1 .. Len(s) : j < k => f[j] < f[k],
             \A j \in 1 .. Len(s) : f[j] # at => s[j].eid # eid,
             \A b \in 1 .. n : q[b] # e
      PROVE  /\ Ordered(s) /\ Once(s) /\ Fair(q, s)
             /\ \A j \in 1 .. Len(s) :
                   \/ s[j].eid = eid /\ s[j].tick = tick
                   \/ \E k \in 1 .. n : s[j] = q[k]
  <2>1. Len(s) \in Nat
    OBVIOUS
  <2>2. \A j \in 1 .. Len(s) : f[j] \in 1 .. n + 1
    BY <1>5
  <2>3. \A j \in 1 .. Len(s) : f[j] # at =>
           from(f[j]) \in 1 .. n /\ s[j] = q[from(f[j])]
    BY <1>2, <1>5, <2>2
  <2>4. Ordered(s)
    <3> SUFFICES ASSUME NEW i \in 1 .. Len(s), NEW j \in 1 .. Len(s), i < j
                 PROVE  s[i].tick <= s[j].tick
      BY DEF Ordered
    <3>1. f[i] \in 1 .. Len(new) /\ f[j] \in 1 .. Len(new) /\ f[i] < f[j]
      BY <1>2, <1>5, <2>2
    <3>2. new[f[i]].tick <= new[f[j]].tick
      BY <1>2, <3>1 DEF Ordered
    <3> QED
      BY <1>5, <3>2
  <2>5. Once(s)
    <3> SUFFICES ASSUME NEW i \in 1 .. Len(s), NEW j \in 1 .. Len(s),
                        s[i].eid = s[j].eid
                 PROVE  i = j
      BY DEF Once
    <3>1. f[i] = f[j]
      <4>1. CASE f[i] = at
        BY <1>1, <1>2, <1>5, <4>1
      <4>2. CASE f[i] # at
        <5>1. f[j] # at
          BY <1>1, <1>2, <1>5, <4>2
        <5>2. from(f[i]) = from(f[j])
          BY <2>3, <4>2, <5>1 DEF Once
        <5> QED
          BY <1>3, <4>2, <5>1, <5>2
      <4> QED
        BY <4>1, <4>2
    <3> QED
      BY <1>5, <2>1, <3>1
  <2>6. Fair(q, s)
    <3> SUFFICES ASSUME NEW c \in 1 .. Len(s), NEW d \in 1 .. Len(s), c < d,
                        s[c].tick = s[d].tick, NEW b \in 1 .. n, q[b] = s[d]
                 PROVE  \E a \in 1 .. b - 1 : q[a] = s[c]
      BY DEF Fair
    <3>1. f[d] # at
      BY <1>2, <1>5
    <3>2. b = from(f[d])
      BY <2>3, <3>1 DEF Once
    <3>3. f[c] < f[d]
      BY <1>5
    <3>4. f[c] # at
      <4> SUFFICES ASSUME f[c] = at
                   PROVE  FALSE
        OBVIOUS
      <4>1. tick < s[d].tick
        BY <1>2, <1>5, <3>3
      <4>2. s[c].tick = tick
        BY <1>1, <1>2, <1>5
      <4>3. tick \in Int
        BY EntryTicks
      <4> QED
        BY <4>1, <4>2, <4>3
    <3>5. from(f[c]) \in 1 .. b - 1
      <4>1. from(f[c]) < b
        BY <1>3, <2>2, <3>1, <3>2, <3>3, <3>4
      <4>2. from(f[c]) \in 1 .. n
        BY <2>3, <3>4
      <4> QED
        BY <1>1, <4>1, <4>2
    <3> QED
      BY <1>2, <1>5, <3>4, <3>5
  <2>7. ASSUME NEW j \in 1 .. Len(s)
        PROVE  \/ s[j].eid = eid /\ s[j].tick = tick
               \/ \E k \in 1 .. n : s[j] = q[k]
    BY <1>1, <1>2, <1>5, ZenonT(40)
  <2> QED
    BY <2>4, <2>5, <2>6, <2>7
<1>6. CASE Positions(q, eid) = {}
  <2> DEFINE f == [j \in 1 .. n + 1 |-> j]
  <2>1. r = new
    BY <1>1, <1>6 DEF InsertEvent, at, new, e
  <2>2. \A b \in 1 .. n : q[b].eid # eid
    BY <1>6 DEF Positions
  <2>3. f \in [1 .. Len(new) -> 1 .. n + 1] /\ \A j \in 1 .. Len(new) : f[j] = j
    BY <1>1, <1>2
  <2> HIDE DEF f
  <2>4. \A b \in 1 .. n : q[b] # e
    BY <1>1, <2>2
  <2>5. \A j \in 1 .. Len(new) : f[j] # at => new[j].eid # eid
    BY <1>2, <2>2, <2>3
  <2>6. /\ \A j \in 1 .. Len(new) : new[j] = new[f[j]]
        /\ \A j, k \in 1 .. Len(new) : j < k => f[j] < f[k]
    BY <2>3
  <2>7. /\ Ordered(new) /\ Once(new) /\ Fair(q, new)
        /\ \A j \in 1 .. Len(new) :
              \/ new[j].eid = eid /\ new[j].tick = tick
              \/ \E k \in 1 .. n : new[j] = q[k]
    BY <1>2, <1>5, <2>3, <2>4, <2>5, <2>6
  <2> QED
    BY <1>2, <2>1, <2>7
<1>7. CASE Positions(q, eid) # {}
  <2>1. PICK o \in 1 .. n : /\ q[o].eid = eid
                            /\ Positions(q, eid) = {o}
                            /\ Max(Positions(q, eid)) = o
    BY <1>7, OnePosition
  <2>2. CASE q[o].tick = tick
    <3>1. r = q
      BY <1>7, <2>1, <2>2 DEF InsertEvent
    <3>2. Fair(q, q)
      BY <1>1 DEF Fair, Once
    <3> QED
      BY <3>1, <3>2
  <2>3. CASE q[o].tick # tick
    <3> DEFINE p == IF o >= at THEN o + 1 ELSE o
               s == RemoveAt(new, p)
               f == [j \in 1 .. n |-> IF j < p THEN j ELSE j + 1]
    <3>1. r = s
      BY <1>1, <1>7, <2>1, <2>3 DEF InsertEvent, at, new, e
    <3>2. p \in 1 .. n + 1 /\ p # at /\ from(p) = o
      BY <1>1, <1>2 DEF from
    <3> HIDE DEF p
    <3>3. /\ s \in Seq(Entry) /\ Len(s) = n
          /\ \A j \in 1 .. n : s[j] = IF j < p THEN new[j] ELSE new[j + 1]
      <4>0. p \in 1 .. Len(new)
        BY <1>2, <3>2
      <4>1. /\ s \in Seq(Entry) /\ Len(s) = Len(new) - 1
            /\ \A j \in 1 .. Len(new) - 1 :
                  s[j] = IF j < p THEN new[j] ELSE new[j + 1]
        BY <1>2, <4>0, RemoveAtProperties, Zenon
      <4> QED
        BY <1>1, <1>2, <4>1
    <3> HIDE DEF s
    <3>4. /\ f \in [1 .. Len(s) -> 1 .. n + 1]
          /\ \A j \in 1 .. Len(s) : s[j] = new[f[j]] /\ f[j] # p
          /\ \A j, k \in 1 .. Len(s) : j < k => f[j] < f[k]
      BY <1>1, <3>2, <3>3
    <3> HIDE DEF f
    <3>5. \A b \in 1 .. n : q[b].eid = eid => b = o
      BY <2>1 DEF Positions
    <3>6. \A b \in 1 .. n : q[b] # e
      BY <1>1, <2>3, <3>5
    <3>7. ASSUME NEW j \in 1 .. Len(s), f[j] # at
          PROVE  s[j].eid # eid
      <4>1. from(f[j]) \in 1 .. n /\ s[j] = q[from(f[j])]
        BY <1>2, <3>4, <3>7
      <4>2. from(f[j]) # o
        BY <1>3, <3>2, <3>4, <3>7
      <4> QED
        BY <3>5, <4>1, <4>2
    <3>8. /\ Ordered(s) /\ Once(s) /\ Fair(q, s)
          /\ \A j \in 1 .. Len(s) :
                \/ s[j].eid = eid /\ s[j].tick = tick
                \/ \E k \in 1 .. n : s[j] = q[k]
      BY <1>5, <3>3, <3>4, <3>6, <3>7
    <3> QED
      BY <3>1, <3>3, <3>8
  <2> QED
    BY <2>2, <2>3
<1> QED
  BY <1>6, <1>7

\* descheduleEvent and deallocateEvent: the event leaves, the rest stays.
LEMMA RemoveEventKeepsQueue ==
  ASSUME NEW q \in Seq(Entry), Ordered(q), Once(q), NEW eid \in Eids
  PROVE  LET r == RemoveEvent(q, eid)
         IN  /\ r \in Seq(Entry) /\ Ordered(r) /\ Once(r) /\ Fair(q, r)
             /\ \A j \in 1 .. Len(r) :
                   \E k \in 1 .. Len(q) : r[j] = q[k] /\ r[j].eid # eid
<1>1. CASE Positions(q, eid) = {}
  <2>1. RemoveEvent(q, eid) = q /\ Len(q) \in Nat
    BY <1>1 DEF RemoveEvent
  <2>2. Fair(q, q)
    BY <2>1 DEF Fair, Once
  <2> QED
    BY <1>1, <2>1, <2>2 DEF Positions
<1>2. CASE Positions(q, eid) # {}
  <2>1. PICK o \in 1 .. Len(q) : /\ q[o].eid = eid
                                 /\ Positions(q, eid) = {o}
                                 /\ Min(Positions(q, eid)) = o
    BY <1>2, OnePosition
  <2>2. RemoveEvent(q, eid) = RemoveAt(q, o)
    BY <1>2, <2>1 DEF RemoveEvent
  <2>3. \A k \in 1 .. Len(q) : k # o => q[k].eid # eid
    BY <2>1 DEF Positions
  <2> QED
    BY <2>2, <2>3, RemoveKeepsQueue, SMTT(20)
<1> QED
  BY <1>1, <1>2

-----------------------------------------------------------------------------
(* The engine *)

\* A callback runs only below the bound of the run.
InCallback == phase = "callback" => eventHandled < MaxHandled

\* The inductive invariant of the engine.
EngineInv == QueueInvariant /\ InCallback

\* The queue part of QueueInvariant, as the lemmas above state it.
LEMMA QueueParts ==
  QueueInvariant <=>
      /\ TypeOK /\ Ordered(eventQueue) /\ Once(eventQueue)
      /\ \A j \in 1 .. Len(eventQueue) :
            simTick <= eventQueue[j].tick /\ eventQueue[j].eid \in eventList
      /\ DispatchNeverPanics
BY DEF QueueInvariant, QueueSorted, QueuedOnce, NothingOverdue,
       QueuedAllocated, Ordered, Once

\* A call that leaves time, handles and phase alone and puts a good queue in
\* the place of the old one keeps the invariant.
LEMMA NewQueue ==
  ASSUME EngineInv, Ordered(eventQueue'), Once(eventQueue'),
         eventQueue' \in Seq(Entry),
         \A j \in 1 .. Len(eventQueue') :
            /\ simTick <= eventQueue'[j].tick
            /\ eventQueue'[j].eid \in eventList',
         eventList' \subseteq Eids,
         UNCHANGED <<phase, simTick, counter, forceStop, eventHandled, fault>>
  PROVE  EngineInv'
<1>1. TypeOK'
  BY DEF EngineInv, QueueInvariant, TypeOK
<1>2. QueueSorted' /\ QueuedOnce'
  BY DEF Ordered, Once, QueueSorted, QueuedOnce
<1>3. NothingOverdue' /\ QueuedAllocated'
  BY DEF NothingOverdue, QueuedAllocated
<1>4. DispatchNeverPanics' /\ InCallback'
  BY DEF EngineInv, QueueInvariant, DispatchNeverPanics, InCallback
<1> QED
  BY <1>1, <1>2, <1>3, <1>4 DEF EngineInv, QueueInvariant

\* A call on a handle that does not exist ends the process.
LEMMA PanicKeeps ==
  ASSUME EngineInv, NEW why \in Faults \ {"dispatch"}, Panic(why)
  PROVE  EngineInv' /\ eventQueue' = eventQueue
BY DEF EngineInv, QueueInvariant, TypeOK, QueueSorted, QueuedOnce, Phases,
       NothingOverdue, QueuedAllocated, DispatchNeverPanics, InCallback, Panic

\* scheduleEvent keeps the invariant and the order within a tick.
LEMMA ScheduleKeeps ==
  ASSUME EngineInv, NEW e \in Eids, NEW t \in Ticks, ScheduleEvent(e, t)
  PROVE  EngineInv' /\ Fair(eventQueue, eventQueue')
<1> DEFINE tick == EffectiveTick(t)
           q == eventQueue
<1>1. /\ TypeOK /\ Ordered(q) /\ Once(q) /\ q \in Seq(Entry)
      /\ \A j \in 1 .. Len(q) : simTick <= q[j].tick /\ q[j].eid \in eventList
  BY QueueParts DEF EngineInv, TypeOK
<1>2. tick \in Ticks /\ simTick <= tick
  BY <1>1, EntryTicks DEF TypeOK, EffectiveTick
<1>3. CASE e \in eventList
  <2> DEFINE r == InsertEvent(q, e, tick)
  <2>1. /\ r \in Seq(Entry) /\ Ordered(r) /\ Once(r) /\ Fair(q, r)
        /\ \A j \in 1 .. Len(r) :
              \/ r[j].eid = e /\ r[j].tick = tick
              \/ \E k \in 1 .. Len(q) : r[j] = q[k]
    BY <1>1, <1>2, InsertKeepsQueue
  <2>2. /\ eventQueue' = r /\ eventList' = eventList
        /\ UNCHANGED <<phase, simTick, counter, forceStop, eventHandled, fault>>
    BY <1>3 DEF ScheduleEvent
  <2> HIDE DEF r, tick
  <2>3. \A j \in 1 .. Len(r) : simTick <= r[j].tick /\ r[j].eid \in eventList
    BY <1>1, <1>2, <1>3, <2>1
  <2>4. eventList \subseteq Eids
    BY <1>1 DEF TypeOK
  <2> QED
    BY <2>1, <2>2, <2>3, <2>4, NewQueue
<1>4. CASE e \notin eventList
  <2>1. EngineInv' /\ eventQueue' = eventQueue
    BY <1>4, PanicKeeps DEF ScheduleEvent, Faults
  <2> QED
    BY <1>1, <2>1 DEF Fair, Once
<1> QED
  BY <1>3, <1>4

\* So do descheduleEvent and deallocateEvent.
LEMMA DescheduleKeeps ==
  ASSUME EngineInv, NEW e \in Eids, DescheduleEvent(e) \/ DeallocateEvent(e)
  PROVE  EngineInv' /\ Fair(eventQueue, eventQueue')
<1> DEFINE q == eventQueue
           r == RemoveEvent(q, e)
<1>1. /\ TypeOK /\ Ordered(q) /\ Once(q) /\ q \in Seq(Entry)
      /\ \A j \in 1 .. Len(q) : simTick <= q[j].tick /\ q[j].eid \in eventList
  BY QueueParts DEF EngineInv, TypeOK
<1>2. /\ r \in Seq(Entry) /\ Ordered(r) /\ Once(r) /\ Fair(q, r)
      /\ \A j \in 1 .. Len(r) :
            \E k \in 1 .. Len(q) : r[j] = q[k] /\ r[j].eid # e
  BY <1>1, RemoveEventKeepsQueue
<1>3. CASE e \in eventList
  <2>1. /\ eventQueue' = r /\ eventList' \in {eventList, eventList \ {e}}
        /\ UNCHANGED <<phase, simTick, counter, forceStop, eventHandled, fault>>
    BY <1>3 DEF DescheduleEvent, DeallocateEvent, QueueWithout
  <2> HIDE DEF r
  <2>2. \A j \in 1 .. Len(r) : simTick <= r[j].tick /\ r[j].eid \in eventList'
    BY <1>1, <1>2, <2>1
  <2>3. eventList' \subseteq Eids
    BY <1>1, <2>1 DEF TypeOK
  <2> QED
    BY <1>2, <2>1, <2>2, <2>3, NewQueue
<1>4. CASE e \notin eventList
  <2>1. EngineInv' /\ eventQueue' = eventQueue
    BY <1>4, PanicKeeps DEF DescheduleEvent, DeallocateEvent, Faults
  <2> QED
    BY <1>1, <2>1 DEF Fair, Once
<1> QED
  BY <1>3, <1>4

\* doNextEvent takes the first entry, which no other one precedes.
LEMMA DispatchKeeps ==
  ASSUME EngineInv, DoNextEvent
  PROVE  EngineInv' /\ Fair(eventQueue, eventQueue')
<1> DEFINE q == eventQueue
           r == Tail(q)
<1>1. /\ TypeOK /\ Ordered(q) /\ Once(q) /\ q \in Seq(Entry)
      /\ \A j \in 1 .. Len(q) : simTick <= q[j].tick /\ q[j].eid \in eventList
  BY QueueParts DEF EngineInv, TypeOK
<1>2. q # << >>
  BY DEF DoNextEvent
<1>3. /\ Len(q) \in Nat /\ Len(q) >= 1 /\ Head(q) = q[1] /\ q[1] \in Entry
      /\ r \in Seq(Entry) /\ Len(r) = Len(q) - 1
      /\ \A j \in 1 .. Len(r) : r[j] = q[j + 1] /\ j + 1 \in 1 .. Len(q)
  BY <1>1, <1>2
<1>4. /\ simTick' = q[1].tick /\ eventQueue' = r /\ phase' = "callback"
      /\ UNCHANGED <<counter, eventList, forceStop, eventHandled, fault>>
      /\ eventHandled < MaxHandled
  BY <1>1, <1>3 DEF DoNextEvent
<1> HIDE DEF r
<1>5. TypeOK'
  BY <1>1, <1>3, <1>4 DEF TypeOK, Phases, Entry
<1>6. Ordered(r) /\ Once(r)
  <2>1. ASSUME NEW i \in 1 .. Len(r), NEW j \in 1 .. Len(r)
        PROVE  /\ i < j => r[i].tick <= r[j].tick
               /\ r[i].eid = r[j].eid => i = j
    <3>1. /\ i + 1 \in 1 .. Len(q) /\ j + 1 \in 1 .. Len(q)
          /\ i < j => i + 1 < j + 1
          /\ i + 1 = j + 1 => i = j
      BY <1>3
    <3>2. r[i] = q[i + 1] /\ r[j] = q[j + 1]
      BY <1>3
    <3> QED
      BY <1>1, <3>1, <3>2 DEF Ordered, Once
  <2> QED
    BY <2>1 DEF Ordered, Once
<1>7. ASSUME NEW j \in 1 .. Len(r)
      PROVE  q[1].tick <= r[j].tick /\ r[j].eid \in eventList
  <2>1. r[j] = q[j + 1] /\ j + 1 \in 1 .. Len(q) /\ 1 \in 1 .. Len(q)
        /\ 1 < j + 1
    BY <1>3
  <2> QED
    BY <1>1, <2>1 DEF Ordered
<1>8. Fair(q, r)
  <2> SUFFICES ASSUME NEW c \in 1 .. Len(r), NEW d \in 1 .. Len(r), c < d,
                      NEW b \in 1 .. Len(q), q[b] = r[d]
               PROVE  \E a \in 1 .. b - 1 : q[a] = r[c]
    BY DEF Fair
  <2>1. b = d + 1
    BY <1>1, <1>3, SMTT(20) DEF Once
  <2>2. c + 1 \in 1 .. b - 1
    BY <1>3, <2>1
  <2> QED
    BY <1>3, <2>2
<1>9. DispatchNeverPanics' /\ InCallback'
  BY <1>4 DEF EngineInv, QueueInvariant, DispatchNeverPanics, InCallback
<1>10. QueueInvariant'
  BY <1>4, <1>5, <1>6, <1>7, <1>9
  DEF QueueInvariant, QueueSorted, QueuedOnce, NothingOverdue,
      QueuedAllocated, Ordered, Once
<1> QED
  BY <1>4, <1>8, <1>9, <1>10 DEF EngineInv

\* Every step of the engine keeps the invariant and the order of the entries
\* of one tick.
LEMMA EngineStepKeeps ==
  ASSUME EngineInv, [Next]_vars
  PROVE  EngineInv' /\ Fair(eventQueue, eventQueue')
<1>0. Fair(eventQueue, eventQueue)
  BY DEF EngineInv, QueueInvariant, TypeOK, QueuedOnce, Fair
<1>1. CASE AllocateEvent
  <2>1. eventQueue' = eventQueue /\ counter + 1 \in Eids
    BY <1>1, BoundsAssumption
    DEF AllocateEvent, EngineInv, QueueInvariant, TypeOK, Eids
  <2>2. TypeOK'
    BY <1>1, <2>1 DEF AllocateEvent, EngineInv, QueueInvariant, TypeOK, Eids
  <2>3. EngineInv'
    BY <1>1, <2>1, <2>2
    DEF AllocateEvent, EngineInv, QueueInvariant, QueueSorted, QueuedOnce,
        NothingOverdue, QueuedAllocated, DispatchNeverPanics, InCallback
  <2> QED
    BY <1>0, <2>1, <2>3
<1>2. CASE \E e \in Eids : \E t \in Ticks : ScheduleEvent(e, t)
  BY <1>2, ScheduleKeeps
<1>3. CASE \E e \in Eids : DescheduleEvent(e) \/ DeallocateEvent(e)
  BY <1>3, DescheduleKeeps
<1>4. CASE StopEngine \/ BeginLoop \/ EndLoop
  <2>1. EngineInv'
    BY <1>4
    DEF StopEngine, BeginLoop, EndLoop, EngineInv, QueueInvariant, TypeOK,
        Phases, QueueSorted, QueuedOnce, NothingOverdue, QueuedAllocated,
        DispatchNeverPanics, InCallback
  <2> QED
    BY <1>0, <1>4, <2>1 DEF StopEngine, BeginLoop, EndLoop
<1>5. CASE DoNextEvent
  BY <1>5, DispatchKeeps
<1>6. CASE CallbackDone
  <2>1. TypeOK'
    BY <1>6, BoundsAssumption
    DEF CallbackDone, EngineInv, QueueInvariant, TypeOK, Phases, InCallback
  <2>2. EngineInv'
    BY <1>6, <2>1
    DEF CallbackDone, EngineInv, QueueInvariant, QueueSorted, QueuedOnce,
        NothingOverdue, QueuedAllocated, DispatchNeverPanics, InCallback
  <2> QED
    BY <1>0, <1>6, <2>2 DEF CallbackDone
<1>7. CASE UNCHANGED vars
  <2>1. EngineInv'
    BY <1>7
    DEF vars, EngineInv, QueueInvariant, TypeOK, QueueSorted, QueuedOnce,
        NothingOverdue, QueuedAllocated, DispatchNeverPanics, InCallback
  <2> QED
    BY <1>0, <1>7, <2>1 DEF vars
<1> QED
  BY <1>1, <1>2, <1>3, <1>4, <1>5, <1>6, <1>7 DEF Next, Work, Over

\* The constructor of the engine establishes the invariant.
LEMMA EngineStarts ==
  ASSUME Init
  PROVE  EngineInv
<1>1. TypeOK
  <2>1. << >> \in Seq(Entry) /\ 0 \in Ticks
    BY BoundsAssumption DEF Ticks
  <2>2. 0 \in 0 .. MaxEvents /\ 0 \in 0 .. MaxHandled
    BY BoundsAssumption
  <2> QED
    BY <2>1, <2>2 DEF Init, TypeOK, Phases, Faults
<1>2. 1 .. Len(eventQueue) = {}
  BY DEF Init
<1> QED
  BY <1>1, <1>2
  DEF Init, EngineInv, QueueInvariant, QueueSorted, QueuedOnce,
      NothingOverdue, QueuedAllocated, DispatchNeverPanics, InCallback

\* insertEvent, eraseEvent and doNextEvent of src/sim/engine.cc keep the queue
\* ordered by tick, free of duplicates, of the past and of deallocated events
\* under every sequence of calls, so doNextEvent never panics.
THEOREM QueueSafe == Spec => []QueueInvariant
<1>1. Init => EngineInv
  BY EngineStarts
<1>2. EngineInv /\ [Next]_vars => EngineInv'
  BY EngineStepKeeps
<1>3. EngineInv => QueueInvariant
  BY DEF EngineInv
<1> QED
  BY <1>1, <1>2, <1>3, PTL DEF Spec

\* The same for FirstComeFirstServed: std::list::insert in front of the first
\* strictly later entry serves the events of one tick in the order of their
\* scheduling, and rescheduling a third event swaps no two others.
THEOREM ServedInOrder == Spec => FirstComeFirstServed
<1>1. Init => EngineInv
  BY EngineStarts
<1>2. EngineInv /\ [Next]_vars => EngineInv'
  BY EngineStepKeeps
<1>3. EngineInv /\ [Next]_vars => [Fair(eventQueue, eventQueue')]_vars
  BY EngineStepKeeps
<1>4. Spec => [][Fair(eventQueue, eventQueue')]_vars
  BY <1>1, <1>2, <1>3, PTL DEF Spec
<1> QED
  BY <1>4, PTL DEF FirstComeFirstServed, Fair

-----------------------------------------------------------------------------
(* The process around the engine *)

\* main(), the SIGINT handler and the progress thread leave the engine to its
\* own steps: the process implements the engine.
THEOREM ProcessRunsEngine == SimSpec => Spec
<1>1. SimInit => Init
  BY DEF SimInit
<1>2. [SimNext]_simVars => [Next]_vars
  BY DEF SimNext, simVars, EngineStep, Signal, Cleanup, Thread, SimOver, Next,
         Lock, Statistics, Delete, Join, Wake, GetStat, GenProgress, BioProgress
<1> QED
  BY <1>1, <1>2, PTL DEF SimSpec, Spec

\* Whatever the handler interrupts, the queue of the process is sound.
THEOREM ProcessQueueSafe == SimSpec => []QueueInvariant
BY ProcessRunsEngine, QueueSafe, PTL

\* Events are served first come, first served in the whole process.
THEOREM ProcessServesInOrder == SimSpec => FirstComeFirstServed
BY ProcessRunsEngine, ServedInOrder, PTL

\* pBIOEntry is deleted by the step that ends the process, and no other.
FreedLast ==
    /\ "pBIOEntry" \in freed => main = "exited"
    /\ BlockLayerOutlivesThread

\* cleanup() of src/sim/main.cc deletes the block layer after the join, so the
\* progress thread never reports on a deleted one, wherever SIGINT strikes.
THEOREM BlockLayerSafe == SimSpec => []BlockLayerOutlivesThread
<1>1. SimInit => FreedLast
  BY DEF SimInit, FreedLast, BlockLayerOutlivesThread
<1>2. ASSUME FreedLast, [SimNext]_simVars
      PROVE  FreedLast'
  <2>1. CASE EngineStep
    BY <1>2, <2>1
    DEF EngineStep, process, FreedLast, BlockLayerOutlivesThread
  <2>2. CASE Signal
    BY <1>2, <2>2 DEF Signal, Alive, FreedLast, BlockLayerOutlivesThread
  <2>3. CASE Cleanup
    BY <1>2, <2>3
    DEF Cleanup, Lock, Statistics, Delete, Join, DeletedBeforeJoin, FreedLast,
        BlockLayerOutlivesThread
  <2>4. CASE Thread
    BY <1>2, <2>4
    DEF Thread, Wake, GetStat, GenProgress, BioProgress, Use, Alive, FreedLast,
        BlockLayerOutlivesThread
  <2>5. CASE UNCHANGED simVars
    BY <1>2, <2>5 DEF simVars, process, FreedLast, BlockLayerOutlivesThread
  <2> QED
    BY <1>2, <2>1, <2>2, <2>3, <2>4, <2>5 DEF SimNext, SimOver
<1>3. FreedLast => BlockLayerOutlivesThread
  BY DEF FreedLast
<1> QED
  BY <1>1, <1>2, <1>3, PTL DEF SimSpec

=============================================================================
