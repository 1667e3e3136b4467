----------------------------- MODULE PALProofs -----------------------------
(***************************************************************************)
(* Proofs about the flash scheduler, for every device, timing and division *)
(* into classes: the two loops of TimelineScheduling end, no tick of a     *)
(* channel or a die is given twice, and the time given is time enough.     *)
(*                                                                         *)
(* A timeline is tidy when its free slots are disjoint and end before its  *)
(* start point; there is room for an interval when it lies in a free slot  *)
(* of a class that a search of its length visits, or behind the start      *)
(* point.  FindFreeTime finds room, and finds the same room again; that is *)
(* what the loops compare.  InsertFreeSlot takes time out of that room     *)
(* and out of nothing else.                                                *)
(*                                                                         *)
(* The last section is about the layout of superblocks.                    *)
(***************************************************************************)
EXTENDS PAL, SeqLemmas

-----------------------------------------------------------------------------
(* Timelines *)

FreeSlot == [from : Nat, to : Nat]

Timelines(classes) == [free : [classes -> SUBSET FreeSlot], start : Nat,
                       failed : BOOLEAN]

\* The free slots are disjoint.
Apart(t) ==
    /\ \A k \in DOMAIN t.free : \A s \in t.free[k] : s.from <= s.to
    /\ \A k, l \in DOMAIN t.free : \A s \in t.free[k], r \in t.free[l] :
          Overlap(s, r) => k = l /\ s = r

EndBefore(t, tick) == \A k \in DOMAIN t.free : \A s \in t.free[k] : s.to < tick

Tidy(t) == Apart(t) /\ EndBefore(t, t.start) /\ t.failed = FALSE

\* No free slot meets the interval x.
Untouched(t, x) == \A k \in DOMAIN t.free : \A s \in t.free[k] : ~Overlap(s, x)

\* Nobody can be given a tick of x any more.
Taken(t, x) == Untouched(t, x) /\ x.to < t.start

\* The len ticks from tick "at" on are free, in what starts at "tick".
InSlot(t, len, at, tick) ==
    \E k \in Visited(t, len) : \E s \in t.free[k] :
        s.from = tick /\ s.from <= at /\ Fits(s, len, at)
Room(t, len, at, tick) ==
    \/ tick = t.start /\ t.start <= at
    \/ InSlot(t, len, at, tick)

\* The class of a length is the largest that is not longer.
LEMMA ClassOf ==
  ASSUME NEW classes \in SUBSET Positive, NEW t \in Timelines(classes), NEW len \in Nat
  PROVE  /\ Class(t, len) \in Nat /\ Class(t, len) <= len
         /\ Class(t, len) = 0 \/ Class(t, len) \in classes
         /\ \A k \in classes : k <= len => k <= Class(t, len)
<1> DEFINE K == {0} \cup {k \in DOMAIN t.free : k <= len}
           M == {k + 1 : k \in K}
<1>1. DOMAIN t.free = classes
  BY DEF Timelines
<1>2. \A k \in K : k \in Nat /\ k <= len
  BY <1>1 DEF Positive
<1>3. M \in SUBSET (1 .. len + 1) /\ M # {} /\ len + 1 \in Nat
  BY <1>2
<1>4. Max(M) \in M /\ \A y \in M : Max(M) >= y
  <2> HIDE DEF M
  <2> QED BY <1>3, MaxOfIndices
<1>5. PICK n \in K : Max(M) = n + 1
  BY <1>4
<1>6. \A k \in K : n >= k
  <2> SUFFICES ASSUME NEW k \in K PROVE n >= k
    OBVIOUS
  <2>1. k + 1 \in M
    OBVIOUS
  <2>2. n + 1 >= k + 1
    BY <1>4, <1>5, <2>1
  <2> QED
    BY <1>2, <2>2
<1>7. Max(K) \in K /\ \A k \in K : Max(K) >= k
  BY <1>6 DEF Max
<1>8. Class(t, len) = Max(K)
  BY DEF Class
<1> QED
  BY <1>1, <1>2, <1>7, <1>8

\* A longer search visits fewer classes.
LEMMA VisitedShrinks ==
  ASSUME NEW classes \in SUBSET Positive, NEW t \in Timelines(classes),
         NEW len \in Nat, NEW more \in Nat, len <= more
  PROVE  Visited(t, more) \subseteq Visited(t, len)
<1>1. DOMAIN t.free = classes /\ classes \subseteq Nat
  BY DEF Timelines, Positive
<1>2. /\ Class(t, len) \in Nat /\ Class(t, more) \in Nat
      /\ Class(t, len) = 0 \/ Class(t, len) \in classes
      /\ Class(t, len) <= len
      /\ \A k \in classes : k <= more => k <= Class(t, more)
  BY ClassOf
<1>3. Class(t, len) <= Class(t, more)
  BY <1>1, <1>2
<1> QED
  <2> SUFFICES ASSUME NEW k \in Visited(t, more) PROVE k \in Visited(t, len)
    OBVIOUS
  <2>1. k \in DOMAIN t.free /\ k \in Nat /\ k >= Class(t, more)
    BY <1>1 DEF Visited
  <2>2. k >= Class(t, len)
    BY <1>2, <1>3, <2>1
  <2> QED
    BY <2>1, <2>2 DEF Visited

LEMMA RoomForLess ==
  ASSUME NEW classes \in SUBSET Positive, NEW t \in Timelines(classes),
         NEW len \in Nat, NEW more \in Nat, len <= more, NEW at \in Nat, NEW tick,
         Room(t, more, at, tick)
  PROVE  Room(t, len, at, tick)
<1>1. CASE InSlot(t, more, at, tick)
  <2>1. PICK k \in Visited(t, more) : \E s \in t.free[k] :
           s.from = tick /\ s.from <= at /\ Fits(s, more, at)
    BY <1>1 DEF InSlot
  <2>2. PICK s \in t.free[k] : s.from = tick /\ s.from <= at /\ Fits(s, more, at)
    BY <2>1
  <2>3. k \in Visited(t, len) /\ k \in classes
    BY <2>1, VisitedShrinks DEF Visited, Timelines
  <2>4. s \in FreeSlot
    BY <2>3 DEF Timelines
  <2>5. Fits(s, len, at)
    BY <2>2, <2>4 DEF Fits, FreeSlot
  <2> QED
    BY <2>2, <2>3, <2>5 DEF Room, InSlot
<1> QED
  BY <1>1 DEF Room

\* The slots that a search looks at are free slots.
LEMMA Looked ==
  ASSUME NEW classes \in SUBSET Positive, NEW t \in Timelines(classes),
         NEW len \in Nat, NEW at \in Nat,
         NEW s \in Holding({t.free[k] : k \in Visited(t, len)}, len, at)
                  \cup Later({t.free[k] : k \in Visited(t, len)}, len, at)
  PROVE  /\ s \in FreeSlot
         /\ \E k \in Visited(t, len) : k \in DOMAIN t.free /\ s \in t.free[k]
<1>1. \E k \in Visited(t, len) : s \in t.free[k]
  BY DEF Holding, Later, Latest
<1> QED
  BY <1>1 DEF Visited, Timelines

\* Where there is room, FindFreeTime finds it.
LEMMA FoundAgain ==
  ASSUME NEW classes \in SUBSET Positive, NEW t \in Timelines(classes), Tidy(t),
         NEW len \in Positive, NEW at \in Nat, NEW tick, Room(t, len, at, tick)
  PROVE  Place(t, len, at).tick = tick /\ Place(t, len, at).from = at
<1> DEFINE V == {t.free[k] : k \in Visited(t, len)}
           H == Holding(V, len, at)
           L == Later(V, len, at)
<1>0. len \in Nat /\ len > 0 /\ t.start \in Nat
  BY DEF Positive, Timelines
<1>1. Place(t, len, at) = Placed(Found(H, L, t.start, at), at)
  BY DEF Place, FindFreeTime
<1>2. \A s \in H \cup L : s \in FreeSlot
        /\ \E k \in Visited(t, len) : k \in DOMAIN t.free /\ s \in t.free[k]
  BY <1>0, Looked
<1>3. (\A s \in H : Fits(s, len, at) /\ s.from <= at)
        /\ \A s \in L : s.from > at /\ Fits(s, len, s.from)
  BY DEF Holding, Latest, Later
<1>4. CASE tick = t.start /\ t.start <= at
  <2>1. \A s \in H \cup L : s.to < t.start
    BY <1>2 DEF Tidy, EndBefore
  <2>2. H = {}
    <3> SUFFICES ASSUME NEW s \in H PROVE FALSE
      OBVIOUS
    <3>1. s \in FreeSlot /\ s.to < t.start /\ s.to >= len + at - 1
      BY <1>2, <1>3, <2>1 DEF Fits
    <3> QED
      BY <1>0, <1>4, <3>1 DEF FreeSlot
  <2>3. L = {}
    <3> SUFFICES ASSUME NEW s \in L PROVE FALSE
      OBVIOUS
    <3>1. s \in FreeSlot /\ s.to < t.start /\ s.to >= len + s.from - 1 /\ s.from > at
      BY <1>2, <1>3, <2>1 DEF Fits
    <3> QED
      BY <1>0, <1>4, <3>1 DEF FreeSlot
  <2> DEFINE late == t.start > at
  <2>4. late = FALSE
    BY <1>0, <1>4
  <2> HIDE DEF H, L
  <2>5. Found(H, L, t.start, at) = [start |-> t.start, conflict |-> late]
    BY <2>2, <2>3 DEF Found
  <2> HIDE DEF late
  <2> QED
    BY <1>1, <1>4, <2>4, <2>5 DEF Placed
<1>5. CASE InSlot(t, len, at, tick)
  <2>1. PICK k \in Visited(t, len) : \E s \in t.free[k] :
           s.from = tick /\ s.from <= at /\ Fits(s, len, at)
    BY <1>5 DEF InSlot
  <2>2. PICK s \in t.free[k] : s.from = tick /\ s.from <= at /\ Fits(s, len, at)
    BY <2>1
  <2>3. k \in DOMAIN t.free /\ s \in FreeSlot
    BY <2>1 DEF Visited, Timelines
  <2>4. at <= s.to
    BY <1>0, <2>2, <2>3 DEF Fits, FreeSlot
  <2>5. \A l \in DOMAIN t.free : \A r \in t.free[l] :
           r \in FreeSlot /\ (r.from <= at /\ at <= r.to => r = s)
    <3> SUFFICES ASSUME NEW l \in DOMAIN t.free, NEW r \in t.free[l]
                 PROVE  r \in FreeSlot /\ (r.from <= at /\ at <= r.to => r = s)
      OBVIOUS
    <3>1. r \in FreeSlot
      BY DEF Timelines
    <3>2. r.from <= at /\ at <= r.to => Overlap(r, s)
      BY <2>2, <2>3, <2>4, <3>1 DEF Overlap, FreeSlot
    <3> QED
      BY <2>3, <3>1, <3>2 DEF Tidy, Apart
  <2>6. s \in Latest(t.free[k], at)
    <3> SUFFICES ASSUME NEW r \in t.free[k], r.from <= at PROVE r.from <= s.from
      BY <2>2 DEF Latest
    <3>1. r \in FreeSlot /\ r.from <= r.to /\ (Overlap(r, s) => r = s)
      BY <2>3, <2>5 DEF Tidy, Apart
    <3> QED
      BY <2>2, <2>3, <2>4, <3>1 DEF Overlap, FreeSlot
  <2>7. s \in H
    BY <2>1, <2>2, <2>6 DEF Holding
  <2>8. \A r \in H : r = s
    <3> SUFFICES ASSUME NEW r \in H PROVE r = s
      OBVIOUS
    <3>1. PICK l \in Visited(t, len) : l \in DOMAIN t.free /\ r \in t.free[l]
      BY <1>2
    <3>2. r \in FreeSlot /\ r.from <= at /\ r.to >= len + at - 1
      BY <1>2, <1>3 DEF Fits
    <3>3. at <= r.to
      BY <1>0, <3>2 DEF FreeSlot
    <3> QED
      BY <2>5, <3>1, <3>2, <3>3
  <2>9. Shortest(H) = s
    <3>1. Length(s) <= Length(s)
      BY <2>3 DEF Length, FreeSlot
    <3> HIDE DEF H
    <3> QED
      BY <2>7, <2>8, <3>1 DEF Shortest
  <2> HIDE DEF H, L
  <2> QED
    BY <1>1, <2>2, <2>7, <2>9 DEF Found, Placed
<1> QED
  BY <1>4, <1>5 DEF Room

\* A search finds room, not before the tick it starts from.
LEMMA FindsRoom ==
  ASSUME NEW classes \in SUBSET Positive, NEW t \in Timelines(classes), Tidy(t),
         NEW len \in Positive, NEW from \in Nat
  PROVE  LET p == Place(t, len, from)
         IN  /\ p.tick \in Nat /\ p.from \in Nat
             /\ p.tick <= p.from /\ from <= p.from
             /\ p.tick <= from => p.from = from
             /\ p.tick > from => p.from = p.tick
             /\ Room(t, len, p.from, p.tick)
             /\ t.start <= from => p.from = from
<1> DEFINE V == {t.free[k] : k \in Visited(t, len)}
           H == Holding(V, len, from)
           L == Later(V, len, from)
           p == Place(t, len, from)
<1>0. len \in Nat /\ len > 0 /\ t.start \in Nat
  BY DEF Positive, Timelines
<1>1. p = Placed(Found(H, L, t.start, from), from)
  BY DEF Place, FindFreeTime
<1>2. \A s \in H \cup L : s \in FreeSlot /\ s.from <= s.to
        /\ \E k \in Visited(t, len) : k \in DOMAIN t.free /\ s \in t.free[k]
  BY <1>0, Looked DEF Tidy, Apart
<1>3. (\A s \in H : Fits(s, len, from) /\ s.from <= from)
        /\ \A s \in L : s.from > from /\ Fits(s, len, s.from)
  BY DEF Holding, Latest, Later
<1>4. t.start <= from => p.from = from
  BY FoundAgain DEF Room
<1>5. CASE H # {}
  <2>1. Shortest(H) \in H
    <3> DEFINE N == {Length(s) : s \in H}
    <3>0. \A s \in H : Length(s) \in Nat
      BY <1>2 DEF Length, FreeSlot
    <3>1. N \in SUBSET Nat /\ N # {}
      <4> HIDE DEF H
      <4> QED BY <1>5, <3>0
    <3>2. PICK n \in N : \A j \in N : n <= j
      <4> HIDE DEF N
      <4> QED BY <3>1, LeastNat
    <3>3. PICK s \in H : n = Length(s)
      OBVIOUS
    <3>4. \A r \in H : Length(s) <= Length(r)
      BY <3>2, <3>3
    <3> HIDE DEF H
    <3> QED
      BY <3>4 DEF Shortest
  <2> DEFINE s == Shortest(H)
  <2>2. p.tick = s.from /\ p.from = from
    <3> HIDE DEF H, L
    <3> QED BY <1>1, <1>5 DEF Found, Placed
  <2>3. s \in FreeSlot /\ s.from <= from /\ Fits(s, len, from)
    BY <1>2, <1>3, <2>1
  <2>4. \E k \in Visited(t, len) : s \in t.free[k]
    BY <1>2, <2>1
  <2> HIDE DEF s, H, L, p
  <2>5. Room(t, len, from, s.from)
    BY <2>3, <2>4 DEF Room, InSlot
  <2> QED
    BY <2>2, <2>3, <2>5, <1>4 DEF FreeSlot, p
<1>6. CASE H = {} /\ L # {}
  <2> DEFINE F == {s.from : s \in L}
  <2>0. \A s \in L : s.from \in Nat
    BY <1>2 DEF FreeSlot
  <2>1. F \in SUBSET Nat /\ F # {}
    <3> HIDE DEF L
    <3> QED BY <1>6, <2>0
  <2>2. Min(F) \in F
    <3> HIDE DEF F
    <3> QED BY <2>1, MinOfNats
  <2>3. PICK s \in L : Min(F) = s.from
    BY <2>2
  <2>4. p.tick = s.from /\ p.from = s.from
    <3> HIDE DEF H, L
    <3> QED BY <1>1, <1>6, <2>3 DEF Found, Placed
  <2>5. s \in FreeSlot /\ s.from > from /\ Fits(s, len, s.from)
    BY <1>2, <1>3
  <2>6. \E k \in Visited(t, len) : s \in t.free[k]
    BY <1>2
  <2> HIDE DEF H, L, p
  <2>7. Room(t, len, s.from, s.from)
    BY <2>5, <2>6 DEF Room, InSlot, FreeSlot
  <2> QED
    BY <1>4, <2>4, <2>5, <2>7 DEF FreeSlot, p
<1>7. CASE H = {} /\ L = {}
  <2> DEFINE late == t.start > from
  <2>1. Found(H, L, t.start, from) = [start |-> t.start, conflict |-> late]
    <3> HIDE DEF H, L, late
    <3> QED BY <1>7 DEF Found, late
  <2>2. late \in BOOLEAN /\ (late = TRUE => t.start > from)
                        /\ (late = FALSE => t.start <= from)
    BY <1>0
  <2> HIDE DEF late, H, L
  <2>3. p.tick = t.start /\ (late = TRUE => p.from = t.start)
                         /\ (late = FALSE => p.from = from)
    BY <1>1, <2>1 DEF Placed
  <2>4. Room(t, len, p.from, p.tick)
    BY <1>0, <2>2, <2>3 DEF Room
  <2> HIDE DEF p
  <2> QED
    BY <1>0, <1>4, <2>2, <2>3, <2>4 DEF p
<1> QED
  BY <1>5, <1>6, <1>7

-----------------------------------------------------------------------------
(* Adding and taking *)

\* u is t with further free slots, all between lo and hi.
Grown(u, t, lo, hi) ==
    /\ u.start = t.start /\ u.failed = t.failed
    /\ \A k \in DOMAIN t.free :
          /\ t.free[k] \subseteq u.free[k]
          /\ \A s \in u.free[k] :
                s \in t.free[k] \/ (lo <= s.from /\ s.from <= s.to /\ s.to < hi)

\* The classes are all that Class and Visited depend on.
LEMMA SameClasses ==
  ASSUME NEW classes, NEW t \in Timelines(classes), NEW u \in Timelines(classes),
         NEW len
  PROVE  Class(t, len) = Class(u, len) /\ Visited(t, len) = Visited(u, len)
<1>1. DOMAIN t.free = DOMAIN u.free
  BY DEF Timelines
<1> QED
  BY <1>1 DEF Class, Visited

LEMMA SlotAdded ==
  ASSUME NEW classes \in SUBSET Positive, NEW t \in Timelines(classes), Apart(t),
         NEW from \in Nat, NEW len \in Positive, Untouched(t, Slot(from, len))
  PROVE  LET u == AddFreeSlot(t, len, from)
         IN  /\ u \in Timelines(classes) /\ Apart(u)
             /\ Grown(u, t, from, from + len)
             /\ Class(t, len) # 0 => Slot(from, len) \in u.free[Class(t, len)]
<1> DEFINE k == Class(t, len)
           new == Slot(from, len)
           u == AddFreeSlot(t, len, from)
<1>0. len \in Nat /\ len > 0 /\ DOMAIN t.free = classes /\ t.free \in [classes -> SUBSET FreeSlot]
  BY DEF Positive, Timelines
<1>1. k = 0 \/ k \in classes
  BY <1>0, ClassOf
<1>2. /\ new \in FreeSlot /\ new.from = from /\ new.to = from + len - 1
      /\ new.from <= new.to /\ new.to < from + len
  BY <1>0 DEF Slot, FreeSlot
<1>3. CASE k = 0
  <2>1. u = t
    BY <1>3 DEF AddFreeSlot
  <2> QED
    BY <1>3, <2>1 DEF Grown
<1>4. CASE k \in classes
  <2>0. k # 0
    BY <1>4 DEF Positive
  <2>1. ~\E s \in t.free[k] : s.from = from
    <3> SUFFICES ASSUME NEW s \in t.free[k], s.from = from PROVE FALSE
      OBVIOUS
    <3>1. s \in FreeSlot /\ s.from <= s.to /\ ~Overlap(s, new)
      BY <1>0, <1>4 DEF Apart, Untouched
    <3> QED
      BY <1>2, <3>1 DEF Overlap, FreeSlot
  <2>2. u = [t EXCEPT !.free[k] = @ \cup {new}]
    BY <2>0, <2>1 DEF AddFreeSlot
  <2> HIDE DEF new, k
  <2>3. /\ u.start = t.start /\ u.failed = t.failed
        /\ u.free = [t.free EXCEPT ![k] = @ \cup {new}]
    BY <2>2 DEF Timelines
  <2>4. u.free \in [classes -> SUBSET FreeSlot]
    BY <1>0, <1>2, <1>4, <2>3
  <2>5. u \in Timelines(classes)
    BY <2>2, <2>4 DEF Timelines
  <2>6. \A l \in classes : u.free[l] = IF l = k THEN t.free[k] \cup {new} ELSE t.free[l]
    BY <1>0, <1>4, <2>3
  <2>7. DOMAIN u.free = classes
    BY <2>4
  <2> HIDE DEF u
  <2>8. Apart(u)
    <3>1. \A l \in classes : \A s \in u.free[l] : s.from <= s.to
      BY <1>0, <1>2, <2>6 DEF Apart
    <3>2. ASSUME NEW l \in classes, NEW m \in classes, NEW s \in u.free[l],
                 NEW r \in u.free[m], Overlap(s, r)
          PROVE  l = m /\ s = r
      <4>1. (s \in t.free[l] \/ (s = new /\ l = k)) /\ (r \in t.free[m] \/ (r = new /\ m = k))
        BY <2>6
      <4>2. s \in t.free[l] => ~Overlap(s, new)
        BY <1>0 DEF Untouched, new
      <4>3. r \in t.free[m] => ~Overlap(r, new)
        BY <1>0 DEF Untouched, new
      <4>4. s \in FreeSlot /\ r \in FreeSlot
        BY <2>4
      <4>5. Overlap(r, s)
        BY <3>2, <4>4 DEF Overlap
      <4>6. CASE s \in t.free[l] /\ r \in t.free[m]
        BY <1>0, <3>2, <4>6 DEF Apart
      <4> QED
        BY <3>2, <4>1, <4>2, <4>3, <4>5, <4>6
    <3> QED
      BY <2>7, <3>1, <3>2 DEF Apart
  <2>9. Grown(u, t, from, from + len)
    BY <1>0, <1>2, <2>3, <2>6 DEF Grown
  <2>10. new \in u.free[k]
    BY <1>4, <2>6
  <2> QED
    BY <2>5, <2>8, <2>9, <2>10 DEF u, k, new
<1> QED
  BY <1>1, <1>3, <1>4

LEMMA KeepAdds ==
  ASSUME NEW classes \in SUBSET Positive, NEW t \in Timelines(classes), Apart(t),
         NEW from \in Nat, NEW len \in Positive, NEW split \in BOOLEAN,
         Untouched(t, Slot(from, len))
  PROVE  LET u == Keep(t, len, from, split)
         IN  /\ u \in Timelines(classes) /\ Apart(u)
             /\ Grown(u, t, from, from + len) /\ (split = FALSE => u = t)
<1>1. CASE split = TRUE
  BY <1>1, SlotAdded DEF Keep
<1>2. CASE split = FALSE
  <2>1. Keep(t, len, from, split) = t
    BY <1>2 DEF Keep
  <2> QED
    BY <2>1 DEF Grown
<1> QED
  BY <1>1, <1>2

LEMMA GapAdds ==
  ASSUME NEW classes \in SUBSET Positive, NEW t \in Timelines(classes), Apart(t),
         NEW from \in Nat, NEW to \in Nat,
         from < to => Untouched(t, Slot(from, to - from))
  PROVE  LET u == Gap(t, from, to)
         IN  /\ u \in Timelines(classes) /\ Apart(u) /\ Grown(u, t, from, to)
             /\ from < to /\ Class(t, to - from) # 0 =>
                   Slot(from, to - from) \in u.free[Class(t, to - from)]
<1>1. CASE from < to
  <2>1. to - from \in Positive /\ from + (to - from) = to
    BY <1>1 DEF Positive
  <2>2. Gap(t, from, to) = AddFreeSlot(t, to - from, from)
    BY <1>1 DEF Gap
  <2> QED
    BY <1>1, <2>1, <2>2, SlotAdded
<1>2. CASE ~(from < to)
  <2>1. Gap(t, from, to) = t
    BY <1>2 DEF Gap
  <2> QED
    BY <1>2, <2>1 DEF Grown
<1> QED
  BY <1>1, <1>2

\* What the new slots do not reach stays untouched.
LEMMA StaysUntouched ==
  ASSUME NEW classes, NEW t \in Timelines(classes), NEW u \in Timelines(classes),
         NEW lo \in Nat, NEW hi \in Nat, Grown(u, t, lo, hi),
         NEW x, x.from \in Int, x.to \in Int, x.to < lo \/ hi <= x.from, Untouched(t, x)
  PROVE  Untouched(u, x)
<1> SUFFICES ASSUME NEW k \in DOMAIN u.free, NEW s \in u.free[k], Overlap(s, x)
             PROVE  FALSE
  BY DEF Untouched
<1>1. k \in DOMAIN t.free /\ s \in FreeSlot
  BY DEF Timelines
<1>2. s \notin t.free[k]
  BY <1>1 DEF Untouched
<1>3. lo <= s.from /\ s.from <= s.to /\ s.to < hi
  BY <1>1, <1>2 DEF Grown
<1> QED
  BY <1>1, <1>3 DEF Overlap, FreeSlot

\* What InsertFreeSlot promises of t where there was room: the interval is
\* taken, nothing that was taken is free again, and room behind it is still
\* room if what is left is no shorter than some class.
Took(t, u, len, at, split) ==
    /\ Tidy(u)
    /\ t.start <= u.start /\ at + len <= u.start
    /\ split = FALSE => Untouched(u, Slot(at, len))
    /\ \A x \in FreeSlot : x.from <= x.to /\ Taken(t, x) =>
          Taken(u, x) /\ ~Overlap(x, Slot(at, len))
    /\ \A more \in Positive, after \in Nat, tick \in Nat :
          /\ Room(t, more, after, tick) /\ at + len <= after
          /\ \E k \in DOMAIN t.free : k <= after + more - (at + len)
          => \E other \in Nat : Room(u, more, after, other)

LEMMA TailTaken ==
  ASSUME NEW classes \in SUBSET Positive, NEW t \in Timelines(classes), Tidy(t),
         NEW len \in Positive, NEW at \in Nat, t.start <= at, NEW split \in BOOLEAN
  PROVE  LET u == TakeFromTail(t, len, at, t.start, split)
         IN  u \in Timelines(classes) /\ Took(t, u, len, at, split)
<1> DEFINE v == Keep(t, len, at, split)
           w == Gap(v, t.start, at)
           u == TakeFromTail(t, len, at, t.start, split)
           me == Slot(at, len)
<1>0. /\ len \in Nat /\ len > 0 /\ t.start \in Nat /\ DOMAIN t.free = classes
      /\ me.from = at /\ me.to = at + len - 1
  BY DEF Positive, Timelines, Slot
<1>1. \A k \in classes : \A s \in t.free[k] : s \in FreeSlot /\ s.to < t.start
  BY <1>0 DEF Tidy, EndBefore, Timelines
<1>2. ASSUME NEW x, x.from \in Int, x.to \in Int, t.start <= x.from
      PROVE  Untouched(t, x)
  <2> SUFFICES ASSUME NEW k \in classes, NEW s \in t.free[k], Overlap(s, x)
               PROVE  FALSE
    BY <1>0 DEF Untouched
  <2>1. s.from \in Nat /\ s.to \in Nat /\ s.to < t.start
    BY <1>1 DEF FreeSlot
  <2> QED
    BY <1>0, <1>2, <2>1 DEF Overlap
<1>3. Untouched(t, me) /\ Apart(t)
  BY <1>0, <1>2 DEF Tidy
<1>4. /\ v \in Timelines(classes) /\ Apart(v) /\ Grown(v, t, at, at + len)
      /\ split = FALSE => v = t
  BY <1>3, KeepAdds
<1>5. t.start < at => Untouched(v, Slot(t.start, at - t.start))
  <2> SUFFICES ASSUME t.start < at PROVE Untouched(v, Slot(t.start, at - t.start))
    OBVIOUS
  <2> DEFINE g == Slot(t.start, at - t.start)
  <2>1. g.from = t.start /\ g.to = at - 1
    BY <1>0 DEF Slot
  <2> HIDE DEF g, v
  <2>2. Untouched(t, g)
    BY <1>0, <1>2, <2>1
  <2>3. g.from \in Int /\ g.to \in Int /\ g.to < at /\ at + len \in Nat
    BY <1>0, <2>1
  <2>4. Untouched(v, g)
    BY <1>4, <2>2, <2>3, StaysUntouched
  <2> QED
    BY <2>4 DEF g
<1>6. w \in Timelines(classes) /\ Apart(w) /\ Grown(w, v, t.start, at)
  <2> HIDE DEF v
  <2> QED BY <1>0, <1>4, <1>5, GapAdds
<1> HIDE DEF v, w
<1>7. /\ u = [w EXCEPT !.start = at + len, !.failed = @ \/ at < t.start]
      /\ (at < t.start) = FALSE /\ w.failed = FALSE
  BY <1>0, <1>4, <1>6 DEF TakeFromTail, Grown, Tidy, v, w
<1>8. /\ u.free = w.free /\ u.start = at + len /\ u.failed = FALSE
      /\ u \in Timelines(classes)
  <2> DEFINE b == at < t.start
  <2>1. u = [w EXCEPT !.start = at + len, !.failed = @ \/ b] /\ b = FALSE
    BY <1>7
  <2> HIDE DEF b, u
  <2>2. (w.failed \/ b) = FALSE
    BY <1>7, <2>1
  <2>3. u = [free |-> w.free, start |-> at + len, failed |-> FALSE]
    BY <1>6, <2>1, <2>2 DEF Timelines
  <2>4. w.free \in [classes -> SUBSET FreeSlot] /\ at + len \in Nat
    BY <1>0, <1>6 DEF Timelines
  <2> QED
    BY <2>3, <2>4 DEF Timelines
<1> HIDE DEF u
<1>9. \A k \in classes : \A s \in u.free[k] :
         /\ s \in FreeSlot
         /\ \/ s \in t.free[k]
            \/ at <= s.from /\ s.to < at + len /\ split = TRUE
            \/ t.start <= s.from /\ s.to < at
  <2> SUFFICES ASSUME NEW k \in classes, NEW s \in u.free[k]
               PROVE  /\ s \in FreeSlot
                      /\ \/ s \in t.free[k]
                         \/ at <= s.from /\ s.to < at + len /\ split = TRUE
                         \/ t.start <= s.from /\ s.to < at
    OBVIOUS
  <2>1. s \in FreeSlot /\ k \in DOMAIN v.free
    BY <1>4, <1>8 DEF Timelines
  <2>2. s \in v.free[k] \/ (t.start <= s.from /\ s.to < at)
    BY <1>6, <1>8, <2>1 DEF Grown
  <2>3. s \in v.free[k] => s \in t.free[k] \/ (at <= s.from /\ s.to < at + len /\ split = TRUE)
    BY <1>0, <1>4 DEF Grown
  <2> QED
    BY <2>1, <2>2, <2>3
<1>10. Tidy(u)
  <2>1. Apart(u)
    BY <1>6, <1>8 DEF Apart
  <2>2. ASSUME NEW k \in classes, NEW s \in u.free[k] PROVE s.to < u.start
    <3>1. s \in t.free[k] => s.to < t.start
      BY <1>1
    <3>2. s \in FreeSlot
      BY <1>9
    <3> QED
      BY <1>0, <1>8, <1>9, <3>1, <3>2 DEF FreeSlot
  <2>3. DOMAIN u.free = classes
    BY <1>8 DEF Timelines
  <2> QED
    BY <1>8, <2>1, <2>2, <2>3 DEF Tidy, EndBefore
<1>11. ASSUME split = FALSE PROVE Untouched(u, me)
  <2> SUFFICES ASSUME NEW k \in classes, NEW s \in u.free[k], Overlap(s, me)
               PROVE  FALSE
    BY <1>8 DEF Untouched, Timelines
  <2>1. s \in FreeSlot /\ (s \in t.free[k] \/ (t.start <= s.from /\ s.to < at))
    BY <1>9, <1>11
  <2>2. s \notin t.free[k]
    BY <1>0, <1>3 DEF Untouched
  <2> QED
    BY <1>0, <2>1, <2>2 DEF Overlap, FreeSlot
<1>12. ASSUME NEW x \in FreeSlot, x.from <= x.to, Taken(t, x)
       PROVE  Taken(u, x) /\ ~Overlap(x, me)
  <2>1. x.to < t.start /\ x.from \in Nat /\ x.to \in Nat
    BY <1>12 DEF Taken, FreeSlot
  <2>2. ~Overlap(x, me) /\ x.to < u.start
    BY <1>0, <1>8, <2>1 DEF Overlap
  <2>3. ASSUME NEW k \in classes, NEW s \in u.free[k] PROVE ~Overlap(s, x)
    <3>1. s \in t.free[k] => ~Overlap(s, x)
      BY <1>0, <1>12 DEF Taken, Untouched
    <3>2. s \in FreeSlot /\ (s \in t.free[k] \/ t.start <= s.from)
      BY <1>0, <1>9 DEF FreeSlot
    <3> QED
      BY <1>0, <2>1, <3>1, <3>2 DEF Overlap, FreeSlot
  <2> QED
    BY <1>8, <2>2, <2>3 DEF Taken, Untouched, Timelines
<1>13. ASSUME NEW more \in Positive, NEW after \in Nat, at + len <= after
       PROVE  Room(u, more, after, u.start)
  BY <1>8, <1>13 DEF Room
<1>14. t.start <= u.start /\ at + len <= u.start /\ u.start \in Nat
  BY <1>0, <1>8
<1> QED
  BY <1>8, <1>10, <1>11, <1>12, <1>13, <1>14 DEF Took, u

LEMMA SlotTaken ==
  ASSUME NEW classes \in SUBSET Positive, NEW t \in Timelines(classes), Tidy(t),
         NEW len \in Positive, NEW at \in Nat, NEW split \in BOOLEAN,
         NEW k \in classes, NEW slot \in t.free[k], slot.from <= at,
         Fits(slot, len, at)
  PROVE  LET u == TakeFromSlot(t, k, slot, len, at, split)
         IN  u \in Timelines(classes) /\ Took(t, u, len, at, split)
<1> DEFINE bad == slot.from > at \/ ~Fits(slot, len, at)
           out == [t EXCEPT !.free[k] = @ \ {slot}, !.failed = @ \/ bad]
           v == Gap(out, slot.from, at)
           w == Keep(v, len, at, split)
           u == Gap(w, at + len, slot.to + 1)
           me == Slot(at, len)
<1>0. /\ len \in Nat /\ len > 0 /\ t.start \in Nat /\ DOMAIN t.free = classes
      /\ me.from = at /\ me.to = at + len - 1
  BY DEF Positive, Timelines, Slot
<1>1. /\ slot \in FreeSlot /\ slot.from \in Nat /\ slot.to \in Nat
      /\ slot.from <= slot.to /\ slot.to < t.start /\ at + len <= slot.to + 1
  <2>1. slot \in FreeSlot
    BY DEF Timelines
  <2>2. slot.from \in Nat /\ slot.to \in Nat
    BY <2>1 DEF FreeSlot
  <2>3. slot.from <= slot.to /\ slot.to < t.start
    BY <1>0 DEF Tidy, Apart, EndBefore
  <2> QED
    BY <1>0, <2>1, <2>2, <2>3 DEF Fits
<1>2. TakeFromSlot(t, k, slot, len, at, split) = u
  BY DEF TakeFromSlot
<1>3. /\ out \in Timelines(classes) /\ out.start = t.start /\ out.failed = FALSE
      /\ \A l \in classes : out.free[l] = IF l = k THEN t.free[k] \ {slot} ELSE t.free[l]
  <2>1. bad = FALSE
    BY <1>1
  <2> HIDE DEF bad
  <2> DEFINE fr == [t.free EXCEPT ![k] = @ \ {slot}]
             fl == t.failed \/ bad
  <2>2. fl = FALSE
    BY <2>1 DEF Tidy
  <2>3. out = [t EXCEPT !.free = fr, !.failed = fl]
    OBVIOUS
  <2>4. t.free \in [classes -> SUBSET FreeSlot]
    BY DEF Timelines
  <2>5. /\ fr \in [classes -> SUBSET FreeSlot]
        /\ \A l \in classes : fr[l] = IF l = k THEN t.free[k] \ {slot} ELSE t.free[l]
    BY <2>4
  <2> HIDE DEF out, fr, fl
  <2>6. out = [free |-> fr, start |-> t.start, failed |-> FALSE]
    BY <2>2, <2>3 DEF Timelines
  <2> QED
    BY <1>0, <2>5, <2>6 DEF Timelines
<1> HIDE DEF bad, out
<1>4. DOMAIN out.free = classes /\ \A l \in classes : out.free[l] \subseteq t.free[l]
  BY <1>3 DEF Timelines
<1>5. Apart(out)
  BY <1>0, <1>4 DEF Tidy, Apart
<1>6. ASSUME NEW x, x.from \in Int, x.to \in Int, slot.from <= x.from, x.to <= slot.to
      PROVE  Untouched(out, x)
  <2> SUFFICES ASSUME NEW l \in classes, NEW s \in out.free[l], Overlap(s, x)
               PROVE  FALSE
    BY <1>4 DEF Untouched
  <2>1. s \in t.free[l] /\ s \in FreeSlot /\ (l = k => s # slot)
    BY <1>3, <1>4 DEF Timelines
  <2>2. Overlap(s, slot)
    BY <1>1, <1>6, <2>1 DEF Overlap, FreeSlot
  <2> QED
    BY <1>0, <2>1, <2>2 DEF Tidy, Apart
<1>7. v \in Timelines(classes) /\ Apart(v) /\ Grown(v, out, slot.from, at)
  <2>1. slot.from < at => Untouched(out, Slot(slot.from, at - slot.from))
    <3> DEFINE g == Slot(slot.from, at - slot.from)
    <3>1. g.from = slot.from /\ g.to = at - 1
      BY <1>1 DEF Slot
    <3> HIDE DEF g
    <3>2. Untouched(out, g)
      BY <1>0, <1>1, <1>6, <3>1
    <3> QED
      BY <3>2 DEF g
  <2> QED
    BY <1>1, <1>3, <1>5, <2>1, GapAdds
<1> HIDE DEF v
<1>8. Untouched(v, me)
  <2> HIDE DEF me
  <2>1. Untouched(out, me)
    BY <1>0, <1>1, <1>6
  <2>2. me.from \in Int /\ me.to \in Int /\ at <= me.from
    BY <1>0
  <2> QED
    BY <1>1, <1>3, <1>7, <2>1, <2>2, StaysUntouched
<1>9. /\ w \in Timelines(classes) /\ Apart(w) /\ Grown(w, v, at, at + len)
      /\ split = FALSE => w = v
  BY <1>7, <1>8, KeepAdds
<1> HIDE DEF w
<1> DEFINE rest == Slot(at + len, (slot.to + 1) - (at + len))
<1>10. /\ rest.from = at + len /\ rest.to = slot.to
       /\ at + len \in Nat /\ slot.to + 1 \in Nat
  BY <1>0, <1>1 DEF Slot
<1>11. at + len < slot.to + 1 => Untouched(w, rest)
  <2> SUFFICES ASSUME at + len < slot.to + 1 PROVE Untouched(w, rest)
    OBVIOUS
  <2> HIDE DEF rest
  <2>1. Untouched(out, rest)
    BY <1>0, <1>1, <1>6, <1>10
  <2>2. rest.from \in Int /\ rest.to \in Int /\ at <= rest.from /\ at + len <= rest.from
    BY <1>0, <1>1, <1>10
  <2>3. Untouched(v, rest)
    BY <1>1, <1>3, <1>7, <2>1, <2>2, StaysUntouched
  <2> QED
    BY <1>7, <1>9, <1>10, <2>2, <2>3, StaysUntouched
<1>12. /\ u \in Timelines(classes) /\ Apart(u) /\ Grown(u, w, at + len, slot.to + 1)
       /\ at + len < slot.to + 1 /\ Class(w, (slot.to + 1) - (at + len)) # 0 =>
             rest \in u.free[Class(w, (slot.to + 1) - (at + len))]
  BY <1>9, <1>10, <1>11, GapAdds
<1> HIDE DEF u, rest
<1>13. u.start = t.start /\ u.failed = FALSE /\ DOMAIN u.free = classes
  BY <1>3, <1>7, <1>9, <1>12 DEF Grown, Timelines
<1>14. \A l \in classes : \A s \in u.free[l] :
          /\ s \in FreeSlot
          /\ \/ s \in out.free[l]
             \/ slot.from <= s.from /\ s.to < at
             \/ at <= s.from /\ s.to < at + len /\ split = TRUE
             \/ at + len <= s.from /\ s.to <= slot.to
  <2> SUFFICES ASSUME NEW l \in classes, NEW s \in u.free[l]
               PROVE  /\ s \in FreeSlot
                      /\ \/ s \in out.free[l]
                         \/ slot.from <= s.from /\ s.to < at
                         \/ at <= s.from /\ s.to < at + len /\ split = TRUE
                         \/ at + len <= s.from /\ s.to <= slot.to
    OBVIOUS
  <2>1. s \in FreeSlot /\ DOMAIN w.free = classes /\ DOMAIN v.free = classes
    BY <1>7, <1>9, <1>12 DEF Timelines
  <2>2. s \in w.free[l] \/ (at + len <= s.from /\ s.to <= slot.to)
    BY <1>1, <1>12, <2>1 DEF Grown, FreeSlot
  <2>3. s \in w.free[l] => s \in v.free[l] \/ (at <= s.from /\ s.to < at + len /\ split = TRUE)
    BY <1>9, <2>1 DEF Grown
  <2>4. s \in v.free[l] => s \in out.free[l] \/ (slot.from <= s.from /\ s.to < at)
    BY <1>4, <1>7 DEF Grown
  <2> QED
    BY <2>1, <2>2, <2>3, <2>4
<1>15. \A l \in classes : out.free[l] \subseteq u.free[l]
  BY <1>4, <1>7, <1>9, <1>12 DEF Grown, Timelines
<1>16. \A l \in classes : \A s \in u.free[l] :
          s \notin out.free[l] => slot.from <= s.from /\ s.to <= slot.to
  <2> SUFFICES ASSUME NEW l \in classes, NEW s \in u.free[l], s \notin out.free[l]
               PROVE  slot.from <= s.from /\ s.to <= slot.to
    OBVIOUS
  <2>1. s.from \in Nat /\ s.to \in Nat
    BY <1>14 DEF FreeSlot
  <2> QED
    BY <1>0, <1>1, <1>14, <2>1
<1>17. Tidy(u)
  <2>1. ASSUME NEW l \in classes, NEW s \in u.free[l] PROVE s.to < u.start
    <3>1. s \in out.free[l] => s.to < t.start
      BY <1>0, <1>4 DEF Tidy, EndBefore
    <3>2. s \in FreeSlot
      BY <1>14
    <3> QED
      BY <1>1, <1>0, <1>13, <1>16, <3>1, <3>2 DEF FreeSlot
  <2> QED
    BY <1>12, <1>13, <2>1 DEF Tidy, EndBefore
<1>18. ASSUME split = FALSE PROVE Untouched(u, me)
  <2> SUFFICES ASSUME NEW l \in classes, NEW s \in u.free[l], Overlap(s, me)
               PROVE  FALSE
    BY <1>13 DEF Untouched
  <2> HIDE DEF me
  <2>1. Untouched(out, me)
    BY <1>0, <1>1, <1>6
  <2>2. s \notin out.free[l]
    BY <1>4, <2>1 DEF Untouched
  <2>3. s \in FreeSlot /\ (s.to < at \/ at + len <= s.from)
    BY <1>14, <1>18, <2>2
  <2> QED
    BY <1>0, <2>3 DEF Overlap, FreeSlot
<1>19. ASSUME NEW x \in FreeSlot, x.from <= x.to, Taken(t, x)
       PROVE  Taken(u, x) /\ ~Overlap(x, me)
  <2>1. /\ x.from \in Nat /\ x.to \in Nat /\ x.to < t.start
        /\ \A l \in classes : \A s \in t.free[l] : ~Overlap(s, x)
    BY <1>0, <1>19 DEF Taken, Untouched, FreeSlot
  <2>2. ~Overlap(slot, x)
    BY <2>1
  <2>3. ~Overlap(x, me)
    BY <1>0, <1>1, <1>19, <2>1, <2>2 DEF Overlap
  <2>4. ASSUME NEW l \in classes, NEW s \in u.free[l] PROVE ~Overlap(s, x)
    <3>1. s \in out.free[l] => ~Overlap(s, x)
      BY <1>4, <2>1
    <3>2. s \in FreeSlot
      BY <1>14
    <3> QED
      BY <1>1, <1>16, <1>19, <2>1, <2>2, <3>1, <3>2 DEF Overlap, FreeSlot
  <2> QED
    BY <1>13, <2>1, <2>3, <2>4 DEF Taken, Untouched
<1>20. ASSUME NEW more \in Positive, NEW after \in Nat, NEW tick \in Nat,
              Room(t, more, after, tick), at + len <= after,
              \E l \in classes : l <= after + more - (at + len)
       PROVE  \E other \in Nat : Room(u, more, after, other)
  <2>0. more \in Nat /\ more > 0
    BY DEF Positive
  <2>1. CASE tick = t.start /\ t.start <= after
    BY <1>0, <1>13, <2>1 DEF Room
  <2>2. CASE InSlot(t, more, after, tick)
    <3>1. PICK l \in Visited(t, more) : \E s \in t.free[l] :
             s.from = tick /\ s.from <= after /\ Fits(s, more, after)
      BY <2>2 DEF InSlot
    <3>2. PICK s \in t.free[l] : s.from = tick /\ s.from <= after /\ Fits(s, more, after)
      BY <3>1
    <3>3. l \in classes /\ Visited(u, more) = Visited(t, more)
      BY <1>0, <1>12, <3>1, SameClasses DEF Visited
    <3>4. CASE s \in out.free[l]
      <4>1. s \in u.free[l]
        BY <1>15, <3>3, <3>4
      <4> QED
        BY <3>1, <3>2, <3>3, <4>1 DEF Room, InSlot
    <3>5. CASE s \notin out.free[l]
      <4>1. l = k /\ s = slot
        BY <1>3, <3>3, <3>5
      <4> DEFINE n == (slot.to + 1) - (at + len)
      <4>2. /\ slot.to >= more + after - 1
            /\ n \in Nat /\ more <= n /\ after + more - (at + len) <= n
        BY <1>0, <1>1, <1>20, <2>0, <3>2, <4>1 DEF Fits
      <4> HIDE DEF n
      <4>3. /\ Class(w, n) \in Nat /\ (Class(w, n) = 0 \/ Class(w, n) \in classes)
            /\ \A j \in classes : j <= n => j <= Class(w, n)
        BY <1>9, <4>2, ClassOf
      <4>4. Class(w, n) # 0
        <5>1. PICK j \in classes : j <= after + more - (at + len)
          BY <1>20
        <5>2. j \in Nat /\ j # 0
          BY DEF Positive
        <5>3. j <= n
          BY <1>0, <2>0, <4>2, <5>1, <5>2
        <5> QED
          BY <4>3, <5>2, <5>3
      <4>5. rest \in u.free[Class(w, n)]
        <5>1. at + len < slot.to + 1
          BY <1>0, <1>1, <2>0, <4>2 DEF n
        <5> QED
          BY <1>12, <4>4, <5>1 DEF n
      <4>6. Class(w, n) \in Visited(u, more)
        <5>1. Class(u, more) = Class(w, more) /\ Class(w, more) <= more
              /\ Class(w, more) \in Nat
              /\ (Class(w, more) = 0 \/ Class(w, more) \in classes)
          BY <1>9, <1>12, <2>0, ClassOf, SameClasses
        <5>2. Class(w, more) <= Class(w, n)
          BY <2>0, <4>2, <4>3, <5>1 DEF Positive
        <5> QED
          BY <1>13, <4>3, <4>4, <5>1, <5>2 DEF Visited
      <4>7. rest.from <= after /\ Fits(rest, more, after)
        BY <1>10, <1>20, <4>2 DEF Fits
      <4>8. Room(u, more, after, rest.from)
        BY <4>5, <4>6, <4>7 DEF Room, InSlot
      <4> QED
        BY <1>10, <4>8
    <3> QED
      BY <3>4, <3>5
  <2> QED
    BY <1>20, <2>1, <2>2 DEF Room
<1>21. t.start <= u.start /\ at + len <= u.start
  BY <1>0, <1>1, <1>13
<1>22. Took(t, u, len, at, split)
  BY <1>0, <1>17, <1>18, <1>19, <1>20, <1>21 DEF Took
<1> QED
  BY <1>2, <1>12, <1>22

\* InsertFreeSlot takes the room that it is told of.
LEMMA Inserts ==
  ASSUME NEW classes \in SUBSET Positive, NEW t \in Timelines(classes), Tidy(t),
         NEW len \in Positive, NEW at \in Nat, NEW tick, NEW split \in BOOLEAN,
         Room(t, len, at, tick)
  PROVE  LET u == InsertFreeSlot(t, len, at, tick, split)
         IN  u \in Timelines(classes) /\ Took(t, u, len, at, split)
<1>1. CASE tick = t.start /\ t.start <= at
  BY <1>1, TailTaken DEF InsertFreeSlot
<1>2. CASE InSlot(t, len, at, tick)
  <2> DEFINE K == {k \in Visited(t, len) : \E s \in t.free[k] : s.from = tick}
             k == Min(K)
             slot == CHOOSE s \in t.free[k] : s.from = tick
  <2>1. PICK l \in Visited(t, len) : \E s \in t.free[l] :
           s.from = tick /\ s.from <= at /\ Fits(s, len, at)
    BY <1>2 DEF InSlot
  <2>2. PICK r \in t.free[l] : r.from = tick /\ r.from <= at /\ Fits(r, len, at)
    BY <2>1
  <2>3. l \in K
    BY <2>1, <2>2
  <2>4. Visited(t, len) \subseteq classes /\ DOMAIN t.free = classes /\ l \in classes
    BY <2>1 DEF Visited, Timelines
  <2>5. K \in SUBSET Nat
    BY <2>4 DEF Positive
  <2>6. k \in K
    <3> HIDE DEF K
    <3> QED BY <2>3, <2>5, MinOfNats
  <2>7. k \in classes /\ slot \in t.free[k] /\ slot.from = tick
    BY <2>4, <2>6
  <2> HIDE DEF slot, k
  <2>8. slot \in FreeSlot /\ r \in FreeSlot
    BY <2>4, <2>7 DEF Timelines
  <2>9. slot.from <= slot.to /\ r.from <= r.to /\ slot.to < t.start
    BY <2>4, <2>7 DEF Tidy, Apart, EndBefore
  <2>10. Overlap(slot, r)
    BY <2>2, <2>7, <2>8, <2>9 DEF Overlap, FreeSlot
  <2>11. slot = r
    BY <2>4, <2>7, <2>10 DEF Tidy, Apart
  <2>12. tick # t.start /\ K # {}
    BY <2>3, <2>7, <2>8, <2>9 DEF FreeSlot, Timelines
  <2>13. InsertFreeSlot(t, len, at, tick, split) = TakeFromSlot(t, k, slot, len, at, split)
    BY <2>12 DEF InsertFreeSlot, TakeNamed, k, slot
  <2> QED
    BY <2>2, <2>7, <2>11, <2>13, SlotTaken
<1> QED
  BY <1>1, <1>2 DEF Room

LEMMA RoomBehind ==
  ASSUME NEW classes \in SUBSET Positive, NEW t \in Timelines(classes),
         NEW len \in Positive, NEW gap \in Nat, NEW at \in Nat, NEW tick,
         Room(t, len + gap, at, tick)
  PROVE  Room(t, len, at + gap, tick)
<1>0. len \in Nat /\ len + gap \in Nat /\ len <= len + gap /\ t.start \in Nat
  BY DEF Positive, Timelines
<1>1. CASE tick = t.start /\ t.start <= at
  BY <1>0, <1>1 DEF Room
<1>2. CASE InSlot(t, len + gap, at, tick)
  <2>1. PICK k \in Visited(t, len + gap) : \E s \in t.free[k] :
           s.from = tick /\ s.from <= at /\ Fits(s, len + gap, at)
    BY <1>2 DEF InSlot
  <2>2. PICK s \in t.free[k] : s.from = tick /\ s.from <= at /\ Fits(s, len + gap, at)
    BY <2>1
  <2>3. k \in Visited(t, len) /\ k \in classes
    BY <1>0, <2>1, VisitedShrinks DEF Visited, Timelines
  <2>4. s.from \in Nat /\ s.to \in Nat
    BY <2>3 DEF Timelines, FreeSlot
  <2>5. s.from <= at + gap /\ Fits(s, len, at + gap)
    BY <1>0, <2>2, <2>4 DEF Fits
  <2> QED
    BY <2>2, <2>3, <2>5 DEF Room, InSlot
<1> QED
  BY <1>1, <1>2 DEF Room

-----------------------------------------------------------------------------
(* The loops *)

\* A loop over ticks that moves forward and ends at N at the latest: the
\* recursive function exists, and its value is that of a last turn.
Looping(f, Ends, R, G) ==
    f = [n \in Nat |-> IF n \in Ends THEN R[n] ELSE f[G[n]]]

Forward(N, Ends, G) ==
    \A n \in Nat : n \notin Ends => n < N /\ G[n] \in Nat /\ n < G[n]

LEMMA LoopExists ==
  ASSUME NEW N \in Nat, NEW Ends, NEW R, NEW G, Forward(N, Ends, G)
  PROVE  \E f : Looping(f, Ends, R, G)
<1> DEFINE D(k) == {n \in Nat : N <= n + k}
           Good(f, k) == /\ DOMAIN f = D(k)
                         /\ f = [n \in D(k) |-> IF n \in Ends THEN R[n] ELSE f[G[n]]]
           T == {k \in Nat : ~\E f : Good(f, k)}
<1>1. 0 \notin T
  <2> DEFINE f == [n \in D(0) |-> R[n]]
  <2>1. \A n \in D(0) : n \in Ends
    BY DEF Forward
  <2> HIDE DEF D
  <2>2. Good(f, 0)
    BY <2>1
  <2> QED
    BY <2>2
<1>2. ASSUME NEW k \in Nat, k \notin T PROVE k + 1 \notin T
  <2>1. PICK f : Good(f, k)
    BY <1>2
  <2> DEFINE g == [n \in D(k + 1) |-> IF n \in Ends THEN R[n] ELSE f[G[n]]]
  <2>2. \A n \in D(k + 1) : n \notin Ends => G[n] \in D(k)
    BY DEF Forward
  <2>3. D(k) \subseteq D(k + 1)
    OBVIOUS
  <2> HIDE DEF D
  <2>4. \A n \in D(k) : g[n] = f[n]
    BY <2>1, <2>3
  <2>5. Good(g, k + 1)
    BY <2>2, <2>4
  <2> QED
    BY <2>5
<1>3. T = {}
  <2> SUFFICES ASSUME T # {} PROVE FALSE
    OBVIOUS
  <2>1. T \in SUBSET Nat
    OBVIOUS
  <2> HIDE DEF T
  <2>2. PICK m \in T : \A k \in T : m <= k
    BY <2>1, LeastNat
  <2>3. m \in Nat /\ m # 0
    BY <1>1, <2>1
  <2>4. m - 1 \in Nat /\ m - 1 \notin T
    BY <2>2, <2>3
  <2>5. (m - 1) + 1 \notin T
    BY <1>2, <2>4
  <2> QED
    BY <2>3, <2>5
<1>4. PICK f : Good(f, N)
  BY <1>3
<1>5. D(N) = Nat
  OBVIOUS
<1> QED
  BY <1>4, <1>5 DEF Looping

LEMMA LoopEnds ==
  ASSUME NEW N \in Nat, NEW Ends, NEW R, NEW G, Forward(N, Ends, G),
         NEW f, Looping(f, Ends, R, G), NEW from \in Nat
  PROVE  \E n \in Nat : n \in Ends /\ from <= n /\ f[from] = R[n]
<1> DEFINE P(n) == \E m \in Nat : m \in Ends /\ n <= m /\ f[n] = R[m]
           T == {k \in Nat : \E n \in Nat : N <= n + k /\ ~P(n)}
<1>0. ASSUME NEW n \in Nat PROVE f[n] = IF n \in Ends THEN R[n] ELSE f[G[n]]
  BY DEF Looping
<1>1. ASSUME NEW k \in T PROVE \E j \in T : j < k
  <2>1. PICK n \in Nat : N <= n + k /\ ~P(n)
    OBVIOUS
  <2>2. n \notin Ends
    BY <1>0, <2>1
  <2>3. n < N /\ G[n] \in Nat /\ n < G[n] /\ f[n] = f[G[n]]
    BY <1>0, <2>2 DEF Forward
  <2>4. ~P(G[n])
    <3> SUFFICES ASSUME P(G[n]) PROVE FALSE
      OBVIOUS
    <3>1. PICK m \in Nat : m \in Ends /\ G[n] <= m /\ f[G[n]] = R[m]
      OBVIOUS
    <3> QED
      BY <2>1, <2>3, <3>1
  <2>5. k \in Nat /\ k - 1 \in Nat /\ N <= G[n] + (k - 1)
    BY <2>1, <2>3
  <2>6. k - 1 \in T
    <3> HIDE DEF P
    <3> QED BY <2>3, <2>4, <2>5
  <2> QED
    BY <2>5, <2>6
<1>2. T = {}
  <2> SUFFICES ASSUME T # {} PROVE FALSE
    OBVIOUS
  <2>1. T \in SUBSET Nat
    OBVIOUS
  <2> HIDE DEF T
  <2>2. PICK m \in T : \A k \in T : m <= k
    BY <2>1, LeastNat
  <2>3. PICK j \in T : j < m
    BY <1>1
  <2> QED
    BY <2>1, <2>2, <2>3
<1>3. N \notin T
  BY <1>2
<1> QED
  BY <1>3

Latencies == [dma0 : Positive, mem : Nat, dma1 : Positive, anti : Positive]

LEMMA RoomTick ==
  ASSUME NEW classes, NEW t \in Timelines(classes), NEW len, NEW at \in Nat, NEW tick,
         Room(t, len, at, tick)
  PROVE  tick \in Nat /\ tick <= at
<1>1. CASE tick = t.start /\ t.start <= at
  BY <1>1 DEF Timelines
<1>2. CASE InSlot(t, len, at, tick)
  <2>1. PICK k \in Visited(t, len) : \E s \in t.free[k] : s.from = tick /\ s.from <= at
    BY <1>2 DEF InSlot
  <2>2. k \in DOMAIN t.free
    BY DEF Visited
  <2> QED
    BY <2>1, <2>2 DEF Timelines, FreeSlot
<1> QED
  BY <1>1, <1>2 DEF Room

\* A turn of LOOP1 either ends with room on the channel and on the die, or
\* moves on, and it ends behind the start point of the die.
Fitting1(c, d, lat, x) ==
    /\ x.from \in Nat
    /\ Room(c, lat.dma0, x.from, x.dma0)
    /\ Room(d, lat.dma0 + lat.mem, x.from, x.mem)

LEMMA Turn1 ==
  ASSUME NEW cc \in SUBSET Positive, NEW dc \in SUBSET Positive,
         NEW c \in Timelines(cc), NEW d \in Timelines(dc), Tidy(c), Tidy(d),
         NEW lat \in Latencies, NEW n \in Nat
  PROVE  LET x == Loop1Turn(c, d, lat, n)
         IN  /\ x.from \in Nat /\ n <= x.from
             /\ x.ends => Fitting1(c, d, lat, x)
             /\ ~x.ends => n < d.start /\ n < x.from
<1> DEFINE dma0 == Place(c, lat.dma0, n)
           mem == Place(d, lat.dma0 + lat.mem, dma0.from)
           again == Place(c, lat.dma0, mem.from)
           same == mem.tick = dma0.tick
           ends == same \/ again.tick = dma0.tick
           at == IF same THEN dma0.from ELSE mem.from
           x == Loop1Turn(c, d, lat, n)
<1>0. /\ lat.dma0 \in Positive /\ lat.dma0 + lat.mem \in Positive
      /\ d.start \in Nat
  BY DEF Latencies, Positive, Timelines
<1>1. x = [from |-> at, dma0 |-> dma0.tick, mem |-> mem.tick, ends |-> ends]
  BY DEF Loop1Turn, Loop1Channel, Loop1Die
<1>2. /\ dma0.tick \in Nat /\ dma0.from \in Nat /\ dma0.tick <= dma0.from
      /\ n <= dma0.from /\ Room(c, lat.dma0, dma0.from, dma0.tick)
  BY <1>0, FindsRoom
<1> HIDE DEF dma0
<1>3. /\ mem.tick \in Nat /\ mem.from \in Nat /\ mem.tick <= mem.from
      /\ dma0.from <= mem.from
      /\ mem.tick <= dma0.from => mem.from = dma0.from
      /\ Room(d, lat.dma0 + lat.mem, mem.from, mem.tick)
      /\ d.start <= dma0.from => mem.from = dma0.from
  BY <1>0, <1>2, FindsRoom
<1> HIDE DEF mem
<1>4. /\ again.tick <= mem.from => again.from = mem.from
      /\ Room(c, lat.dma0, again.from, again.tick)
  BY <1>0, <1>3, FindsRoom
<1> HIDE DEF again
<1>5. at \in Nat /\ n <= at
  BY <1>2, <1>3
<1>6. ASSUME ends PROVE Room(c, lat.dma0, at, dma0.tick) /\ Room(d, lat.dma0 + lat.mem, at, mem.tick)
  <2>1. CASE same
    BY <1>2, <1>3, <2>1
  <2>2. CASE ~same
    <3>1. again.tick = dma0.tick /\ at = mem.from
      BY <1>6, <2>2
    <3>2. again.from = mem.from
      BY <1>2, <1>3, <1>4, <3>1
    <3> QED
      BY <1>3, <1>4, <3>1, <3>2
  <2> QED
    BY <2>1, <2>2
<1>7. ASSUME ~ends PROVE n < d.start /\ n < at
  <2>1. ~same /\ again.tick # dma0.tick /\ at = mem.from
    BY <1>7
  <2>2. mem.from # dma0.from
    <3>1. mem.from = dma0.from => again.tick = dma0.tick
      BY <1>0, <1>2, FoundAgain DEF again
    <3> QED
      BY <2>1, <3>1
  <2> QED
    BY <1>0, <1>2, <1>3, <2>1, <2>2
<1> HIDE DEF ends, at, x
<1>8. /\ x.from = at /\ x.dma0 = dma0.tick /\ x.mem = mem.tick /\ (x.ends <=> ends)
  BY <1>1
<1> QED
  BY <1>5, <1>6, <1>7, <1>8 DEF Fitting1, x

Turns1(c, d, lat) == [n \in Nat |-> Loop1Turn(c, d, lat, n)]
Ends1(c, d, lat) == {n \in Nat : Turns1(c, d, lat)[n].ends}
Next1(c, d, lat) == [n \in Nat |-> Turns1(c, d, lat)[n].from]

\* LOOP1 is a loop that moves forward.
LEMMA Loop1Loops ==
  ASSUME NEW cc \in SUBSET Positive, NEW dc \in SUBSET Positive,
         NEW c \in Timelines(cc), NEW d \in Timelines(dc), Tidy(c), Tidy(d),
         NEW lat \in Latencies, NEW from \in Nat
  PROVE  /\ d.start \in Nat /\ Forward(d.start, Ends1(c, d, lat), Next1(c, d, lat))
         /\ \E f : /\ Loop1(c, d, lat, from) = f[from]
                   /\ Looping(f, Ends1(c, d, lat), Turns1(c, d, lat), Next1(c, d, lat))
<1> DEFINE R == Turns1(c, d, lat)
           Ends == Ends1(c, d, lat)
           G == Next1(c, d, lat)
           body(f) == [n \in Nat |-> IF Loop1Turn(c, d, lat, n).ends
                                     THEN Loop1Turn(c, d, lat, n)
                                     ELSE f[Loop1Turn(c, d, lat, n).from]]
           loop == CHOOSE f : f = body(f)
<1>1. Loop1(c, d, lat, from) = loop[from]
  BY DEF Loop1
<1>2. ASSUME NEW n \in Nat
      PROVE  n \notin Ends => n < d.start /\ G[n] \in Nat /\ n < G[n]
  BY Turn1 DEF Ends1, Next1, Turns1
<1>3. ASSUME NEW f PROVE f = body(f) <=> Looping(f, Ends, R, G)
  <2>1. body(f) = [n \in Nat |-> IF n \in Ends THEN R[n] ELSE f[G[n]]]
    BY DEF Ends1, Next1, Turns1
  <2> HIDE DEF body, Ends, R, G
  <2> QED
    BY <2>1 DEF Looping
<1>4. d.start \in Nat
  BY DEF Timelines
<1>5. Forward(d.start, Ends, G)
  BY <1>2 DEF Forward
<1> HIDE DEF Ends, R, G, body
<1>6. \E f : Looping(f, Ends, R, G)
  BY <1>4, <1>5, LoopExists
<1>7. Looping(loop, Ends, R, G)
  BY <1>3, <1>6
<1> HIDE DEF loop
<1> QED
  BY <1>1, <1>4, <1>5, <1>7 DEF Ends, R, G

\* LOOP1 ends, with room on the channel for DMA0 and on the die for the flash
\* operation.
LEMMA Loop1Fits ==
  ASSUME NEW cc \in SUBSET Positive, NEW dc \in SUBSET Positive,
         NEW c \in Timelines(cc), NEW d \in Timelines(dc), Tidy(c), Tidy(d),
         NEW lat \in Latencies, NEW from \in Nat
  PROVE  /\ Fitting1(c, d, lat, Loop1(c, d, lat, from))
         /\ from <= Loop1(c, d, lat, from).from
<1> DEFINE R == Turns1(c, d, lat)
           Ends == Ends1(c, d, lat)
           G == Next1(c, d, lat)
<1>1. /\ d.start \in Nat /\ Forward(d.start, Ends, G)
      /\ \E f : Loop1(c, d, lat, from) = f[from] /\ Looping(f, Ends, R, G)
  BY Loop1Loops
<1>2. PICK f : Loop1(c, d, lat, from) = f[from] /\ Looping(f, Ends, R, G)
  BY <1>1
<1>3. ASSUME NEW n \in Ends
      PROVE  R[n].from \in Nat /\ n <= R[n].from /\ Fitting1(c, d, lat, R[n])
  BY Turn1 DEF Ends1, Turns1
<1> HIDE DEF Ends, R, G
<1>4. PICK n \in Nat : n \in Ends /\ from <= n /\ f[from] = R[n]
  BY <1>1, <1>2, LoopEnds
<1>5. from <= R[n].from
  BY <1>3, <1>4
<1> QED
  BY <1>2, <1>3, <1>4, <1>5

\* A turn of LOOP0 either ends with room for DMA1 as well, and on the die for
\* all of the command, or moves on, and it ends behind the start point of
\* the die.
Fitting0(c, d, lat, x) ==
    /\ x.from \in Nat /\ x.dma1From \in Nat
    /\ x.from + lat.dma0 + lat.mem <= x.dma1From
    /\ x.total = x.dma1From + lat.dma1 + lat.anti - x.from
    /\ Room(c, lat.dma0, x.from, x.dma0)
    /\ Room(d, x.total, x.from, x.mem)
    /\ \E tick \in Nat : Room(c, lat.dma1 + lat.anti, x.dma1From, tick)

LEMMA Turn0 ==
  ASSUME NEW cc \in SUBSET Positive, NEW dc \in SUBSET Positive,
         NEW c \in Timelines(cc), NEW d \in Timelines(dc), Tidy(c), Tidy(d),
         NEW lat \in Latencies, NEW n \in Nat
  PROVE  LET x == Loop0Turn(c, d, lat, n)
         IN  /\ x.from \in Nat /\ n <= x.from
             /\ x.ends => Fitting0(c, d, lat, x)
             /\ ~x.ends => n < d.start /\ x.next \in Nat /\ n < x.next
<1> DEFINE y == Loop1(c, d, lat, n)
           after == y.from + lat.dma0 + lat.mem
           p == Place(c, lat.dma1 + lat.anti, after)
           total == p.from + lat.dma1 + lat.anti - y.from
           q == Place(d, total, y.from)
           ends == q.tick = y.mem
           x == Loop0Turn(c, d, lat, n)
<1>0. /\ lat.dma0 \in Positive /\ lat.mem \in Nat /\ lat.dma1 + lat.anti \in Positive
      /\ lat.dma0 \in Nat /\ lat.dma1 \in Nat /\ lat.anti \in Nat /\ lat.dma1 > 0
      /\ lat.dma0 + lat.mem \in Positive /\ d.start \in Nat
  BY DEF Latencies, Positive, Timelines
<1>1. x = [from |-> y.from, dma0 |-> y.dma0, mem |-> y.mem, dma1From |-> p.from,
           total |-> total, ends |-> ends, next |-> q.tick]
  BY DEF Loop0Turn, Loop0Found, Loop0Placed, Loop0DMA1, Loop0Die, FindDMA1, DMA1From
<1>2. Fitting1(c, d, lat, y) /\ n <= y.from
  BY Loop1Fits
<1> HIDE DEF y
<1>3. /\ y.from \in Nat /\ Room(c, lat.dma0, y.from, y.dma0)
      /\ Room(d, lat.dma0 + lat.mem, y.from, y.mem)
  BY <1>2 DEF Fitting1
<1>4. y.mem \in Nat /\ y.mem <= y.from
  BY <1>3, RoomTick
<1>5. after \in Nat
  BY <1>0, <1>3
<1>6. /\ p.from \in Nat /\ p.tick \in Nat /\ after <= p.from
      /\ Room(c, lat.dma1 + lat.anti, p.from, p.tick)
  BY <1>0, <1>5, FindsRoom
<1> HIDE DEF p
<1>7. total \in Positive /\ total \in Nat /\ lat.dma0 + lat.mem <= total
  BY <1>0, <1>3, <1>6 DEF Positive
<1> HIDE DEF total
<1>8. /\ q.tick \in Nat
      /\ q.tick <= y.from => q.from = y.from
      /\ q.tick > y.from => q.from = q.tick
      /\ Room(d, total, q.from, q.tick)
      /\ d.start <= y.from => q.from = y.from
  BY <1>3, <1>7, FindsRoom
<1>9. ASSUME ends PROVE Room(d, total, y.from, y.mem)
  BY <1>4, <1>8, <1>9
<1>10. ASSUME ~ends PROVE y.from < q.tick /\ y.from < d.start
  <2>1. ASSUME q.tick <= y.from PROVE FALSE
    <3>1. Room(d, total, y.from, q.tick)
      BY <1>8, <2>1
    <3>2. Room(d, lat.dma0 + lat.mem, y.from, q.tick)
      <4>1. lat.dma0 + lat.mem \in Nat
        BY <1>0
      <4> HIDE DEF q
      <4> QED BY <1>3, <1>7, <3>1, <4>1, RoomForLess
    <3>3. Place(d, lat.dma0 + lat.mem, y.from).tick = q.tick
      <4> HIDE DEF q
      <4> QED BY <1>0, <1>3, <3>2, FoundAgain
    <3>4. Place(d, lat.dma0 + lat.mem, y.from).tick = y.mem
      BY <1>0, <1>3, FoundAgain
    <3> QED
      BY <1>10, <3>3, <3>4
  <2> HIDE DEF q
  <2> QED
    BY <1>0, <1>3, <1>8, <2>1
<1> HIDE DEF q
<1>11. ends => /\ p.from \in Nat /\ after <= p.from
               /\ total = p.from + lat.dma1 + lat.anti - y.from
               /\ \E tick \in Nat : Room(c, lat.dma1 + lat.anti, p.from, tick)
  BY <1>6 DEF total
<1> HIDE DEF ends, x
<1>12. /\ x.from = y.from /\ x.dma0 = y.dma0 /\ x.mem = y.mem /\ x.dma1From = p.from
       /\ x.total = total /\ x.next = q.tick /\ (x.ends <=> ends)
  BY <1>1
<1>13. x.ends => Fitting0(c, d, lat, x)
  BY <1>3, <1>9, <1>11, <1>12 DEF Fitting0
<1>14. ~x.ends => n < d.start /\ x.next \in Nat /\ n < x.next
  BY <1>0, <1>2, <1>3, <1>8, <1>10, <1>12
<1> QED
  BY <1>2, <1>3, <1>12, <1>13, <1>14 DEF x

Turns0(c, d, lat) == [n \in Nat |-> Loop0Turn(c, d, lat, n)]
Ends0(c, d, lat) == {n \in Nat : Turns0(c, d, lat)[n].ends}
Next0(c, d, lat) == [n \in Nat |-> Turns0(c, d, lat)[n].next]

\* LOOP0 is a loop that moves forward.
LEMMA Loop0Loops ==
  ASSUME NEW cc \in SUBSET Positive, NEW dc \in SUBSET Positive,
         NEW c \in Timelines(cc), NEW d \in Timelines(dc), Tidy(c), Tidy(d),
         NEW lat \in Latencies, NEW from \in Nat
  PROVE  /\ d.start \in Nat /\ Forward(d.start, Ends0(c, d, lat), Next0(c, d, lat))
         /\ \E f : /\ Loop0(c, d, lat, from) = f[from]
                   /\ Looping(f, Ends0(c, d, lat), Turns0(c, d, lat), Next0(c, d, lat))
<1> DEFINE R == Turns0(c, d, lat)
           Ends == Ends0(c, d, lat)
           G == Next0(c, d, lat)
           body(f) == [n \in Nat |-> IF Loop0Turn(c, d, lat, n).ends
                                     THEN Loop0Turn(c, d, lat, n)
                                     ELSE f[Loop0Turn(c, d, lat, n).next]]
           loop == CHOOSE f : f = body(f)
<1>1. Loop0(c, d, lat, from) = loop[from]
  BY DEF Loop0
<1>2. ASSUME NEW n \in Nat
      PROVE  n \notin Ends => n < d.start /\ G[n] \in Nat /\ n < G[n]
  BY Turn0 DEF Ends0, Next0, Turns0
<1>3. ASSUME NEW f PROVE f = body(f) <=> Looping(f, Ends, R, G)
  <2>1. body(f) = [n \in Nat |-> IF n \in Ends THEN R[n] ELSE f[G[n]]]
    BY DEF Ends0, Next0, Turns0
  <2> HIDE DEF body, Ends, R, G
  <2> QED
    BY <2>1 DEF Looping
<1>4. d.start \in Nat
  BY DEF Timelines
<1>5. Forward(d.start, Ends, G)
  BY <1>2 DEF Forward
<1> HIDE DEF Ends, R, G, body
<1>6. \E f : Looping(f, Ends, R, G)
  BY <1>4, <1>5, LoopExists
<1>7. Looping(loop, Ends, R, G)
  BY <1>3, <1>6
<1> HIDE DEF loop
<1> QED
  BY <1>1, <1>4, <1>5, <1>7 DEF Ends, R, G

\* LOOP0 ends, with room for both transfers and on the die.
LEMMA Loop0Fits ==
  ASSUME NEW cc \in SUBSET Positive, NEW dc \in SUBSET Positive,
         NEW c \in Timelines(cc), NEW d \in Timelines(dc), Tidy(c), Tidy(d),
         NEW lat \in Latencies, NEW from \in Nat
  PROVE  /\ Fitting0(c, d, lat, Loop0(c, d, lat, from))
         /\ from <= Loop0(c, d, lat, from).from
<1> DEFINE R == Turns0(c, d, lat)
           Ends == Ends0(c, d, lat)
           G == Next0(c, d, lat)
<1>1. /\ d.start \in Nat /\ Forward(d.start, Ends, G)
      /\ \E f : Loop0(c, d, lat, from) = f[from] /\ Looping(f, Ends, R, G)
  BY Loop0Loops
<1>2. PICK f : Loop0(c, d, lat, from) = f[from] /\ Looping(f, Ends, R, G)
  BY <1>1
<1>3. ASSUME NEW n \in Ends
      PROVE  R[n].from \in Nat /\ n <= R[n].from /\ Fitting0(c, d, lat, R[n])
  BY Turn0 DEF Ends0, Turns0
<1> HIDE DEF Ends, R, G
<1>4. PICK n \in Nat : n \in Ends /\ from <= n /\ f[from] = R[n]
  BY <1>1, <1>2, LoopEnds
<1>5. from <= R[n].from
  BY <1>3, <1>4
<1> QED
  BY <1>2, <1>3, <1>4, <1>5

-----------------------------------------------------------------------------
(* One command *)

Busy == {x \in FreeSlot : x.from <= x.to}

LEMMA MaxOfTwo ==
  ASSUME NEW a \in Nat, NEW b \in Nat, b <= a
  PROVE  Max({a, b}) = a
<1>1. a \in {a, b} /\ \A y \in {a, b} : a >= y
  OBVIOUS
<1>2. \A z \in {a, b} : (\A y \in {a, b} : z >= y) => z = a
  OBVIOUS
<1> QED
  BY <1>1, <1>2 DEF Max

\* The ticks between the transfers become a slot of their own, or nothing
\* happens.
LEMMA Splits ==
  ASSUME NEW classes \in SUBSET Positive, NEW c \in Timelines(classes), Tidy(c),
         NEW len \in Positive, NEW after \in Nat
  PROVE  LET u == SplitChannel(c, len, after)
         IN  /\ u \in Timelines(classes) /\ Tidy(u)
             /\ \A x \in Busy : Taken(c, x) => Taken(u, x)
<1> DEFINE p == Place(c, len, after)
           u == SplitChannel(c, len, after)
<1>1. Room(c, len, p.from, p.tick)
  BY FindsRoom
<1> HIDE DEF p
<1>2. CASE p.from = after
  <2>1. u = InsertFreeSlot(c, len, after, p.tick, TRUE)
    BY <1>2 DEF SplitChannel, SplitAfter, p
  <2>2. Room(c, len, after, p.tick)
    BY <1>1, <1>2
  <2> HIDE DEF u
  <2>3. u \in Timelines(classes) /\ Took(c, u, len, after, TRUE)
    BY <2>1, <2>2, Inserts
  <2> QED
    BY <2>3 DEF Took, Busy, u
<1>3. CASE p.from # after
  BY <1>3 DEF SplitChannel, SplitAfter, p
<1> QED
  BY <1>2, <1>3

\* What a command is given: time that nobody had, on its channel and its die,
\* and time enough.
Given(c, d, lat, arrived, r) ==
    /\ Tidy(r.ch) /\ Tidy(r.die)
    /\ r.dma0 \in Busy /\ r.dma1 \in Busy /\ r.mem \in Busy
    /\ Taken(r.ch, r.dma0) /\ Taken(r.ch, r.dma1) /\ Taken(r.die, r.mem)
    /\ ~Overlap(r.dma0, r.dma1)
    /\ \A y \in Busy : Taken(c, y) =>
          Taken(r.ch, y) /\ ~Overlap(y, r.dma0) /\ ~Overlap(y, r.dma1)
    /\ \A y \in Busy : Taken(d, y) => Taken(r.die, y) /\ ~Overlap(y, r.mem)
    /\ arrived <= r.dma0.from /\ r.dma1.from >= r.dma0.to + 1 + lat.mem
    /\ Within(r.dma0, r.mem) /\ Within(r.dma1, r.mem)

LEMMA Schedules ==
  ASSUME NEW cc \in SUBSET Positive, NEW dc \in SUBSET Positive,
         NEW c \in Timelines(cc), NEW d \in Timelines(dc), Tidy(c), Tidy(d),
         NEW lat \in Latencies, NEW arrived \in Nat,
         NEW small \in cc, small <= lat.mem + lat.dma1 + lat.anti
  PROVE  LET r == Schedule(c, d, lat, arrived)
             y == Loop0(c, d, lat, arrived)
         IN  /\ r.ch \in Timelines(cc) /\ r.die \in Timelines(dc)
             /\ Given(c, d, lat, arrived, r)
             /\ r.dma0 = Slot(y.from, lat.dma0) /\ r.mem = Slot(y.from, y.total)
             /\ r.dma1 = Slot(y.dma1From + lat.anti, lat.dma1)
<1> DEFINE x == Loop0(c, d, lat, arrived)
           c1 == InsertFreeSlot(c, lat.dma0, x.from, x.dma0, FALSE)
           p == Place(c1, lat.dma1 + lat.anti, x.dma1From)
           at1 == x.dma1From + lat.anti
           c2 == InsertFreeSlot(c1, lat.dma1, at1, p.tick, FALSE)
           c3 == SplitChannel(c2, lat.anti * 2, x.from + lat.dma0)
           d1 == InsertFreeSlot(d, x.total, x.from, x.mem, FALSE)
           r == Schedule(c, d, lat, arrived)
           dma0 == Slot(x.from, lat.dma0)
           dma1 == Slot(at1, lat.dma1)
           mem == Slot(x.from, x.total)
<1>0. /\ lat.dma0 \in Positive /\ lat.mem \in Nat /\ lat.dma1 + lat.anti \in Positive
      /\ lat.dma0 \in Nat /\ lat.dma1 \in Nat /\ lat.anti \in Nat
      /\ lat.dma0 > 0 /\ lat.dma1 > 0 /\ lat.anti * 2 \in Positive
      /\ lat.dma1 \in Positive /\ small \in Nat
  BY DEF Latencies, Positive
<1>1. Fitting0(c, d, lat, x) /\ arrived <= x.from
  BY Loop0Fits
<1> HIDE DEF x
<1>2. /\ x.from \in Nat /\ x.dma1From \in Nat /\ at1 \in Nat
      /\ x.from + lat.dma0 + lat.mem <= x.dma1From
      /\ x.total = x.dma1From + lat.dma1 + lat.anti - x.from
      /\ Room(c, lat.dma0, x.from, x.dma0)
      /\ Room(d, x.total, x.from, x.mem)
      /\ \E tick \in Nat : Room(c, lat.dma1 + lat.anti, x.dma1From, tick)
  BY <1>0, <1>1 DEF Fitting0
<1>3. x.dma0 \in Nat /\ x.dma0 <= x.from /\ x.mem \in Nat /\ x.mem <= x.from
  BY <1>2, RoomTick
<1>4. Max({x.from, x.dma0}) = x.from /\ Max({x.from, x.mem}) = x.from
  BY <1>2, <1>3, MaxOfTwo
<1>5. x.total \in Positive /\ x.total \in Nat /\ x.from + lat.dma0 \in Nat
  BY <1>0, <1>2 DEF Positive
<1>6. c1 \in Timelines(cc) /\ Took(c, c1, lat.dma0, x.from, FALSE)
  BY <1>0, <1>2, Inserts
<1>7. \E other \in Nat : Room(c1, lat.dma1 + lat.anti, x.dma1From, other)
  <2>1. small \in DOMAIN c.free
    BY DEF Timelines
  <2>2. small <= x.dma1From + (lat.dma1 + lat.anti) - (x.from + lat.dma0)
    BY <1>0, <1>2
  <2>3. x.from + lat.dma0 <= x.dma1From
    BY <1>0, <1>2
  <2> HIDE DEF c1
  <2> QED
    BY <1>0, <1>2, <1>6, <2>1, <2>2, <2>3 DEF Took
<1>8. Tidy(c1)
  BY <1>6 DEF Took
<1> HIDE DEF c1
<1>9. p.from = x.dma1From /\ Room(c1, lat.dma1 + lat.anti, x.dma1From, p.tick)
  <2>1. PICK other \in Nat : Room(c1, lat.dma1 + lat.anti, x.dma1From, other)
    BY <1>7
  <2> QED
    BY <1>0, <1>2, <1>6, <1>8, <2>1, FoundAgain
<1> HIDE DEF p
<1>10. p.tick \in Nat /\ p.tick <= x.dma1From
  BY <1>2, <1>6, <1>9, RoomTick
<1>11. Begin(p) = x.dma1From
  BY <1>2, <1>9, <1>10, MaxOfTwo DEF Begin
<1>12. Room(c1, lat.dma1, at1, p.tick)
  BY <1>0, <1>2, <1>6, <1>9, RoomBehind
<1>13. c2 \in Timelines(cc) /\ Took(c1, c2, lat.dma1, at1, FALSE)
  BY <1>0, <1>2, <1>6, <1>8, <1>12, Inserts
<1> HIDE DEF c2
<1>14. Tidy(c2)
  BY <1>13 DEF Took
<1>15. /\ c3 \in Timelines(cc) /\ Tidy(c3)
       /\ \A y \in Busy : Taken(c2, y) => Taken(c3, y)
  BY <1>0, <1>5, <1>13, <1>14, Splits
<1> HIDE DEF c3
<1>16. d1 \in Timelines(dc) /\ Took(d, d1, x.total, x.from, FALSE)
  BY <1>2, <1>5, Inserts
<1> HIDE DEF d1
<1>17. r = [ch |-> c3, die |-> d1, dma0 |-> dma0, dma1 |-> dma1, mem |-> mem]
  BY <1>4, <1>11
     DEF Schedule, Assign, AssignDMA0, AssignDMA1, FindDMA1, x, c1, p, c2, c3, d1
<1>18. /\ dma0.from = x.from /\ dma0.to = x.from + lat.dma0 - 1
       /\ dma1.from = at1 /\ dma1.to = at1 + lat.dma1 - 1
       /\ mem.from = x.from /\ mem.to = x.from + x.total - 1
       /\ dma0 \in Busy /\ dma1 \in Busy /\ mem \in Busy
  BY <1>0, <1>2, <1>5 DEF Slot, Busy, FreeSlot, Positive
<1>19. Taken(c1, dma0)
  BY <1>0, <1>2, <1>6, <1>18 DEF Took, Taken, Timelines
<1>20. Taken(c2, dma1) /\ Taken(c2, dma0) /\ ~Overlap(dma0, dma1)
  <2>1. Taken(c2, dma1)
    BY <1>0, <1>2, <1>13, <1>18 DEF Took, Taken, Timelines
  <2> HIDE DEF dma0, dma1
  <2>2. Taken(c2, dma0) /\ ~Overlap(dma0, Slot(at1, lat.dma1))
    BY <1>13, <1>18, <1>19 DEF Took, Busy
  <2> QED
    BY <2>1, <2>2 DEF dma1
<1>21. Taken(d1, mem)
  BY <1>2, <1>5, <1>16, <1>18 DEF Took, Taken, Timelines
<1>22. ASSUME NEW y \in Busy, Taken(c, y)
       PROVE  Taken(c3, y) /\ ~Overlap(y, dma0) /\ ~Overlap(y, dma1)
  <2>1. Taken(c1, y) /\ ~Overlap(y, dma0)
    BY <1>6, <1>22 DEF Took, Busy
  <2>2. Taken(c2, y) /\ ~Overlap(y, dma1)
    BY <1>13, <2>1 DEF Took, Busy
  <2> QED
    BY <1>15, <2>1, <2>2
<1>23. ASSUME NEW y \in Busy, Taken(d, y) PROVE Taken(d1, y) /\ ~Overlap(y, mem)
  BY <1>16, <1>23 DEF Took, Busy
<1>24. /\ arrived <= dma0.from /\ dma1.from >= dma0.to + 1 + lat.mem
       /\ Within(dma0, mem) /\ Within(dma1, mem)
  BY <1>0, <1>1, <1>2, <1>18 DEF Within
<1>25. Taken(c3, dma0) /\ Taken(c3, dma1) /\ Tidy(d1)
  BY <1>15, <1>16, <1>18, <1>20 DEF Took
<1>26. /\ r.dma0 = Slot(x.from, lat.dma0) /\ r.mem = Slot(x.from, x.total)
       /\ r.dma1 = Slot(x.dma1From + lat.anti, lat.dma1)
  BY <1>17
<1> HIDE DEF dma0, dma1, mem, r
<1>27. Given(c, d, lat, arrived, r) /\ r.ch \in Timelines(cc) /\ r.die \in Timelines(dc)
  BY <1>15, <1>16, <1>17, <1>18, <1>20, <1>21, <1>22, <1>23, <1>24, <1>25 DEF Given
<1> QED
  BY <1>26, <1>27 DEF r, x

-----------------------------------------------------------------------------
(* Addresses and latencies *)

LEMMA PositiveProduct ==
  ASSUME NEW a \in Positive, NEW b \in Positive
  PROVE  a * b \in Positive
BY DEF Positive

LEMMA MoreTimes ==
  ASSUME NEW a \in Nat, NEW b \in Nat, a <= b, NEW k \in Nat
  PROVE  a * k \in Nat /\ a * k <= b * k
OBVIOUS

\* The dies are numbered below their number.
LEMMA DieIndex ==
  ASSUME NEW A \in Positive, NEW B \in Positive, NEW C \in Positive,
         NEW a \in 0 .. A - 1, NEW b \in 0 .. B - 1, NEW c \in 0 .. C - 1
  PROVE  a + b * A + c * A * B \in 0 .. C * B * A - 1
<1>0. A \in Nat /\ B \in Nat /\ C \in Nat /\ A > 0 /\ B > 0 /\ C > 0 /\ A * B \in Nat
  BY DEF Positive
<1>1. b * A \in Nat /\ b * A <= (B - 1) * A
  BY <1>0, MoreTimes
<1>2. c * (A * B) \in Nat /\ c * (A * B) <= (C - 1) * (A * B)
  <2> DEFINE k == A * B
  <2> HIDE DEF k
  <2>1. k \in Nat
    BY <1>0 DEF k
  <2>2. c * k \in Nat /\ c * k <= (C - 1) * k
    BY <1>0, <2>1, MoreTimes
  <2> QED BY <2>2 DEF k
<1>3. (B - 1) * A = A * B - A /\ (C - 1) * (A * B) = C * B * A - A * B
      /\ c * A * B = c * (A * B) /\ C * B * A \in Nat
  BY <1>0
<1> QED
  BY <1>0, <1>1, <1>2, <1>3

LEMMA DigitBelow ==
  ASSUME NEW d \in Devices, NEW dims, NEW k \in Dimensions, NEW n \in Nat
  PROVE  Digit(d, dims, k, n) \in 0 .. d.size[k] - 1
<1>1. \A j \in Dimensions : d.size[j] \in Positive
  BY DeviceAssumption
<1>2. ASSUME NEW some PROVE Product(d, some) \in Positive
  <2>1. \A j \in Dimensions : Size(d, some, j) \in Positive
    BY <1>1 DEF Size, Positive
  <2>2. Size(d, some, "C") \in Positive /\ Size(d, some, "W") \in Positive
        /\ Size(d, some, "D") \in Positive /\ Size(d, some, "P") \in Positive
    BY <2>1 DEF Dimensions
  <2> QED
    BY <2>2, PositiveProduct DEF Product
<1>3. Below(d, dims, k) \in Positive
  BY <1>2 DEF Below
<1> DEFINE m == Below(d, dims, k)
           s == d.size[k]
<1>4. m \in Nat /\ m > 0 /\ s \in Nat /\ s > 0
  BY <1>1, <1>3 DEF Positive
<1>5. Digit(d, dims, k, n) = (n \div m) % s
  BY DEF Digit
<1> HIDE DEF m, s
<1>6. n \div m \in Nat
  BY <1>4
<1> DEFINE q == n \div m
<1> HIDE DEF q
<1>7. q % s \in 0 .. s - 1
  BY <1>4, <1>6 DEF q
<1> QED
  BY <1>5, <1>7 DEF q, s

\* A command goes to a channel and a die that exist.
LEMMA Addresses ==
  ASSUME NEW d \in Devices, NEW b \in Nat, NEW page, NEW i \in Nat
  PROVE  LET a == Address(d, b, page, i)
         IN  /\ a.at["C"] \in 0 .. d.size["C"] - 1 /\ a.page = page
             /\ CPDPBPtoDieIdx(d, a) \in
                   0 .. d.size["C"] * d.size["W"] * d.size["D"] - 1
<1> DEFINE a == Address(d, b, page, i)
<1>1. \A k \in Dimensions : d.size[k] \in Positive
  BY DeviceAssumption
<1>2. ASSUME NEW k \in Dimensions PROVE a.at[k] \in 0 .. d.size[k] - 1
  <2>1. a.at[k] = IF k \in Striped(d) THEN Digit(d, Striped(d), k, i)
                  ELSE IF k \in Divided(d) THEN Digit(d, Divided(d), k, b) ELSE 0
    BY DEF Address
  <2>2. 0 \in 0 .. d.size[k] - 1
    BY <1>1 DEF Positive
  <2> QED
    BY <2>1, <2>2, DigitBelow
<1>3. a.page = page
  BY DEF Address
<1> HIDE DEF a
<1>4. /\ a.at["C"] \in 0 .. d.size["C"] - 1 /\ a.at["W"] \in 0 .. d.size["W"] - 1
      /\ a.at["D"] \in 0 .. d.size["D"] - 1
      /\ d.size["C"] \in Positive /\ d.size["W"] \in Positive /\ d.size["D"] \in Positive
  BY <1>1, <1>2 DEF Dimensions
<1>5. CPDPBPtoDieIdx(d, a) \in 0 .. d.size["C"] * d.size["W"] * d.size["D"] - 1
  <2> DEFINE A == d.size["D"]
             B == d.size["W"]
             C == d.size["C"]
             x == a.at["D"]
             y == a.at["W"]
             z == a.at["C"]
  <2>1. CPDPBPtoDieIdx(d, a) = x + y * A + z * A * B
    BY DEF CPDPBPtoDieIdx
  <2>2. /\ z \in 0 .. C - 1 /\ y \in 0 .. B - 1 /\ x \in 0 .. A - 1
        /\ A \in Positive /\ B \in Positive /\ C \in Positive
    BY <1>4
  <2> HIDE DEF A, B, C, x, y, z
  <2>3. x + y * A + z * A * B \in 0 .. C * B * A - 1
    BY <2>2, DieIndex
  <2> QED
    BY <2>1, <2>3 DEF A, B, C
<1> QED
  BY <1>3, <1>4, <1>5 DEF a

LEMMA MemTimes ==
  ASSUME NEW d \in Devices, NEW page \in d.pages, NEW op \in Operations
  PROVE  MemTime(d, page, op) \in Nat
<1>1. page \in Nat /\ d.type \in {"SLC", "MLC", "TLC"}
  BY DeviceAssumption
<1>2. PageType(d.type, page) \in PageTypes
  <2>1. CASE d.type = "SLC"
    BY <2>1 DEF PageType, PageTypes
  <2>2. CASE d.type = "MLC"
    BY <2>2 DEF PageType, PageTypes
  <2>3. CASE d.type = "TLC"
    <3> DEFINE i == 1 + (((page - 8) \div 2) % 3)
               names == <<"lsb", "csb", "msb">>
    <3>1. PageType(d.type, page) = IF page <= 5 THEN "lsb"
                                   ELSE IF page <= 7 THEN "csb" ELSE names[i]
      BY <2>3 DEF PageType
    <3>2. ASSUME ~(page <= 7) PROVE i \in 1 .. 3
      BY <1>1, <3>2
    <3>3. \A j \in 1 .. 3 : names[j] \in PageTypes
      BY DEF PageTypes
    <3> HIDE DEF i, names
    <3> QED
      BY <3>1, <3>2, <3>3 DEF PageTypes
  <2> QED
    BY <1>1, <2>1, <2>2, <2>3
<1> QED
  BY <1>2, TimingAssumption DEF MemTime, Operations

\* GetLatency, of the device in use.
LEMMA LatencyFits ==
  ASSUME device \in Devices, NEW page \in device.pages, NEW op \in Operations
  PROVE  /\ GetLatency(page, op) \in Latencies
         /\ \E small \in ChClasses :
               small <= GetLatency(page, op).mem + GetLatency(page, op).dma1
                           + GetLatency(page, op).anti
<1>1. MemTime(device, page, op) \in Nat
  BY MemTimes
<1>2. /\ Timing.dma0[op] \in Positive /\ Timing.dma1[op] \in Positive
      /\ Timing.dma0["read"] \in Positive
  BY TimingAssumption DEF Operations
<1> QED
  BY <1>1, <1>2, ClassAssumption DEF GetLatency, Latencies

-----------------------------------------------------------------------------
(* The inductive invariant *)

Channels(d) == 0 .. d.size["C"] - 1
Dies(d) == 0 .. d.size["C"] * d.size["W"] * d.size["D"] - 1

Grant(d) == [ch : Channels(d), die : Dies(d), arrived : Nat, lat : Latencies,
             dma0 : Busy, dma1 : Busy, mem : Busy]

Granting(d) == [ch : [Channels(d) -> Timelines(ChClasses)],
                die : [Dies(d) -> Timelines(DieClasses)],
                grants : Seq(Grant(d))]

\* The time of a grant is nobody else's to be given.
Settled(x, g) == /\ Taken(x.ch[g.ch], g.dma0) /\ Taken(x.ch[g.ch], g.dma1)
                 /\ Taken(x.die[g.die], g.mem)

\* It is time enough.
Enough(g) == /\ ~Overlap(g.dma0, g.dma1)
             /\ g.arrived <= g.dma0.from
             /\ g.dma1.from >= g.dma0.to + 1 + g.lat.mem
             /\ Within(g.dma0, g.mem) /\ Within(g.dma1, g.mem)

\* Two commands share neither the channel nor the die at any tick.
Clear(g, h) ==
    /\ g.ch = h.ch => /\ ~Overlap(g.dma0, h.dma0) /\ ~Overlap(g.dma0, h.dma1)
                      /\ ~Overlap(g.dma1, h.dma0) /\ ~Overlap(g.dma1, h.dma1)
    /\ g.die = h.die => ~Overlap(g.mem, h.mem)

InOrder(d, x) ==
    /\ \A i \in Channels(d) : Tidy(x.ch[i])
    /\ \A j \in Dies(d) : Tidy(x.die[j])
    /\ \A n \in 1 .. Len(x.grants) : Settled(x, x.grants[n]) /\ Enough(x.grants[n])
    /\ \A n, m \in 1 .. Len(x.grants) :
          n < m => Clear(x.grants[n], x.grants[m])

Orderly(d) == {x \in Granting(d) : InOrder(d, x)}

LEMMA OneMore ==
  ASSUME NEW d, NEW x \in Orderly(d), NEW i \in Channels(d), NEW j \in Dies(d),
         NEW lat \in Latencies, NEW arrived \in Nat,
         NEW small \in ChClasses, small <= lat.mem + lat.dma1 + lat.anti
  PROVE  SubmitTo(x, i, j, lat, arrived) \in Orderly(d)
<1> DEFINE r == Schedule(x.ch[i], x.die[j], lat, arrived)
           g == [ch |-> i, die |-> j, arrived |-> arrived, lat |-> lat,
                 dma0 |-> r.dma0, dma1 |-> r.dma1, mem |-> r.mem]
           chs == [x.ch EXCEPT ![i] = r.ch]
           dies == [x.die EXCEPT ![j] = r.die]
           gs == Append(x.grants, g)
           z == SubmitTo(x, i, j, lat, arrived)
           N == Len(x.grants)
<1>0. /\ x \in Granting(d) /\ InOrder(d, x)
      /\ x.ch \in [Channels(d) -> Timelines(ChClasses)]
      /\ x.die \in [Dies(d) -> Timelines(DieClasses)] /\ x.grants \in Seq(Grant(d))
  BY DEF Orderly, Granting
<1>1. /\ r.ch \in Timelines(ChClasses) /\ r.die \in Timelines(DieClasses)
      /\ Given(x.ch[i], x.die[j], lat, arrived, r)
  <2>1. x.ch[i] \in Timelines(ChClasses) /\ x.die[j] \in Timelines(DieClasses)
        /\ Tidy(x.ch[i]) /\ Tidy(x.die[j])
    BY <1>0 DEF InOrder
  <2>2. ChClasses \in SUBSET Positive /\ DieClasses \in SUBSET Positive
    BY PALAssumption
  <2> QED
    BY <2>1, <2>2, Schedules
<1>2. z = [ch |-> chs, die |-> dies, grants |-> gs]
  BY DEF SubmitTo, Granted
<1> HIDE DEF r, z
<1>3. r.dma0 \in Busy /\ r.dma1 \in Busy /\ r.mem \in Busy
  BY <1>1 DEF Given
<1>4. g \in Grant(d)
  BY <1>3 DEF Grant
<1>5. /\ g.ch = i /\ g.die = j /\ g.dma0 = r.dma0 /\ g.dma1 = r.dma1 /\ g.mem = r.mem
      /\ g.lat = lat /\ g.arrived = arrived
  OBVIOUS
<1> HIDE DEF g
<1>6. /\ gs \in Seq(Grant(d)) /\ Len(gs) = N + 1 /\ N \in Nat /\ gs[N + 1] = g
      /\ \A n \in 1 .. N : gs[n] = x.grants[n] /\ x.grants[n] \in Grant(d)
  BY <1>0, <1>4
<1>7. /\ chs \in [Channels(d) -> Timelines(ChClasses)] /\ chs[i] = r.ch
      /\ \A k \in Channels(d) : k # i => chs[k] = x.ch[k]
  BY <1>0, <1>1
<1>8. /\ dies \in [Dies(d) -> Timelines(DieClasses)] /\ dies[j] = r.die
      /\ \A k \in Dies(d) : k # j => dies[k] = x.die[k]
  BY <1>0, <1>1
<1> HIDE DEF chs, dies, gs, N
<1>9. z.ch = chs /\ z.die = dies /\ z.grants = gs /\ z \in Granting(d)
  BY <1>2, <1>6, <1>7, <1>8 DEF Granting
<1>10. \A k \in Channels(d) : Tidy(z.ch[k])
  BY <1>0, <1>1, <1>7, <1>9 DEF InOrder, Given
<1>11. \A k \in Dies(d) : Tidy(z.die[k])
  BY <1>0, <1>1, <1>8, <1>9 DEF InOrder, Given
<1>12. ASSUME NEW n \in 1 .. N
       PROVE  /\ Settled(z, x.grants[n]) /\ Clear(x.grants[n], g)
              /\ Enough(x.grants[n])
  <2> DEFINE h == x.grants[n]
  <2>1. /\ h.ch \in Channels(d) /\ h.die \in Dies(d)
        /\ h.dma0 \in Busy /\ h.dma1 \in Busy /\ h.mem \in Busy
    BY <1>6 DEF Grant
  <2>2. Settled(x, h) /\ Enough(h)
    BY <1>0 DEF InOrder, N
  <2> HIDE DEF h
  <2>3. /\ Taken(z.ch[h.ch], h.dma0) /\ Taken(z.ch[h.ch], h.dma1)
        /\ h.ch = i => /\ ~Overlap(h.dma0, r.dma0) /\ ~Overlap(h.dma0, r.dma1)
                       /\ ~Overlap(h.dma1, r.dma0) /\ ~Overlap(h.dma1, r.dma1)
    BY <1>1, <1>7, <1>9, <2>1, <2>2 DEF Settled, Given
  <2>4. Taken(z.die[h.die], h.mem) /\ (h.die = j => ~Overlap(h.mem, r.mem))
    BY <1>1, <1>8, <1>9, <2>1, <2>2 DEF Settled, Given
  <2> QED
    BY <1>5, <2>2, <2>3, <2>4 DEF Settled, Clear, h
<1>13. Settled(z, g) /\ Enough(g)
  BY <1>1, <1>5, <1>7, <1>8, <1>9 DEF Settled, Enough, Given
<1>14. \A n \in 1 .. Len(z.grants) : Settled(z, z.grants[n]) /\ Enough(z.grants[n])
  BY <1>6, <1>9, <1>12, <1>13
<1>15. ASSUME NEW n \in 1 .. Len(z.grants), NEW m \in 1 .. Len(z.grants), n < m
       PROVE  Clear(z.grants[n], z.grants[m])
  <2>1. n \in 1 .. N
    BY <1>6, <1>9, <1>15
  <2>2. CASE m = N + 1
    BY <1>6, <1>9, <1>12, <2>1, <2>2
  <2>3. CASE m # N + 1
    <3>1. m \in 1 .. N
      BY <1>6, <1>9, <2>3
    <3> QED
      BY <1>0, <1>6, <1>9, <1>15, <2>1, <3>1 DEF InOrder, N
  <2> QED
    BY <2>2, <2>3
<1>16. InOrder(d, z)
  BY <1>10, <1>11, <1>14, <1>15 DEF InOrder
<1> QED
  BY <1>9, <1>16 DEF Orderly, z

Present == [ch |-> ch, die |-> die, grants |-> grants]

\* The commands of a request, one after the other.
LEMMA Requests ==
  ASSUME device \in Devices, NEW op \in Operations, NEW arrived \in Nat, NEW b \in Nat,
         NEW page \in device.pages, NEW ioFlag, NEW base \in Orderly(device)
  PROVE  Commands(base, op, arrived, b, page, ioFlag) \in Orderly(device)
<1> DEFINE n == PageInSuperPage(device)
<1>0. n \in Nat
  <2>1. \A k \in Dimensions : device.size[k] \in Nat
    BY DeviceAssumption DEF Positive
  <2>2. \A k \in Dimensions : Size(device, Striped(device), k) \in Nat
    BY <2>1 DEF Size
  <2>3. \A x, y \in Nat : x * y \in Nat
    OBVIOUS
  <2> QED
    BY <2>2, <2>3 DEF PageInSuperPage, Product, Dimensions
<1> HIDE DEF n
<1> DEFINE X == Orderly(device)
           Step(y, k) == SubmitUnit(y, op, arrived, b, page, ioFlag, k - 1)
           list == [i \in 1 .. n |-> i]
           G == [a \in X \X (1 .. n) |-> Step(a[1], a[2])]
           P == [k \in 0 .. n |-> X]
           body(f) == [t \in SUBSET (1 .. n) |->
                         IF t = {} THEN base ELSE Step(f[t \ {Max(t)}], Max(t))]
           F == CHOOSE f : f = body(f)
<1>1. ASSUME NEW y \in X, NEW k \in 1 .. n PROVE Step(y, k) \in X
  <2> DEFINE a == Address(device, b, page, k - 1)
             lat == GetLatency(page, op)
  <2>1. /\ a.at["C"] \in Channels(device) /\ CPDPBPtoDieIdx(device, a) \in Dies(device)
        /\ a.page = page
    <3>1. k - 1 \in Nat
      BY <1>0
    <3> QED BY <3>1, Addresses DEF Channels, Dies
  <2>2. lat \in Latencies /\ \E small \in ChClasses : small <= lat.mem + lat.dma1 + lat.anti
    BY LatencyFits
  <2> HIDE DEF lat
  <2>3. SubmitTo(y, a.at["C"], CPDPBPtoDieIdx(device, a), lat, arrived) \in X
    <3> HIDE DEF a
    <3> QED BY <2>1, <2>2, OneMore
  <2>4. Submit(y, op, arrived, a) \in X
    BY <2>1, <2>3 DEF Submit, lat
  <2> QED
    BY <2>4 DEF SubmitUnit
<1> HIDE DEF X
<1>2. G \in [X \X (1 .. n) -> X]
  BY <1>1
<1>3. \A y \in X, k \in 1 .. n : G[<<y, k>>] = Step(y, k)
  OBVIOUS
<1>4. FoldLeft(LAMBDA y, i : Step(y, i), base, list) = F[1 .. n]
  <2>1. DOMAIN list = 1 .. n
    OBVIOUS
  <2> DEFINE body1(f) == [t \in SUBSET (1 .. n) |->
                            IF t = {} THEN base ELSE Step(f[t \ {Max(t)}], list[Max(t)])]
  <2>2. FoldLeft(LAMBDA y, i : Step(y, i), base, list) = (CHOOSE f : f = body1(f))[1 .. n]
    <3> HIDE DEF list, Step
    <3> QED BY <2>1 DEF FoldLeft, MapThenFoldSet
  <2>3. ASSUME NEW f PROVE body1(f) = body(f)
    <3>1. ASSUME NEW t \in SUBSET (1 .. n), t # {} PROVE list[Max(t)] = Max(t)
      BY <3>1, <1>0, MaxOfIndices
    <3> HIDE DEF list, Step
    <3> QED
      BY <3>1
  <2> HIDE DEF body, body1
  <2> QED
    BY <2>2, <2>3
<1> HIDE DEF Step
<1>5. PICK f \in [SUBSET (1 .. n) -> X] : Folded(f, G, base, n)
  <2>1. base \in X
    BY DEF X
  <2> HIDE DEF G
  <2> QED BY <1>2, <2>1, <1>0, FoldExists
<1>6. f = body(f)
  <2> SUFFICES ASSUME NEW t \in SUBSET (1 .. n)
               PROVE  f[t] = IF t = {} THEN base ELSE Step(f[t \ {Max(t)}], Max(t))
    OBVIOUS
  <2>1. f[t] = IF t = {} THEN base ELSE G[<<f[t \ {Max(t)}], Max(t)>>]
    BY <1>5 DEF Folded
  <2>2. CASE t # {}
    <3>1. Max(t) \in 1 .. n /\ f[t \ {Max(t)}] \in X
      BY <1>5, <2>2, <1>0, MaxOfIndices
    <3> QED
      BY <1>3, <2>1, <2>2, <3>1
  <2> QED
    BY <2>1, <2>2
<1>7. F = body(F)
  BY <1>6
<1> HIDE DEF F
<1>8. F[{}] \in P[0] /\ P \in [0 .. n -> SUBSET X]
  <2>1. F[{}] = base
    BY <1>7
  <2> QED
    BY <1>0, <2>1 DEF X
<1>9. Steps(F, G, X, n)
  <2> SUFFICES ASSUME NEW k \in 1 .. n, F[1 .. k - 1] \in X
               PROVE  F[1 .. k] = G[<<F[1 .. k - 1], k>>]
    BY DEF Steps
  <2>1. /\ Max(1 .. k) = k /\ (1 .. k) \ {k} = 1 .. k - 1 /\ 1 .. k # {}
        /\ 1 .. k \in SUBSET (1 .. n)
    <3>1. k \in Nat \ {0} /\ 1 .. k \in SUBSET (1 .. n)
      BY <1>0
    <3> QED
      BY <3>1, LastIndex
  <2>2. F[1 .. k] = Step(F[1 .. k - 1], k)
    BY <1>7, <2>1
  <2> QED
    BY <1>3, <2>2
<1>10. Leads(G, P, n)
  BY <1>0, <1>1, <1>3 DEF Leads
<1>11. F[1 .. n] \in P[n]
  <2> HIDE DEF G, P
  <2> QED BY <1>8, <1>9, <1>10, <1>0, FoldReaches
<1> HIDE DEF body, G, list
<1>12. F[1 .. n] \in X
  BY <1>0, <1>11
<1>13. Commands(base, op, arrived, b, page, ioFlag)
          = FoldLeft(LAMBDA y, i : Step(y, i), base, list)
  BY DEF Commands, Step, list, n
<1> QED
  BY <1>4, <1>12, <1>13 DEF X

\* Forgetting free slots gives nothing to anybody.
LEMMA Flushes ==
  ASSUME NEW classes, NEW t \in Timelines(classes), NEW tick
  PROVE  LET u == FlushAFreeSlot(t, tick)
         IN  /\ u \in Timelines(classes) /\ (Tidy(t) => Tidy(u))
             /\ \A x : Taken(t, x) => Taken(u, x)
<1> DEFINE free == [k \in DOMAIN t.free |->
                      {s \in t.free[k] : \E r \in t.free[k] : r.from <= s.from /\ r.to >= tick}]
           u == FlushAFreeSlot(t, tick)
<1>1. \A k \in DOMAIN t.free : free[k] \subseteq t.free[k]
  OBVIOUS
<1>2. t = [free |-> t.free, start |-> t.start, failed |-> t.failed]
      /\ DOMAIN t.free = classes /\ t.free \in [classes -> SUBSET FreeSlot]
      /\ t.start \in Nat /\ t.failed \in BOOLEAN
  BY DEF Timelines
<1>3. u = [free |-> free, start |-> t.start, failed |-> t.failed]
  <2>1. u = [t EXCEPT !.free = free]
    BY DEF FlushAFreeSlot
  <2> HIDE DEF u, free
  <2> QED
    BY <1>2, <2>1
<1>4. DOMAIN free = classes /\ free = [k \in classes |-> free[k]]
  BY <1>2
<1> HIDE DEF free, u
<1>5. u.free = free /\ u.start = t.start /\ u.failed = t.failed /\ u \in Timelines(classes)
  BY <1>1, <1>2, <1>3, <1>4 DEF Timelines
<1>6. Tidy(t) => Tidy(u)
  BY <1>1, <1>2, <1>4, <1>5 DEF Tidy, Apart, EndBefore
<1>7. \A x : Taken(t, x) => Taken(u, x)
  BY <1>1, <1>2, <1>4, <1>5 DEF Taken, Untouched
<1> QED
  BY <1>5, <1>6, <1>7 DEF u

IInv ==
    /\ device \in Devices /\ now \in Nat /\ flushAt \in Nat
    /\ Present \in Orderly(device)

LEMMA FirstOrderly ==
  ASSUME Init
  PROVE  IInv
<1>1. ASSUME NEW classes \in SUBSET Positive
      PROVE  NewTimeline(classes) \in Timelines(classes) /\ Tidy(NewTimeline(classes))
  <2> DEFINE t == NewTimeline(classes)
  <2>1. /\ t.free = [k \in classes |-> {}] /\ t.start = 0 /\ t.failed = FALSE
        /\ t \in Timelines(classes)
    BY DEF NewTimeline, Timelines
  <2> HIDE DEF t
  <2>2. \A k \in DOMAIN t.free : t.free[k] = {}
    BY <2>1
  <2>3. Tidy(t)
    BY <2>1, <2>2 DEF Tidy, Apart, EndBefore
  <2> QED
    BY <2>1, <2>3 DEF t
<1>2. ChClasses \in SUBSET Positive /\ DieClasses \in SUBSET Positive /\ FlushPeriod \in Nat
  BY PALAssumption
<1>3. /\ ch \in [Channels(device) -> Timelines(ChClasses)]
      /\ die \in [Dies(device) -> Timelines(DieClasses)]
      /\ \A i \in Channels(device) : Tidy(ch[i])
      /\ \A j \in Dies(device) : Tidy(die[j])
  BY <1>1, <1>2 DEF Init, Channels, Dies
<1>4. grants \in Seq(Grant(device)) /\ Len(grants) = 0
  BY DEF Init
<1>5. /\ Present.ch = ch /\ Present.die = die /\ Present.grants = grants
      /\ Present \in Granting(device)
  BY <1>3, <1>4 DEF Present, Granting
<1>6. InOrder(device, Present)
  BY <1>3, <1>4, <1>5 DEF InOrder
<1> QED
  BY <1>2, <1>5, <1>6 DEF IInv, Init, Orderly

LEMMA ServeOrderly ==
  ASSUME IInv, NEW op \in Operations, Serve(op)
  PROVE  IInv'
<1>1. device \in Devices /\ now \in Nat /\ Present \in Orderly(device)
  BY DEF IInv
<1>2. PICK arrived \in now .. now + MaxAhead, b \in 0 .. SuperBlocks(device) - 1,
           page \in device.pages,
           ioFlag \in (SUBSET (0 .. PageInSuperPage(device) - 1)) \ {{}} :
         LET x == Commands(Present, op, arrived, b, page, ioFlag)
         IN  ch' = x.ch /\ die' = x.die /\ grants' = x.grants
  BY DEF Serve, Present
<1>3. arrived \in Nat /\ b \in Nat
  BY <1>1, PALAssumption
<1> DEFINE x == Commands(Present, op, arrived, b, page, ioFlag)
<1>4. x \in Orderly(device)
  BY <1>1, <1>3, Requests
<1>5. ch' = x.ch /\ die' = x.die /\ grants' = x.grants
  BY <1>2
<1>6. device' = device /\ now' = now /\ flushAt' = flushAt
  BY DEF Serve
<1> HIDE DEF x
<1>7. x = [ch |-> x.ch, die |-> x.die, grants |-> x.grants]
  BY <1>4 DEF Orderly, Granting
<1>8. Present' = x
  BY <1>5, <1>7 DEF Present
<1> QED
  BY <1>4, <1>6, <1>8 DEF IInv

LEMMA FlushOrderly ==
  ASSUME IInv, Flush
  PROVE  IInv'
<1> DEFINE N == Len(grants)
<1>1. /\ device \in Devices /\ now \in Nat /\ Present \in Orderly(device)
      /\ device' = device /\ now' = now /\ grants' = grants /\ flushAt' \in Nat
  BY PALAssumption DEF IInv, Flush
<1>2. Present.ch = ch /\ Present.die = die /\ Present.grants = grants
  BY DEF Present
<1>3. /\ ch \in [Channels(device) -> Timelines(ChClasses)]
      /\ die \in [Dies(device) -> Timelines(DieClasses)]
      /\ grants \in Seq(Grant(device)) /\ InOrder(device, Present)
  BY <1>1, <1>2 DEF Orderly, Granting
<1>4. /\ ch' \in [Channels(device) -> Timelines(ChClasses)]
      /\ \A i \in Channels(device) :
            Tidy(ch'[i]) /\ \A x : Taken(ch[i], x) => Taken(ch'[i], x)
  <2>1. \A i \in Channels(device) : ch'[i] = FlushAFreeSlot(ch[i], now - FlushRange)
    BY <1>3 DEF Flush
  <2>2. ch' = [i \in Channels(device) |-> FlushAFreeSlot(ch[i], now - FlushRange)]
    BY <1>3 DEF Flush
  <2>3. \A i \in Channels(device) : ch[i] \in Timelines(ChClasses) /\ Tidy(ch[i])
    BY <1>2, <1>3 DEF InOrder
  <2> QED
    BY <2>1, <2>2, <2>3, Flushes
<1>5. /\ die' \in [Dies(device) -> Timelines(DieClasses)]
      /\ \A j \in Dies(device) :
            Tidy(die'[j]) /\ \A x : Taken(die[j], x) => Taken(die'[j], x)
  <2>1. \A j \in Dies(device) : die'[j] = FlushAFreeSlot(die[j], now - FlushRange)
    BY <1>3 DEF Flush
  <2>2. die' = [j \in Dies(device) |-> FlushAFreeSlot(die[j], now - FlushRange)]
    BY <1>3 DEF Flush
  <2>3. \A j \in Dies(device) : die[j] \in Timelines(DieClasses) /\ Tidy(die[j])
    BY <1>2, <1>3 DEF InOrder
  <2> QED
    BY <2>1, <2>2, <2>3, Flushes
<1>6. /\ Present'.ch = ch' /\ Present'.die = die' /\ Present'.grants = grants
      /\ Present' \in Granting(device)
  BY <1>1, <1>3, <1>4, <1>5 DEF Present, Granting
<1>7. ASSUME NEW n \in 1 .. N PROVE Settled(Present', grants[n])
  <2> DEFINE g == grants[n]
  <2>1. g.ch \in Channels(device) /\ g.die \in Dies(device)
    <3>1. g \in Grant(device)
      BY <1>3
    <3> HIDE DEF g
    <3> QED BY <3>1 DEF Grant
  <2>2. Settled(Present, g)
    BY <1>2, <1>3 DEF InOrder
  <2> HIDE DEF g
  <2>3. Settled(Present', g)
    BY <1>2, <1>4, <1>5, <1>6, <2>1, <2>2 DEF Settled
  <2> QED
    BY <2>3 DEF g
<1>8. InOrder(device, Present')
  BY <1>2, <1>3, <1>4, <1>5, <1>6, <1>7 DEF InOrder
<1> QED
  BY <1>1, <1>6, <1>8 DEF IInv, Orderly

\* The invariant is inductive: no time that a command has been given is free
\* again, no two commands share a tick of a channel or a die, and every
\* command has its time in the right order.
THEOREM PALInvariant == Spec => []IInv
<1>1. Init => IInv
  BY FirstOrderly
<1>2. ASSUME IInv, [Next]_vars PROVE IInv'
  <2>1. CASE Read \/ Write \/ Erase
    BY <1>2, <2>1, ServeOrderly DEF Read, Write, Erase, Operations
  <2>2. CASE Flush
    BY <1>2, <2>2, FlushOrderly
  <2>3. CASE Tick
    <3>1. /\ device' = device /\ ch' = ch /\ die' = die /\ grants' = grants
          /\ flushAt' = flushAt /\ now' = now + 1
      BY <2>3 DEF Tick
    <3> QED
      BY <1>2, <3>1 DEF IInv, Present
  <2>4. CASE UNCHANGED vars
    BY <1>2, <2>4 DEF vars, IInv, Present
  <2> QED
    BY <1>2, <2>1, <2>2, <2>3, <2>4 DEF Next
<1> QED
  BY <1>1, <1>2, PTL DEF Spec

LEMMA OrderlyServed ==
  ASSUME IInv
  PROVE  Served
<1>1. /\ grants \in Seq(Grant(device))
      /\ \A n \in 1 .. Len(grants) : Enough(grants[n])
  BY DEF IInv, Orderly, Granting, InOrder, Present
<1>2. DOMAIN grants = 1 .. Len(grants)
  BY <1>1
<1> QED
  BY <1>1, <1>2 DEF Served, Enough

LEMMA OverlapBothWays ==
  ASSUME NEW a, NEW b
  PROVE  Overlap(a, b) <=> Overlap(b, a)
BY DEF Overlap

\* A tidy timeline with the times taken out of it.
LEMMA TidySound ==
  ASSUME NEW classes, NEW t \in Timelines(classes), Tidy(t), NEW taken,
         \A x \in taken : Taken(t, x)
  PROVE  Sound(t, taken)
<1>1. ASSUME NEW s \in FreeSlots(t)
      PROVE  s.to < t.start /\ \A x \in taken : ~Overlap(s, x)
  <2>1. PICK k \in DOMAIN t.free : s \in t.free[k]
    BY DEF FreeSlots
  <2> QED
    BY <2>1 DEF Tidy, EndBefore, Taken, Untouched
<1> QED
  BY <1>1 DEF Sound, Tidy, Apart, Taken

LEMMA OrderlyExclusive ==
  ASSUME IInv
  PROVE  Exclusive
<1> DEFINE N == Len(grants)
           part(a) == grants[a[1]][a[2]]
<1>1. Present.ch = ch /\ Present.die = die /\ Present.grants = grants
  BY DEF Present
<1>2. /\ ch \in [Channels(device) -> Timelines(ChClasses)]
      /\ die \in [Dies(device) -> Timelines(DieClasses)]
      /\ grants \in Seq(Grant(device)) /\ InOrder(device, Present)
  BY <1>1 DEF IInv, Orderly, Granting
<1>3. DOMAIN grants = 1 .. N /\ N \in Nat /\ \A n \in 1 .. N : grants[n] \in Grant(device)
  BY <1>2
<1>4. ASSUME NEW n \in 1 .. N
      PROVE  /\ Taken(ch[grants[n].ch], grants[n].dma0)
             /\ Taken(ch[grants[n].ch], grants[n].dma1)
             /\ Taken(die[grants[n].die], grants[n].mem)
             /\ ~Overlap(grants[n].dma0, grants[n].dma1)
  BY <1>1, <1>2 DEF InOrder, Settled, Enough
<1>5. ASSUME NEW n \in 1 .. N, NEW m \in 1 .. N, n < m PROVE Clear(grants[n], grants[m])
  BY <1>1, <1>2, <1>5 DEF InOrder
<1>6. ASSUME NEW i \in DOMAIN ch
      PROVE  /\ \A a, b \in Transfers(i) : a # b => ~Overlap(part(a), part(b))
             /\ Sound(ch[i], {part(a) : a \in Transfers(i)})
  <2>1. ASSUME NEW a \in Transfers(i)
        PROVE  /\ a[1] \in 1 .. N /\ a[2] \in {"dma0", "dma1"} /\ a = <<a[1], a[2]>>
               /\ grants[a[1]].ch = i
               /\ a[2] = "dma0" => part(a) = grants[a[1]].dma0
               /\ a[2] = "dma1" => part(a) = grants[a[1]].dma1
    BY <1>3 DEF Transfers
  <2> HIDE DEF part, N
  <2>2. ASSUME NEW a \in Transfers(i) PROVE Taken(ch[i], part(a))
    BY <1>4, <2>1
  <2>3. ASSUME NEW a \in Transfers(i), NEW b \in Transfers(i), a[1] < b[1]
        PROVE  ~Overlap(part(a), part(b))
    <3>1. Clear(grants[a[1]], grants[b[1]]) /\ grants[a[1]].ch = grants[b[1]].ch
      BY <1>5, <2>1, <2>3
    <3> QED
      BY <2>1, <3>1 DEF Clear
  <2>4. ASSUME NEW a \in Transfers(i), NEW b \in Transfers(i), a # b
        PROVE  ~Overlap(part(a), part(b))
    <3>1. a[1] \in 1 .. N /\ b[1] \in 1 .. N
      BY <2>1
    <3>2. CASE a[1] = b[1]
      <4>1. a[2] # b[2]
        BY <2>1, <2>4, <3>2
      <4>2. ~Overlap(grants[a[1]].dma0, grants[a[1]].dma1)
            /\ ~Overlap(grants[a[1]].dma1, grants[a[1]].dma0)
        BY <1>4, <3>1, OverlapBothWays
      <4> QED
        BY <2>1, <3>2, <4>1, <4>2
    <3>3. CASE a[1] < b[1]
      BY <2>3, <3>3
    <3>4. CASE b[1] < a[1]
      BY <2>3, <3>4, OverlapBothWays
    <3> QED
      BY <1>3, <3>1, <3>2, <3>3, <3>4
  <2>5. Sound(ch[i], {part(a) : a \in Transfers(i)})
    <3> DEFINE taken == {part(a) : a \in Transfers(i)}
    <3>1. \A x \in taken : Taken(ch[i], x)
      BY <2>2
    <3>2. ch[i] \in Timelines(ChClasses) /\ Tidy(ch[i])
      BY <1>1, <1>2 DEF InOrder
    <3> HIDE DEF taken
    <3>3. Sound(ch[i], taken)
      BY <3>1, <3>2, TidySound
    <3> QED
      BY <3>3 DEF taken
  <2> QED
    BY <2>4, <2>5
<1>7. ASSUME NEW j \in DOMAIN die
      PROVE  LET mine == {n \in DOMAIN grants : grants[n].die = j}
             IN  /\ \A a, b \in mine : a # b => ~Overlap(grants[a].mem, grants[b].mem)
                 /\ Sound(die[j], {grants[n].mem : n \in mine})
  <2> DEFINE mine == {n \in DOMAIN grants : grants[n].die = j}
             taken == {grants[n].mem : n \in mine}
  <2>1. \A n \in mine : n \in 1 .. N /\ grants[n].die = j
    BY <1>3
  <2> HIDE DEF mine, N
  <2>2. ASSUME NEW a \in mine, NEW b \in mine, a < b
        PROVE  ~Overlap(grants[a].mem, grants[b].mem)
    BY <1>5, <2>1, <2>2 DEF Clear
  <2>3. ASSUME NEW a \in mine, NEW b \in mine, a # b
        PROVE  ~Overlap(grants[a].mem, grants[b].mem)
    <3>1. CASE a < b
      BY <2>2, <3>1
    <3>2. CASE b < a
      BY <2>2, <3>2, OverlapBothWays
    <3> QED
      BY <1>3, <2>1, <2>3, <3>1, <3>2
  <2>4. \A x \in taken : Taken(die[j], x)
    BY <1>4, <2>1
  <2>5. die[j] \in Timelines(DieClasses) /\ Tidy(die[j])
    BY <1>1, <1>2 DEF InOrder
  <2> HIDE DEF taken
  <2>6. Sound(die[j], taken)
    BY <2>4, <2>5, TidySound
  <2> QED
    BY <2>3, <2>6 DEF mine, taken
<1> HIDE DEF N
<1> QED
  BY <1>6, <1>7 DEF Exclusive

\* No tick of a channel or of a die is given to two commands, and what is
\* recorded as free belongs to nobody (InsertFreeSlot, FlushFreeSlots): for
\* every device, timing and set of classes, any number of commands, and
\* requests that arrive in any order.
THEOREM ExclusiveHolds == Spec => []Exclusive
<1>1. IInv => Exclusive
  BY OrderlyExclusive
<1> QED
  BY <1>1, PALInvariant, PTL

\* Whatever slots the two loops of TimelineScheduling settle on, a command
\* has them in order: nothing before it arrived, the whole flash operation
\* between its transfers, the die from the first to the last.
THEOREM ServedHolds == Spec => []Served
<1>1. IInv => Served
  BY OrderlyServed
<1> QED
  BY <1>1, PALInvariant, PTL

-----------------------------------------------------------------------------
(* The flush *)

\* A search from the tick of the flush on does not notice it.
LEMMA SamePlace ==
  ASSUME NEW classes, NEW t \in Timelines(classes), NEW old \in Int,
         NEW len \in Positive, NEW from \in Nat, old <= from
  PROVE  Place(FlushAFreeSlot(t, old), len, from) = Place(t, len, from)
<1> DEFINE u == FlushAFreeSlot(t, old)
           K == Visited(t, len)
<1>0. len \in Nat /\ len > 0
  BY DEF Positive
<1>1. /\ u \in Timelines(classes) /\ DOMAIN t.free = classes
      /\ t.free \in [classes -> SUBSET FreeSlot]
  BY Flushes DEF Timelines
<1>2. u.start = t.start /\ Visited(u, len) = K
  <2>1. u.start = t.start
    BY DEF FlushAFreeSlot, Timelines
  <2> HIDE DEF u
  <2> QED BY <1>1, <2>1, SameClasses
<1>3. \A k \in classes : u.free[k] = {s \in t.free[k] : \E r \in t.free[k] :
                                         r.from <= s.from /\ r.to >= old}
  <2> DEFINE F == [k \in DOMAIN t.free |->
                     {s \in t.free[k] : \E r \in t.free[k] : r.from <= s.from /\ r.to >= old}]
  <2>1. u = [t EXCEPT !.free = F]
    BY DEF FlushAFreeSlot
  <2>2. u.free = F
    <3> HIDE DEF F, u
    <3> QED BY <2>1 DEF Timelines
  <2> QED
    BY <1>1, <2>2
<1> HIDE DEF u
<1>4. K \subseteq classes
  BY <1>1 DEF Visited
<1>5. ASSUME NEW k \in classes, NEW s
      PROVE  s \in Latest(t.free[k], from) /\ Fits(s, len, from)
                <=> s \in Latest(u.free[k], from) /\ Fits(s, len, from)
  <2> DEFINE A == t.free[k]
             B == u.free[k]
  <2>1. B = {q \in A : \E r \in A : r.from <= q.from /\ r.to >= old}
        /\ \A q \in A : q.from \in Nat /\ q.to \in Nat
    BY <1>1, <1>3 DEF FreeSlot
  <2> HIDE DEF A, B
  <2>2. ASSUME s \in A, Fits(s, len, from) PROVE s.to >= old /\ s \in B
    BY <1>0, <2>1, <2>2 DEF Fits
  <2>3. ASSUME s \in Latest(A, from), Fits(s, len, from) PROVE s \in Latest(B, from)
    BY <2>1, <2>2, <2>3 DEF Latest
  <2>4. ASSUME s \in Latest(B, from), Fits(s, len, from) PROVE s \in Latest(A, from)
    <3>1. s \in B /\ s \in A /\ s.from <= from /\ s.to >= old
          /\ \A r \in B : r.from <= from => r.from <= s.from
      BY <2>1, <2>2, <2>4 DEF Latest
    <3>2. ASSUME NEW r \in A, r.from <= from PROVE r.from <= s.from
      <4>1. CASE r \in B
        BY <3>1, <3>2, <4>1
      <4>2. CASE r \notin B
        <5>1. ~(s.from <= r.from)
          BY <2>1, <3>1, <4>2
        <5> QED
          BY <2>1, <3>1, <5>1
      <4> QED
        BY <4>1, <4>2
    <3> QED
      BY <3>1, <3>2 DEF Latest
  <2> QED
    BY <2>3, <2>4 DEF A, B
<1>6. ASSUME NEW k \in classes, NEW s
      PROVE  s \in t.free[k] /\ s.from > from /\ Fits(s, len, s.from)
                <=> s \in u.free[k] /\ s.from > from /\ Fits(s, len, s.from)
  <2>1. ASSUME s \in t.free[k], s.from > from, Fits(s, len, s.from) PROVE s \in u.free[k]
    <3>1. s.from \in Nat /\ s.to \in Nat
      BY <1>1, <2>1 DEF FreeSlot
    <3>2. s.to >= old
      BY <1>0, <2>1, <3>1 DEF Fits
    <3> QED
      BY <1>3, <2>1, <3>1, <3>2
  <2> QED
    BY <1>3, <2>1
<1> DEFINE V == {t.free[k] : k \in K}
           W == {u.free[k] : k \in K}
<1>7. Holding(V, len, from) = Holding(W, len, from)
  <2>1. ASSUME NEW s
        PROVE  /\ s \in Holding(V, len, from) <=>
                     \E k \in K : s \in Latest(t.free[k], from) /\ Fits(s, len, from)
               /\ s \in Holding(W, len, from) <=>
                     \E k \in K : s \in Latest(u.free[k], from) /\ Fits(s, len, from)
    BY DEF Holding
  <2> HIDE DEF V, W
  <2>2. \A s : s \in Holding(V, len, from) <=> s \in Holding(W, len, from)
    BY <1>4, <1>5, <2>1
  <2> QED
    BY <2>2 DEF Holding
<1>8. Later(V, len, from) = Later(W, len, from)
  <2>1. ASSUME NEW s
        PROVE  /\ s \in Later(V, len, from) <=>
                     \E k \in K : s \in t.free[k] /\ s.from > from /\ Fits(s, len, s.from)
               /\ s \in Later(W, len, from) <=>
                     \E k \in K : s \in u.free[k] /\ s.from > from /\ Fits(s, len, s.from)
    BY DEF Later
  <2> HIDE DEF V, W
  <2>2. \A s : s \in Later(V, len, from) <=> s \in Later(W, len, from)
    BY <1>4, <1>6, <2>1
  <2> QED
    BY <2>2 DEF Later
<1> HIDE DEF V, W, K
<1>9. /\ FindFreeTime(t, len, from)
            = Found(Holding(V, len, from), Later(V, len, from), t.start, from)
      /\ FindFreeTime(u, len, from)
            = Found(Holding(W, len, from), Later(W, len, from), u.start, from)
  BY <1>2 DEF FindFreeTime, V, W, K
<1> QED
  BY <1>2, <1>7, <1>8, <1>9 DEF Place, u

\* Two loops that agree from a tick on end alike from there.
Agree(old, E, R, G, E2, R2, G2) ==
    \A n \in Nat : old <= n => /\ n \in E <=> n \in E2
                               /\ R[n] = R2[n] /\ G[n] = G2[n]

LEMMA LoopsAgree ==
  ASSUME NEW N \in Nat, NEW Ends, NEW R, NEW G, Forward(N, Ends, G),
         NEW Ends2, NEW R2, NEW G2, NEW old \in Int, Agree(old, Ends, R, G, Ends2, R2, G2),
         NEW f, Looping(f, Ends, R, G), NEW g, Looping(g, Ends2, R2, G2),
         NEW from \in Nat, old <= from
  PROVE  f[from] = g[from]
<1> DEFINE T == {k \in Nat : \E n \in Nat : old <= n /\ N <= n + k /\ f[n] # g[n]}
<1>0. ASSUME NEW n \in Nat
      PROVE  /\ f[n] = IF n \in Ends THEN R[n] ELSE f[G[n]]
             /\ g[n] = IF n \in Ends2 THEN R2[n] ELSE g[G2[n]]
  BY DEF Looping
<1>1. ASSUME NEW k \in T PROVE \E j \in T : j < k
  <2>1. PICK n \in Nat : old <= n /\ N <= n + k /\ f[n] # g[n]
    OBVIOUS
  <2>2. n \notin Ends /\ n \notin Ends2 /\ f[n] = f[G[n]] /\ g[n] = g[G[n]]
    BY <1>0, <2>1 DEF Agree
  <2>3. n < N /\ G[n] \in Nat /\ n < G[n]
    BY <2>2 DEF Forward
  <2>4. k - 1 \in Nat /\ N <= G[n] + (k - 1) /\ old <= G[n] /\ k \in Nat
    BY <2>1, <2>3
  <2>5. k - 1 \in T
    BY <2>1, <2>2, <2>3, <2>4
  <2> QED
    BY <2>4, <2>5
<1>2. T = {}
  <2> SUFFICES ASSUME T # {} PROVE FALSE
    OBVIOUS
  <2>1. T \in SUBSET Nat
    OBVIOUS
  <2> HIDE DEF T
  <2>2. PICK m \in T : \A k \in T : m <= k
    BY <2>1, LeastNat
  <2>3. PICK j \in T : j < m
    BY <1>1
  <2> QED
    BY <2>1, <2>2, <2>3
<1>3. N \notin T
  BY <1>2
<1> QED
  BY <1>3

\* Neither do the loops.
LEMMA SameLoop1 ==
  ASSUME NEW cc \in SUBSET Positive, NEW dc \in SUBSET Positive,
         NEW c \in Timelines(cc), NEW d \in Timelines(dc), Tidy(c), Tidy(d),
         NEW lat \in Latencies, NEW old \in Int, NEW from \in Nat, old <= from
  PROVE  Loop1(FlushAFreeSlot(c, old), FlushAFreeSlot(d, old), lat, from)
            = Loop1(c, d, lat, from)
<1> DEFINE c2 == FlushAFreeSlot(c, old)
           d2 == FlushAFreeSlot(d, old)
<1>0. lat.dma0 \in Positive /\ lat.dma0 + lat.mem \in Positive
  BY DEF Latencies, Positive
<1>1. c2 \in Timelines(cc) /\ d2 \in Timelines(dc) /\ Tidy(c2) /\ Tidy(d2)
  BY Flushes
<1>2. ASSUME NEW n \in Nat, old <= n
      PROVE  Loop1Turn(c2, d2, lat, n) = Loop1Turn(c, d, lat, n)
  <2> DEFINE dma0 == Place(c, lat.dma0, n)
             mem == Place(d, lat.dma0 + lat.mem, dma0.from)
  <2>1. Place(c2, lat.dma0, n) = dma0 /\ dma0.from \in Nat /\ n <= dma0.from
    BY <1>0, <1>2, SamePlace, FindsRoom
  <2> HIDE DEF dma0
  <2>2. /\ Place(d2, lat.dma0 + lat.mem, dma0.from) = mem
        /\ mem.from \in Nat /\ dma0.from <= mem.from
    <3>1. old <= dma0.from
      BY <1>2, <2>1
    <3> QED BY <1>0, <2>1, <3>1, SamePlace, FindsRoom
  <2> HIDE DEF mem
  <2>3. Place(c2, lat.dma0, mem.from) = Place(c, lat.dma0, mem.from)
    <3>1. old <= mem.from
      BY <1>2, <2>1, <2>2
    <3> QED BY <1>0, <2>2, <3>1, SamePlace
  <2> HIDE DEF c2, d2
  <2> QED
    BY <2>1, <2>2, <2>3 DEF Loop1Turn, Loop1Channel, Loop1Die, dma0, mem
<1> DEFINE E == Ends1(c, d, lat)
           R == Turns1(c, d, lat)
           G == Next1(c, d, lat)
           E2 == Ends1(c2, d2, lat)
           R2 == Turns1(c2, d2, lat)
           G2 == Next1(c2, d2, lat)
<1> HIDE DEF c2, d2
<1>3. Agree(old, E, R, G, E2, R2, G2)
  BY <1>2 DEF Agree, Ends1, Turns1, Next1
<1>4. /\ d.start \in Nat /\ Forward(d.start, E, G)
      /\ \E f : Loop1(c, d, lat, from) = f[from] /\ Looping(f, E, R, G)
  BY Loop1Loops
<1>5. \E f : Loop1(c2, d2, lat, from) = f[from] /\ Looping(f, E2, R2, G2)
  BY <1>1, Loop1Loops
<1>6. PICK f : Loop1(c, d, lat, from) = f[from] /\ Looping(f, E, R, G)
  BY <1>4
<1>7. PICK g : Loop1(c2, d2, lat, from) = g[from] /\ Looping(g, E2, R2, G2)
  BY <1>5
<1> HIDE DEF E, R, G, E2, R2, G2
<1>8. f[from] = g[from]
  BY <1>3, <1>4, <1>6, <1>7, LoopsAgree
<1> QED
  BY <1>6, <1>7, <1>8 DEF c2, d2

LEMMA SameLoop0 ==
  ASSUME NEW cc \in SUBSET Positive, NEW dc \in SUBSET Positive,
         NEW c \in Timelines(cc), NEW d \in Timelines(dc), Tidy(c), Tidy(d),
         NEW lat \in Latencies, NEW old \in Int, NEW from \in Nat, old <= from
  PROVE  Loop0(FlushAFreeSlot(c, old), FlushAFreeSlot(d, old), lat, from)
            = Loop0(c, d, lat, from)
<1> DEFINE c2 == FlushAFreeSlot(c, old)
           d2 == FlushAFreeSlot(d, old)
<1>0. /\ lat.dma0 \in Positive /\ lat.mem \in Nat /\ lat.dma1 + lat.anti \in Positive
      /\ lat.dma0 \in Nat /\ lat.dma1 \in Nat /\ lat.anti \in Nat /\ lat.dma1 > 0
  BY DEF Latencies, Positive
<1>1. c2 \in Timelines(cc) /\ d2 \in Timelines(dc) /\ Tidy(c2) /\ Tidy(d2)
  BY Flushes
<1>2. ASSUME NEW n \in Nat, old <= n
      PROVE  Loop0Turn(c2, d2, lat, n) = Loop0Turn(c, d, lat, n)
  <2> DEFINE y == Loop1(c, d, lat, n)
             after == y.from + lat.dma0 + lat.mem
             p == Place(c, lat.dma1 + lat.anti, after)
             total == p.from + lat.dma1 + lat.anti - y.from
  <2>1. Loop1(c2, d2, lat, n) = y /\ y.from \in Nat /\ n <= y.from
    BY <1>2, SameLoop1, Loop1Fits DEF Fitting1
  <2> HIDE DEF y
  <2>2. after \in Nat /\ old <= after /\ old <= y.from
    BY <1>0, <1>2, <2>1
  <2>3. /\ Place(c2, lat.dma1 + lat.anti, after) = p
        /\ p.from \in Nat /\ after <= p.from
    <3> HIDE DEF after
    <3> QED BY <1>0, <2>2, SamePlace, FindsRoom
  <2> HIDE DEF p
  <2>4. total \in Positive
    BY <1>0, <2>1, <2>3 DEF Positive
  <2>5. Place(d2, total, y.from) = Place(d, total, y.from)
    <3> HIDE DEF total
    <3> QED BY <2>1, <2>2, <2>4, SamePlace
  <2> HIDE DEF c2, d2
  <2> QED
    BY <2>1, <2>3, <2>5
       DEF Loop0Turn, Loop0Found, Loop0Placed, Loop0DMA1, Loop0Die, FindDMA1, DMA1From, y, p
<1> DEFINE E == Ends0(c, d, lat)
           R == Turns0(c, d, lat)
           G == Next0(c, d, lat)
           E2 == Ends0(c2, d2, lat)
           R2 == Turns0(c2, d2, lat)
           G2 == Next0(c2, d2, lat)
<1> HIDE DEF c2, d2
<1>3. Agree(old, E, R, G, E2, R2, G2)
  BY <1>2 DEF Agree, Ends0, Turns0, Next0
<1>4. /\ d.start \in Nat /\ Forward(d.start, E, G)
      /\ \E f : Loop0(c, d, lat, from) = f[from] /\ Looping(f, E, R, G)
  BY Loop0Loops
<1>5. \E f : Loop0(c2, d2, lat, from) = f[from] /\ Looping(f, E2, R2, G2)
  BY <1>1, Loop0Loops
<1>6. PICK f : Loop0(c, d, lat, from) = f[from] /\ Looping(f, E, R, G)
  BY <1>4
<1>7. PICK g : Loop0(c2, d2, lat, from) = g[from] /\ Looping(g, E2, R2, G2)
  BY <1>5
<1> HIDE DEF E, R, G, E2, R2, G2
<1>8. f[from] = g[from]
  BY <1>3, <1>4, <1>6, <1>7, LoopsAgree
<1> QED
  BY <1>6, <1>7, <1>8 DEF c2, d2

LEMMA OrderlyHarmless ==
  ASSUME IInv
  PROVE  FlushHarmless
<1> SUFFICES ASSUME NEW op \in Operations, NEW page \in device.pages,
                    NEW i \in DOMAIN ch, NEW j \in DOMAIN die
             PROVE  LET old == now - FlushRange
                        lat == GetLatency(page, op)
                    IN  SameTimes(Schedule(ch[i], die[j], lat, now),
                                  Schedule(FlushAFreeSlot(ch[i], old),
                                           FlushAFreeSlot(die[j], old), lat, now))
  BY DEF FlushHarmless
<1> DEFINE old == now - FlushRange
           lat == GetLatency(page, op)
           c == ch[i]
           d == die[j]
           c2 == FlushAFreeSlot(c, old)
           d2 == FlushAFreeSlot(d, old)
           r == Schedule(c, d, lat, now)
           q == Schedule(c2, d2, lat, now)
           y == Loop0(c, d, lat, now)
<1>1. /\ device \in Devices /\ now \in Nat /\ old \in Int /\ old <= now
      /\ ChClasses \in SUBSET Positive /\ DieClasses \in SUBSET Positive
  BY PALAssumption DEF IInv
<1>2. /\ ch \in [Channels(device) -> Timelines(ChClasses)]
      /\ die \in [Dies(device) -> Timelines(DieClasses)] /\ InOrder(device, Present)
  BY DEF IInv, Orderly, Granting, Present
<1>3. c \in Timelines(ChClasses) /\ d \in Timelines(DieClasses) /\ Tidy(c) /\ Tidy(d)
  BY <1>2 DEF InOrder, Present
<1>4. lat \in Latencies /\ \E small \in ChClasses : small <= lat.mem + lat.dma1 + lat.anti
  BY <1>1, LatencyFits
<1> HIDE DEF lat, c, d, old
<1>5. PICK small \in ChClasses : small <= lat.mem + lat.dma1 + lat.anti
  BY <1>4
<1>6. /\ c2 \in Timelines(ChClasses) /\ d2 \in Timelines(DieClasses)
      /\ Tidy(c2) /\ Tidy(d2)
  BY <1>3, Flushes
<1>7. Loop0(c2, d2, lat, now) = y
  BY <1>1, <1>3, <1>4, SameLoop0
<1> HIDE DEF c2, d2
<1>8. /\ r.dma0 = Slot(y.from, lat.dma0) /\ r.mem = Slot(y.from, y.total)
      /\ r.dma1 = Slot(y.dma1From + lat.anti, lat.dma1)
  BY <1>1, <1>3, <1>4, <1>5, Schedules
<1>9. /\ q.dma0 = Slot(y.from, lat.dma0) /\ q.mem = Slot(y.from, y.total)
      /\ q.dma1 = Slot(y.dma1From + lat.anti, lat.dma1)
  BY <1>1, <1>4, <1>5, <1>6, <1>7, Schedules
<1> HIDE DEF y, r, q
<1>10. SameTimes(r, q)
  BY <1>8, <1>9 DEF SameTimes
<1> QED
  BY <1>10 DEF r, q, c, d, c2, d2, lat, old

\* The periodic flush (FlushFreeSlots) never changes what a command is given:
\* the slots it forgets are none that a search from now on would settle on.
THEOREM FlushHarmlessHolds == Spec => []FlushHarmless
<1>1. IInv => FlushHarmless
  BY OrderlyHarmless
<1> QED
  BY <1>1, PALInvariant, PTL

-----------------------------------------------------------------------------
(* The layout of superblocks *)

\* Division with remainder.
LEMMA Quotient ==
  ASSUME NEW m \in Positive, NEW n \in Nat
  PROVE  /\ n \div m \in Nat /\ n % m \in 0 .. m - 1
         /\ n = m * (n \div m) + (n % m)
<1>1. m \in Nat /\ m > 0
  BY DEF Positive
<1>2. n \div m \in Nat
  BY <1>1
<1>3. n % m \in 0 .. m - 1
  BY <1>1
<1>4. n = m * (n \div m) + (n % m)
  BY <1>1, <1>2, <1>3
<1> QED
  BY <1>2, <1>3, <1>4

LEMMA QuotientIs ==
  ASSUME NEW m \in Positive, NEW q \in Nat, NEW r \in 0 .. m - 1
  PROVE  /\ m * q + r \in Nat
         /\ (m * q + r) \div m = q /\ (m * q + r) % m = r
<1> DEFINE n == m * q + r
<1>0. m \in Nat /\ m > 0 /\ r \in Nat /\ r < m /\ m * q \in Nat
  BY DEF Positive
<1>1. n \in Nat
  BY <1>0
<1> DEFINE x == n \div m
           y == n % m
<1> HIDE DEF n
<1>2. x \in Nat /\ y \in 0 .. m - 1 /\ n = m * x + y
  BY <1>1, Quotient
<1>3. m * q + r = m * x + y
  BY <1>2 DEF n
<1> HIDE DEF x, y
<1>4. ~(q < x)
  <2> SUFFICES ASSUME q < x PROVE FALSE
    OBVIOUS
  <2>1. m * x >= m * (q + 1)
    BY <1>0, <1>2
  <2>2. m * (q + 1) = m * q + m
    BY <1>0
  <2>3. m * x \in Nat /\ m * (q + 1) \in Nat
    BY <1>0, <1>2
  <2> QED BY <1>0, <1>2, <1>3, <2>1, <2>2, <2>3
<1>5. ~(x < q)
  <2> SUFFICES ASSUME x < q PROVE FALSE
    OBVIOUS
  <2>1. m * q >= m * (x + 1)
    BY <1>0, <1>2
  <2>2. m * (x + 1) = m * x + m
    BY <1>0, <1>2
  <2>3. m * x \in Nat /\ m * (x + 1) \in Nat
    BY <1>0, <1>2
  <2> QED BY <1>0, <1>2, <1>3, <2>1, <2>2, <2>3
<1>6. q = x
  BY <1>2, <1>4, <1>5
<1>7. r = y
  BY <1>0, <1>2, <1>3, <1>6
<1> QED
  BY <1>1, <1>6, <1>7 DEF x, y, n

LEMMA TwoQuotients ==
  ASSUME NEW a \in Positive, NEW b \in Positive, NEW n \in Nat
  PROVE  (n \div a) \div b = n \div (a * b)
<1> DEFINE q == n \div a
           r == n % a
           p == q \div b
           t == q % b
<1>1. q \in Nat /\ r \in 0 .. a - 1 /\ n = a * q + r
  BY Quotient
<1> HIDE DEF q, r
<1>2. p \in Nat /\ t \in 0 .. b - 1 /\ q = b * p + t
  BY <1>1, Quotient
<1> HIDE DEF p, t
<1>3. a * b \in Positive
  BY PositiveProduct
<1>4. a * t + r \in 0 .. a * b - 1
  <2>1. a * t <= a * (b - 1) /\ a * t \in Nat
    BY <1>2 DEF Positive
  <2>2. a * (b - 1) = a * b - a
    BY DEF Positive
  <2> QED BY <1>1, <1>3, <2>1, <2>2 DEF Positive
<1>5. n = (a * b) * p + (a * t + r)
  BY <1>1, <1>2 DEF Positive
<1>6. n \div (a * b) = p
  BY <1>2, <1>3, <1>4, <1>5, QuotientIs
<1> QED
  BY <1>6 DEF p, q

\* The dimensions in their order.
LEMMA Order ==
  ASSUME NEW d \in Devices
  PROVE  /\ \A i \in 1 .. 4 : d.alloc[i] \in Dimensions /\ Position(d, d.alloc[i]) = i
         /\ \A k \in Dimensions : Position(d, k) \in 1 .. 4 /\ d.alloc[Position(d, k)] = k
<1>1. /\ d.alloc \in [1 .. 4 -> Dimensions]
      /\ \A k \in Dimensions : \E i \in 1 .. 4 : d.alloc[i] = k
  BY DeviceAssumption
<1>2. \A i \in 1 .. 4, j \in 1 .. 4 : d.alloc[i] = d.alloc[j] => i = j
  <2> DEFINE p == d.alloc[1]
             q == d.alloc[2]
             r == d.alloc[3]
             t == d.alloc[4]
  <2>1. \A k \in {"C", "W", "D", "P"} : k = p \/ k = q \/ k = r \/ k = t
    <3>1. \A i \in 1 .. 4 : i = 1 \/ i = 2 \/ i = 3 \/ i = 4
      OBVIOUS
    <3> QED BY <1>1, <3>1 DEF Dimensions
  <2>2. p # q /\ p # r /\ p # t /\ q # r /\ q # t /\ r # t
    <3> HIDE DEF p, q, r, t
    <3> QED BY <2>1
  <2> QED
    BY <2>2
<1>3. ASSUME NEW k \in Dimensions
      PROVE  Position(d, k) \in 1 .. 4 /\ d.alloc[Position(d, k)] = k
  BY <1>1 DEF Position
<1> QED
  BY <1>1, <1>2, <1>3

Before(d, dims, m) == {j \in dims : Position(d, j) < m}

LEMMA PositiveSizes ==
  ASSUME NEW d \in Devices, NEW dims
  PROVE  /\ Product(d, dims) \in Positive
         /\ \A k \in Dimensions : d.size[k] \in Positive /\ Size(d, dims, k) \in Positive
<1>1. \A k \in Dimensions : d.size[k] \in Positive
  BY DeviceAssumption
<1>2. \A k \in Dimensions : Size(d, dims, k) \in Positive
  BY <1>1 DEF Size, Positive
<1>3. Size(d, dims, "C") \in Positive /\ Size(d, dims, "W") \in Positive
      /\ Size(d, dims, "D") \in Positive /\ Size(d, dims, "P") \in Positive
  BY <1>2 DEF Dimensions
<1> QED
  BY <1>1, <1>2, <1>3, PositiveProduct DEF Product

\* Counting in the order of the dimensions, one more dimension multiplies by
\* its size.
LEMMA OneMoreDimension ==
  ASSUME NEW d \in Devices, NEW dims \in SUBSET Dimensions, NEW m \in 1 .. 4
  PROVE  Product(d, Before(d, dims, m + 1))
           = Product(d, Before(d, dims, m)) * Size(d, dims, d.alloc[m])
<1> DEFINE k == d.alloc[m]
           B == Before(d, dims, m)
           A == Before(d, dims, m + 1)
<1>1. k \in Dimensions /\ k \notin B
  BY Order DEF Before
<1>2. A = B \cup (dims \cap {k})
  <2>1. ASSUME NEW j \in dims PROVE Position(d, j) < m + 1 <=> Position(d, j) < m \/ j = k
    BY Order
  <2> QED BY <2>1 DEF Before
<1>3. \A j \in Dimensions : j # k => Size(d, A, j) = Size(d, B, j)
  BY <1>2 DEF Size
<1>4. Size(d, A, k) = Size(d, dims, k) /\ Size(d, B, k) = 1
  BY <1>1, <1>2 DEF Size
<1> DEFINE c == Size(d, B, "C")
           w == Size(d, B, "W")
           e == Size(d, B, "D")
           p == Size(d, B, "P")
           s == Size(d, dims, k)
<1>5. c \in Positive /\ w \in Positive /\ e \in Positive /\ p \in Positive /\ s \in Positive
  BY <1>1, PositiveSizes DEF Dimensions
<1>6. Product(d, B) = c * w * e * p
  BY DEF Product
<1>7. \/ k = "C" /\ c = 1 /\ Product(d, A) = s * w * e * p
      \/ k = "W" /\ w = 1 /\ Product(d, A) = c * s * e * p
      \/ k = "D" /\ e = 1 /\ Product(d, A) = c * w * s * p
      \/ k = "P" /\ p = 1 /\ Product(d, A) = c * w * e * s
  BY <1>1, <1>3, <1>4 DEF Product, Dimensions
<1> HIDE DEF c, w, e, p, s
<1>8. Product(d, A) = Product(d, B) * s
  <2>1. c \in Nat /\ w \in Nat /\ e \in Nat /\ p \in Nat /\ s \in Nat
    BY <1>5 DEF Positive
  <2>2. c * w \in Nat /\ c * w * e \in Nat /\ w * e \in Nat
    BY <2>1
  <2> QED BY <1>6, <1>7, <2>1, <2>2
<1> QED
  BY <1>8 DEF s

\* What is left of n, dimension by dimension.
Left(d, dims, n, m) == n \div Product(d, Before(d, dims, m))

LEMMA Leftovers ==
  ASSUME NEW d \in Devices, NEW dims \in SUBSET Dimensions, NEW n \in Nat
  PROVE  /\ \A m \in 1 .. 5 : Left(d, dims, n, m) \in Nat
         /\ Left(d, dims, n, 1) = n
         /\ Left(d, dims, n, 5) = Rest(d, dims, n)
         /\ \A m \in 1 .. 4 :
               /\ Left(d, dims, n, m + 1)
                     = Left(d, dims, n, m) \div Size(d, dims, d.alloc[m])
               /\ d.alloc[m] \in dims =>
                     Digit(d, dims, d.alloc[m], n)
                        = Left(d, dims, n, m) % Size(d, dims, d.alloc[m])
<1>1. ASSUME NEW m \in 1 .. 5 PROVE Left(d, dims, n, m) \in Nat
  BY PositiveSizes, Quotient DEF Left
<1>2. Left(d, dims, n, 1) = n
  <2>1. Before(d, dims, 1) = {}
    BY Order DEF Before
  <2>2. Product(d, {}) = 1
    BY DEF Product, Size
  <2>3. n \div 1 = n
    OBVIOUS
  <2> QED BY <2>1, <2>2, <2>3 DEF Left
<1>3. Left(d, dims, n, 5) = Rest(d, dims, n)
  <2>1. Before(d, dims, 5) = dims
    BY Order DEF Before
  <2> QED BY <2>1 DEF Left, Rest
<1>4. ASSUME NEW m \in 1 .. 4
      PROVE  Left(d, dims, n, m + 1) = Left(d, dims, n, m) \div Size(d, dims, d.alloc[m])
  <2>1. Product(d, Before(d, dims, m)) \in Positive
        /\ Size(d, dims, d.alloc[m]) \in Positive
    BY PositiveSizes, Order
  <2>2. Product(d, Before(d, dims, m + 1))
          = Product(d, Before(d, dims, m)) * Size(d, dims, d.alloc[m])
    BY OneMoreDimension
  <2> QED BY <2>1, <2>2, TwoQuotients DEF Left
<1>5. ASSUME NEW m \in 1 .. 4, d.alloc[m] \in dims
      PROVE  Digit(d, dims, d.alloc[m], n)
                = Left(d, dims, n, m) % Size(d, dims, d.alloc[m])
  <2>1. Below(d, dims, d.alloc[m]) = Product(d, Before(d, dims, m))
    BY Order DEF Below, Before
  <2>2. Size(d, dims, d.alloc[m]) = d.size[d.alloc[m]]
    BY <1>5 DEF Size
  <2> QED BY <2>1, <2>2 DEF Digit, Left
<1> QED
  BY <1>1, <1>2, <1>3, <1>4, <1>5

\* A number has its digits, and no other number has them.
LEMMA SameNumber ==
  ASSUME NEW d \in Devices, NEW dims \in SUBSET Dimensions, NEW a \in Nat, NEW b \in Nat,
         Rest(d, dims, a) = Rest(d, dims, b),
         \A k \in dims : Digit(d, dims, k, a) = Digit(d, dims, k, b)
  PROVE  a = b
<1>0. \A n \in {a, b} :
         /\ \A m \in 1 .. 5 : Left(d, dims, n, m) \in Nat
         /\ Left(d, dims, n, 1) = n
         /\ Left(d, dims, n, 5) = Rest(d, dims, n)
         /\ \A m \in 1 .. 4 :
               /\ Left(d, dims, n, m + 1)
                     = Left(d, dims, n, m) \div Size(d, dims, d.alloc[m])
               /\ d.alloc[m] \in dims =>
                     Digit(d, dims, d.alloc[m], n)
                        = Left(d, dims, n, m) % Size(d, dims, d.alloc[m])
  BY Leftovers
<1>1. ASSUME NEW m \in 1 .. 4, Left(d, dims, a, m + 1) = Left(d, dims, b, m + 1)
      PROVE  Left(d, dims, a, m) = Left(d, dims, b, m)
  <2> DEFINE s == Size(d, dims, d.alloc[m])
             x == Left(d, dims, a, m)
             y == Left(d, dims, b, m)
  <2>0. d.alloc[m] \in Dimensions
    BY Order
  <2>1. s \in Positive /\ x \in Nat /\ y \in Nat
    <3>1. s \in Positive
      BY <2>0, PositiveSizes
    <3>2. x \in Nat /\ y \in Nat
      BY <1>0
    <3> QED BY <3>1, <3>2
  <2>2. x \div s = y \div s
    BY <1>0, <1>1
  <2>3. x % s = y % s
    <3>1. CASE d.alloc[m] \in dims
      BY <1>0, <3>1
    <3>2. CASE d.alloc[m] \notin dims
      <4>1. s = 1
        BY <3>2 DEF Size
      <4> QED BY <2>1, <4>1
    <3> QED BY <3>1, <3>2
  <2> HIDE DEF s, x, y
  <2>4. x = s * (x \div s) + (x % s) /\ y = s * (y \div s) + (y % s)
    BY <2>1, Quotient
  <2>5. x = y
    BY <2>2, <2>3, <2>4
  <2> QED
    BY <2>5 DEF x, y
<1>2. Left(d, dims, a, 5) = Left(d, dims, b, 5)
  BY <1>0
<1>3. Left(d, dims, a, 4) = Left(d, dims, b, 4)
  BY <1>1, <1>2
<1>4. Left(d, dims, a, 3) = Left(d, dims, b, 3)
  BY <1>1, <1>3
<1>5. Left(d, dims, a, 2) = Left(d, dims, b, 2)
  BY <1>1, <1>4
<1>6. Left(d, dims, a, 1) = Left(d, dims, b, 1)
  BY <1>1, <1>5
<1> QED
  BY <1>0, <1>6

LEMMA NumberOf ==
  ASSUME NEW d \in Devices, NEW dims \in SUBSET Dimensions, NEW f,
         \A k \in dims : f[k] \in 0 .. d.size[k] - 1, NEW r \in Nat
  PROVE  \E n \in Nat : /\ Rest(d, dims, n) = r
                        /\ \A k \in dims : Digit(d, dims, k, n) = f[k]
<1> DEFINE s(m) == Size(d, dims, d.alloc[m])
           g(m) == IF d.alloc[m] \in dims THEN f[d.alloc[m]] ELSE 0
           v4 == s(4) * r + g(4)
           v3 == s(3) * v4 + g(3)
           v2 == s(2) * v3 + g(2)
           v1 == s(1) * v2 + g(1)
<1>1. ASSUME NEW m \in 1 .. 4 PROVE s(m) \in Positive /\ g(m) \in 0 .. s(m) - 1
  <2>1. s(m) \in Positive
    BY Order, PositiveSizes
  <2>2. CASE d.alloc[m] \in dims
    BY <2>1, <2>2 DEF Size
  <2>3. CASE d.alloc[m] \notin dims
    BY <2>1, <2>3 DEF Size, Positive
  <2> QED BY <2>1, <2>2, <2>3
<1>a. \A m \in 1 .. 4 : d.alloc[m] \in dims => g(m) = f[d.alloc[m]]
  OBVIOUS
<1>b. \A m \in 1 .. 4 : s(m) = Size(d, dims, d.alloc[m])
  OBVIOUS
<1> HIDE DEF s, g
<1>c. /\ s(4) \in Positive /\ g(4) \in 0 .. s(4) - 1
      /\ s(3) \in Positive /\ g(3) \in 0 .. s(3) - 1
      /\ s(2) \in Positive /\ g(2) \in 0 .. s(2) - 1
      /\ s(1) \in Positive /\ g(1) \in 0 .. s(1) - 1
  BY <1>1
<1>2. v4 \in Nat /\ v4 \div s(4) = r /\ v4 % s(4) = g(4)
  BY <1>c, QuotientIs
<1> HIDE DEF v4
<1>3. v3 \in Nat /\ v3 \div s(3) = v4 /\ v3 % s(3) = g(3)
  BY <1>c, <1>2, QuotientIs
<1> HIDE DEF v3
<1>4. v2 \in Nat /\ v2 \div s(2) = v3 /\ v2 % s(2) = g(2)
  BY <1>c, <1>3, QuotientIs
<1> HIDE DEF v2
<1>5. v1 \in Nat /\ v1 \div s(1) = v2 /\ v1 % s(1) = g(1)
  BY <1>c, <1>4, QuotientIs
<1> HIDE DEF v1
<1>6. \A m \in 1 .. 4 : /\ Left(d, dims, v1, m + 1) = Left(d, dims, v1, m) \div s(m)
                        /\ d.alloc[m] \in dims =>
                              Digit(d, dims, d.alloc[m], v1)
                                 = Left(d, dims, v1, m) % s(m)
  <2>1. v1 \in Nat
    BY <1>5
  <2>2. \A m \in 1 .. 4 :
           /\ Left(d, dims, v1, m + 1)
                 = Left(d, dims, v1, m) \div Size(d, dims, d.alloc[m])
           /\ d.alloc[m] \in dims =>
                 Digit(d, dims, d.alloc[m], v1)
                    = Left(d, dims, v1, m) % Size(d, dims, d.alloc[m])
    BY <2>1, Leftovers
  <2> QED BY <1>b, <2>2
<1>7. Left(d, dims, v1, 1) = v1 /\ Left(d, dims, v1, 5) = Rest(d, dims, v1)
  BY <1>5, Leftovers
<1>8. Left(d, dims, v1, 2) = v2
  BY <1>5, <1>6, <1>7
<1>9. Left(d, dims, v1, 3) = v3
  BY <1>4, <1>6, <1>8
<1>10. Left(d, dims, v1, 4) = v4
  BY <1>3, <1>6, <1>9
<1>11. Left(d, dims, v1, 5) = r
  BY <1>2, <1>6, <1>10
<1>12. \A m \in 1 .. 4 : d.alloc[m] \in dims =>
          Digit(d, dims, d.alloc[m], v1) = f[d.alloc[m]]
  <2>1. \A m \in 1 .. 4 : Left(d, dims, v1, m) % s(m) = g(m)
    BY <1>2, <1>3, <1>4, <1>5, <1>7, <1>8, <1>9, <1>10
  <2> QED BY <1>6, <1>a, <2>1
<1>13. \A k \in dims : Digit(d, dims, k, v1) = f[k]
  BY <1>12, Order
<1> QED
  BY <1>5, <1>7, <1>11, <1>13

\* And it is below its bound when what is left is below that.
LEMMA BelowBound ==
  ASSUME NEW P \in Positive, NEW B \in Positive, NEW n \in Nat
  PROVE  n \in 0 .. B * P - 1 <=> n \div P \in 0 .. B - 1
<1> DEFINE q == n \div P
           r == n % P
<1>1. q \in Nat /\ r \in 0 .. P - 1 /\ n = P * q + r
  BY Quotient
<1> HIDE DEF q, r
<1>2. P \in Nat /\ B \in Nat /\ P > 0 /\ B > 0 /\ B * P \in Nat
  BY DEF Positive
<1>3. ASSUME q <= B - 1 PROVE n <= B * P - 1
  <2>1. q * P <= (B - 1) * P /\ q * P \in Nat
    BY <1>1, <1>2, <1>3, MoreTimes
  <2>2. (B - 1) * P = B * P - P /\ q * P = P * q
    BY <1>1, <1>2
  <2> QED BY <1>1, <1>2, <2>1, <2>2
<1>4. ASSUME ~(q <= B - 1) PROVE ~(n <= B * P - 1)
  <2>1. B * P <= q * P /\ q * P \in Nat
    BY <1>1, <1>2, <1>4, MoreTimes
  <2>2. q * P = P * q
    BY <1>1, <1>2
  <2> QED BY <1>1, <1>2, <2>1, <2>2
<1> QED
  BY <1>1, <1>2, <1>3, <1>4 DEF q

\* Each digit is in its range, and so is what is left.
Limit(d, k) == IF k \in Addressed(d) THEN d.size[k] ELSE 1
InLimits(d) == {f \in [Dimensions -> Nat] : \A k \in Dimensions : f[k] < Limit(d, k)}

LEMMA PhysicalLimits ==
  ASSUME NEW d \in Devices
  PROVE  Physical(d) = [at : InLimits(d), block : 0 .. d.blocks - 1, page : {0}]
<1> DEFINE M == Max({d.size[k] : k \in Dimensions})
           L(f) == \A k \in Dimensions : f[k] < IF k = "P" /\ d.multi THEN 1 ELSE d.size[k]
<1>1. \A k \in Dimensions : d.size[k] \in Nat /\ d.size[k] > 0
  BY PositiveSizes DEF Positive
<1>2. M \in Nat /\ \A k \in Dimensions : M >= d.size[k]
  <2> DEFINE S == {d.size[k] : k \in Dimensions}
  <2>1. \E x \in S : \A y \in S : x >= y
    <3> DEFINE a == d.size["C"]
               b == d.size["W"]
               c == d.size["D"]
               e == d.size["P"]
    <3>1. a \in Nat /\ b \in Nat /\ c \in Nat /\ e \in Nat
      BY <1>1 DEF Dimensions
    <3>2. S = {a, b, c, e}
      BY DEF Dimensions
    <3> HIDE DEF S, a, b, c, e
    <3>3. \E x \in {a, b, c, e} : x >= a /\ x >= b /\ x >= c /\ x >= e
      BY <3>1
    <3> QED BY <3>2, <3>3
  <2>2. Max(S) \in S /\ \A y \in S : Max(S) >= y
    BY <2>1 DEF Max
  <2> QED BY <1>1, <2>2
<1> HIDE DEF M
<1>3. \A k \in Dimensions : Limit(d, k) = IF k = "P" /\ d.multi THEN 1 ELSE d.size[k]
  BY DEF Limit, Addressed
<1>4. \A k \in Dimensions : Limit(d, k) \in Nat /\ Limit(d, k) <= M
  BY <1>1, <1>2, <1>3
<1>5. {f \in [Dimensions -> 0 .. M - 1] : L(f)} = InLimits(d)
  <2>1. ASSUME NEW f \in InLimits(d) PROVE f \in [Dimensions -> 0 .. M - 1] /\ L(f)
    <3>1. f \in [Dimensions -> Nat] /\ \A k \in Dimensions : f[k] < Limit(d, k)
      BY DEF InLimits
    <3>2. \A k \in Dimensions : f[k] \in 0 .. M - 1
      BY <1>2, <1>4, <3>1
    <3> QED BY <1>3, <3>1, <3>2
  <2>2. ASSUME NEW f \in [Dimensions -> 0 .. M - 1], L(f) PROVE f \in InLimits(d)
    <3>1. \A k \in Dimensions : f[k] \in Nat
      BY <1>2
    <3> QED BY <1>3, <2>2, <3>1 DEF InLimits
  <2> QED BY <2>1, <2>2
<1> QED
  BY <1>5 DEF Physical, M

LEMMA Extents ==
  ASSUME NEW d \in Devices
  PROVE  /\ Striped(d) \in SUBSET Dimensions /\ Divided(d) \in SUBSET Dimensions
         /\ \A k \in Addressed(d) : k \in Striped(d) <=> k \notin Divided(d)
         /\ Striped(d) \subseteq Addressed(d) /\ Divided(d) \subseteq Addressed(d)
         /\ d.blocks \in Positive
         /\ PageInSuperPage(d) = Product(d, Striped(d))
         /\ PageInSuperPage(d) \in Positive /\ SuperBlocks(d) \in Positive
         /\ SuperBlocks(d) = d.blocks * Product(d, Divided(d))
<1>1. d.blocks \in Positive
  BY DeviceAssumption
<1>2. Product(d, Striped(d)) \in Positive /\ Product(d, Divided(d)) \in Positive
  BY PositiveSizes
<1>3. SuperBlocks(d) \in Positive
  BY <1>1, <1>2, PositiveProduct DEF SuperBlocks
<1> QED
  BY <1>1, <1>2, <1>3 DEF Striped, Divided, Addressed, PageInSuperPage, SuperBlocks

\* Every unit of a superblock is a block of the device.
LEMMA UnitIsPhysical ==
  ASSUME NEW d \in Devices, NEW b \in 0 .. SuperBlocks(d) - 1,
         NEW i \in 0 .. PageInSuperPage(d) - 1
  PROVE  /\ Address(d, b, 0, i) \in Physical(d)
         /\ Rest(d, Striped(d), i) = 0
<1> DEFINE a == Address(d, b, 0, i)
<1>0. b \in Nat /\ i \in Nat
  BY Extents DEF Positive
<1>1. \A k \in Dimensions : Digit(d, Striped(d), k, i) \in 0 .. d.size[k] - 1
                            /\ Digit(d, Divided(d), k, b) \in 0 .. d.size[k] - 1
  BY <1>0, DigitBelow
<1>2. a.at = [k \in Dimensions |->
                IF k \in Striped(d) THEN Digit(d, Striped(d), k, i)
                ELSE IF k \in Divided(d) THEN Digit(d, Divided(d), k, b)
                ELSE 0]
      /\ a.block = Rest(d, Divided(d), b) /\ a.page = 0
      /\ a = [at |-> a.at, block |-> a.block, page |-> a.page]
  BY DEF Address
<1> HIDE DEF a
<1>3. a.at \in InLimits(d)
  <2>1. ASSUME NEW k \in Dimensions PROVE a.at[k] \in 0 .. Limit(d, k) - 1
    <3>1. d.size[k] \in Positive
      BY PositiveSizes
    <3>2. CASE k \in Striped(d)
      BY <1>1, <1>2, <3>2, Extents DEF Limit
    <3>3. CASE k \notin Striped(d) /\ k \in Divided(d)
      BY <1>1, <1>2, <3>3, Extents DEF Limit
    <3>4. CASE k \notin Striped(d) /\ k \notin Divided(d)
      BY <1>2, <3>1, <3>4, Extents DEF Limit
    <3> QED BY <3>2, <3>3, <3>4
  <2>2. \A k \in Dimensions : Limit(d, k) \in Nat
    BY PositiveSizes DEF Limit, Positive
  <2> QED BY <1>2, <2>1, <2>2 DEF InLimits
<1>4. Rest(d, Divided(d), b) \in 0 .. d.blocks - 1
  <2>1. Product(d, Divided(d)) \in Positive /\ d.blocks \in Positive
    BY PositiveSizes, Extents
  <2> QED BY <1>0, <2>1, BelowBound, Extents DEF Rest
<1>5. Rest(d, Striped(d), i) = 0
  <2>1. Product(d, Striped(d)) \in Positive /\ 1 \in Positive
    BY PositiveSizes DEF Positive
  <2>2. i \in 0 .. 1 * Product(d, Striped(d)) - 1
    BY <2>1, Extents DEF Positive
  <2>3. i \div Product(d, Striped(d)) \in 0 .. 1 - 1
    BY <1>0, <2>1, <2>2, BelowBound
  <2> QED BY <2>3 DEF Rest
<1>6. a \in [at : InLimits(d), block : 0 .. d.blocks - 1, page : {0}]
  BY <1>2, <1>3, <1>4
<1> QED
  BY <1>5, <1>6, PhysicalLimits DEF a

\* Different units are different blocks.
LEMMA UnitsDiffer ==
  ASSUME NEW d \in Devices,
         NEW b \in 0 .. SuperBlocks(d) - 1, NEW i \in 0 .. PageInSuperPage(d) - 1,
         NEW c \in 0 .. SuperBlocks(d) - 1, NEW j \in 0 .. PageInSuperPage(d) - 1,
         Address(d, b, 0, i) = Address(d, c, 0, j)
  PROVE  b = c /\ i = j
<1>0. b \in Nat /\ c \in Nat /\ i \in Nat /\ j \in Nat
  BY Extents DEF Positive
<1>1. Rest(d, Divided(d), b) = Rest(d, Divided(d), c)
  BY DEF Address
<1>2. Rest(d, Striped(d), i) = Rest(d, Striped(d), j)
  <2>1. Rest(d, Striped(d), i) = 0
    BY UnitIsPhysical
  <2>2. Rest(d, Striped(d), j) = 0
    BY UnitIsPhysical
  <2> QED BY <2>1, <2>2
<1> DEFINE at(e, k) == [n \in Dimensions |->
                          IF n \in Striped(d) THEN Digit(d, Striped(d), n, k)
                          ELSE IF n \in Divided(d) THEN Digit(d, Divided(d), n, e)
                          ELSE 0]
<1>3. at(b, i) = at(c, j)
  BY DEF Address
<1>4. ASSUME NEW n \in Dimensions PROVE at(b, i)[n] = at(c, j)[n]
  BY <1>3
<1>5. \A n \in Striped(d) : Digit(d, Striped(d), n, i) = Digit(d, Striped(d), n, j)
  BY <1>4, Extents
<1>6. \A n \in Divided(d) : Digit(d, Divided(d), n, b) = Digit(d, Divided(d), n, c)
  BY <1>4, Extents
<1>7. i = j
  BY <1>0, <1>2, <1>5, SameNumber, Extents
<1>8. b = c
  BY <1>0, <1>1, <1>6, SameNumber, Extents
<1> QED
  BY <1>7, <1>8

\* And every block of the device is one.
LEMMA BlockIsUnit ==
  ASSUME NEW d \in Devices, NEW p \in Physical(d)
  PROVE  \E b \in 0 .. SuperBlocks(d) - 1, i \in 0 .. PageInSuperPage(d) - 1 :
            Address(d, b, 0, i) = p
<1>1. p \in [at : InLimits(d), block : 0 .. d.blocks - 1, page : {0}]
  BY PhysicalLimits
<1> DEFINE f == p.at
<1>2. /\ f \in [Dimensions -> Nat] /\ \A k \in Dimensions : f[k] < Limit(d, k)
      /\ p.block \in 0 .. d.blocks - 1 /\ p = [at |-> f, block |-> p.block, page |-> 0]
  BY <1>1 DEF InLimits
<1> HIDE DEF f
<1>3. \A k \in Addressed(d) : f[k] \in 0 .. d.size[k] - 1
  <2>1. \A k \in Dimensions : d.size[k] \in Nat
    BY PositiveSizes DEF Positive
  <2> QED BY <1>2, <2>1 DEF Limit, Addressed
<1>4. PICK i \in Nat : /\ Rest(d, Striped(d), i) = 0
                       /\ \A k \in Striped(d) : Digit(d, Striped(d), k, i) = f[k]
  <2>1. \A k \in Striped(d) : f[k] \in 0 .. d.size[k] - 1
    BY <1>3, Extents
  <2>2. 0 \in Nat /\ Striped(d) \in SUBSET Dimensions
    BY Extents
  <2> QED BY <2>1, <2>2, NumberOf
<1>5. PICK b \in Nat : /\ Rest(d, Divided(d), b) = p.block
                       /\ \A k \in Divided(d) : Digit(d, Divided(d), k, b) = f[k]
  <2>1. \A k \in Divided(d) : f[k] \in 0 .. d.size[k] - 1
    BY <1>3, Extents
  <2>2. p.block \in Nat /\ Divided(d) \in SUBSET Dimensions
    BY <1>2, Extents DEF Positive
  <2> QED BY <2>1, <2>2, NumberOf
<1>6. i \in 0 .. PageInSuperPage(d) - 1
  <2>1. Product(d, Striped(d)) \in Positive /\ 1 \in Positive
    BY PositiveSizes DEF Positive
  <2>2. i \div Product(d, Striped(d)) \in 0 .. 1 - 1
    BY <1>4 DEF Rest
  <2>3. i \in 0 .. 1 * Product(d, Striped(d)) - 1
    BY <2>1, <2>2, BelowBound
  <2> QED BY <2>1, <2>3, Extents DEF Positive
<1>7. b \in 0 .. SuperBlocks(d) - 1
  <2>1. Product(d, Divided(d)) \in Positive /\ d.blocks \in Positive
    BY PositiveSizes, Extents
  <2>2. b \div Product(d, Divided(d)) \in 0 .. d.blocks - 1
    BY <1>2, <1>5 DEF Rest
  <2>3. b \in 0 .. d.blocks * Product(d, Divided(d)) - 1
    BY <2>1, <2>2, BelowBound
  <2> QED BY <2>3, Extents
<1>8. [k \in Dimensions |-> IF k \in Striped(d) THEN Digit(d, Striped(d), k, i)
                            ELSE IF k \in Divided(d) THEN Digit(d, Divided(d), k, b)
                            ELSE 0] = f
  <2>1. ASSUME NEW k \in Dimensions, k \notin Striped(d), k \notin Divided(d)
        PROVE  f[k] = 0
    BY <1>2, <2>1, Extents DEF Limit
  <2> DEFINE at == [k \in Dimensions |->
                      IF k \in Striped(d) THEN Digit(d, Striped(d), k, i)
                      ELSE IF k \in Divided(d) THEN Digit(d, Divided(d), k, b)
                      ELSE 0]
  <2>2. \A k \in Dimensions : at[k] = f[k]
    BY <1>4, <1>5, <2>1
  <2>3. DOMAIN at = Dimensions /\ at = [k \in Dimensions |-> at[k]]
    OBVIOUS
  <2>4. f = [k \in Dimensions |-> f[k]]
    BY <1>2
  <2> HIDE DEF at
  <2>5. at = f
    BY <2>2, <2>3, <2>4
  <2> QED BY <2>5 DEF at
<1>9. Address(d, b, 0, i) = p
  BY <1>2, <1>5, <1>8 DEF Address
<1> QED
  BY <1>6, <1>7, <1>9

\* Dies of different places have different numbers.
LEMMA DiesDiffer ==
  ASSUME NEW A \in Positive, NEW B \in Positive,
         NEW x \in 0 .. A - 1, NEW y \in 0 .. B - 1, NEW z \in Nat,
         NEW u \in 0 .. A - 1, NEW v \in 0 .. B - 1, NEW w \in Nat,
         x + y * A + z * A * B = u + v * A + w * A * B
  PROVE  x = u /\ y = v /\ z = w
<1>0. A \in Nat /\ B \in Nat /\ x \in Nat /\ y \in Nat /\ u \in Nat /\ v \in Nat
      /\ B * z + y \in Nat /\ B * w + v \in Nat
  BY DEF Positive
<1>1. x + y * A + z * A * B = A * (B * z + y) + x
      /\ u + v * A + w * A * B = A * (B * w + v) + u
  BY <1>0
<1>2. (A * (B * z + y) + x) % A = x /\ (A * (B * z + y) + x) \div A = B * z + y
  BY <1>0, QuotientIs
<1>3. (A * (B * w + v) + u) % A = u /\ (A * (B * w + v) + u) \div A = B * w + v
  BY <1>0, QuotientIs
<1>4. x = u /\ B * z + y = B * w + v
  BY <1>1, <1>2, <1>3
<1>5. (B * z + y) % B = y /\ (B * z + y) \div B = z
  BY QuotientIs
<1>6. (B * w + v) % B = v /\ (B * w + v) \div B = w
  BY QuotientIs
<1> QED
  BY <1>4, <1>5, <1>6

LEMMA LayoutPartitioned ==
  ASSUME device \in Devices
  PROVE  Partitioned
<1> DEFINE d == device
           units == (0 .. SuperBlocks(d) - 1) \X (0 .. PageInSuperPage(d) - 1)
           name(u) == Address(d, u[1], 0, u[2])
           blocks == {name(u) : u \in units}
<1>1. \A u \in units : u[1] \in 0 .. SuperBlocks(d) - 1
                       /\ u[2] \in 0 .. PageInSuperPage(d) - 1 /\ u = <<u[1], u[2]>>
  OBVIOUS
<1>2. blocks = Physical(d)
  <2>1. ASSUME NEW u \in units PROVE name(u) \in Physical(d)
    BY <1>1, UnitIsPhysical
  <2>2. ASSUME NEW p \in Physical(d) PROVE p \in blocks
    <3>1. PICK b \in 0 .. SuperBlocks(d) - 1, i \in 0 .. PageInSuperPage(d) - 1 :
             Address(d, b, 0, i) = p
      BY BlockIsUnit
    <3>2. <<b, i>> \in units /\ name(<<b, i>>) = p
      BY <3>1
    <3> QED BY <3>2
  <2> QED BY <2>1, <2>2
<1>3. Cardinality(blocks) = Cardinality(units)
  <2>1. IsFiniteSet(units)
    <3>1. IsFiniteSet(0 .. SuperBlocks(d) - 1) /\ IsFiniteSet(0 .. PageInSuperPage(d) - 1)
      <4>1. SuperBlocks(d) - 1 \in Int /\ PageInSuperPage(d) - 1 \in Int /\ 0 \in Int
        BY Extents DEF Positive
      <4> QED BY <4>1, FS_Interval
    <3> QED BY <3>1, FS_Product
  <2> DEFINE F == [u \in units |-> name(u)]
  <2>2. ASSUME NEW u \in units, NEW v \in units, name(u) = name(v) PROVE u = v
    <3>1. u[1] = v[1] /\ u[2] = v[2]
      BY <1>1, <2>2, UnitsDiffer
    <3> QED BY <1>1, <3>1
  <2>3. F \in Bijection(units, blocks)
    <3> HIDE DEF units, name
    <3>1. F \in [units -> blocks]
      OBVIOUS
    <3>2. \A u \in units, v \in units : F[u] = F[v] => u = v
      BY <2>2
    <3>3. \A p \in blocks : \E u \in units : F[u] = p
      OBVIOUS
    <3> HIDE DEF F, blocks
    <3> QED BY <3>1, <3>2, <3>3 DEF Bijection, Injection, Surjection, IsInjective
  <2> HIDE DEF units, blocks, F
  <2>4. ExistsBijection(units, blocks)
    BY <2>3 DEF ExistsBijection
  <2> QED BY <2>1, <2>4, FS_Bijection
<1>4. ASSUME NEW a \in blocks, NEW b \in blocks,
             CPDPBPtoDieIdx(d, a) = CPDPBPtoDieIdx(d, b)
      PROVE  \A k \in {"C", "W", "D"} : a.at[k] = b.at[k]
  <2>1. ASSUME NEW p \in blocks
        PROVE  /\ p.at["D"] \in 0 .. d.size["D"] - 1
               /\ p.at["W"] \in 0 .. d.size["W"] - 1 /\ p.at["C"] \in Nat
    <3>1. p.at \in InLimits(d)
      <4> HIDE DEF blocks
      <4>1. p \in [at : InLimits(d), block : 0 .. d.blocks - 1, page : {0}]
        BY <1>2, PhysicalLimits
      <4> QED BY <4>1
    <3>2. Limit(d, "D") = d.size["D"] /\ Limit(d, "W") = d.size["W"]
      BY DEF Limit, Addressed, Dimensions
    <3>3. d.size["D"] \in Nat /\ d.size["W"] \in Nat
      BY PositiveSizes DEF Positive, Dimensions
    <3>4. /\ p.at \in [Dimensions -> Nat]
          /\ \A k \in Dimensions : p.at[k] < Limit(d, k)
      BY <3>1 DEF InLimits
    <3>5. "D" \in Dimensions /\ "W" \in Dimensions /\ "C" \in Dimensions
      BY DEF Dimensions
    <3> QED BY <3>2, <3>3, <3>4, <3>5
  <2> DEFINE A == d.size["D"]
             B == d.size["W"]
  <2>2. A \in Positive /\ B \in Positive
    BY PositiveSizes DEF Dimensions
  <2>3. a.at["D"] + a.at["W"] * A + a.at["C"] * A * B
          = b.at["D"] + b.at["W"] * A + b.at["C"] * A * B
    BY <1>4 DEF CPDPBPtoDieIdx
  <2> HIDE DEF blocks, A, B
  <2>4. /\ a.at["D"] \in 0 .. A - 1 /\ a.at["W"] \in 0 .. B - 1 /\ a.at["C"] \in Nat
        /\ b.at["D"] \in 0 .. A - 1 /\ b.at["W"] \in 0 .. B - 1 /\ b.at["C"] \in Nat
    BY <2>1 DEF A, B
  <2>5. a.at["D"] = b.at["D"] /\ a.at["W"] = b.at["W"] /\ a.at["C"] = b.at["C"]
    <3> DEFINE x == a.at["D"]
               y == a.at["W"]
               z == a.at["C"]
               u == b.at["D"]
               v == b.at["W"]
               w == b.at["C"]
    <3>1. /\ x \in 0 .. A - 1 /\ y \in 0 .. B - 1 /\ z \in Nat
          /\ u \in 0 .. A - 1 /\ v \in 0 .. B - 1 /\ w \in Nat
          /\ x + y * A + z * A * B = u + v * A + w * A * B
      BY <2>3, <2>4
    <3> HIDE DEF x, y, z, u, v, w
    <3>2. x = u /\ y = v /\ z = w
      BY <2>2, <3>1, DiesDiffer
    <3> QED BY <3>2 DEF x, y, z, u, v, w
  <2> QED BY <2>5
<1> QED
  BY <1>2, <1>3, <1>4 DEF Partitioned

\* Whatever the sizes, the order of the dimensions and the extent of a
\* superblock: convertCPDPBP gives every block of every plane to exactly one
\* superblock, and no two dies the same timeline.
THEOREM PartitionedHolds == Spec => []Partitioned
<1>1. IInv => Partitioned
  BY LayoutPartitioned DEF IInv
<1> QED
  BY <1>1, PALInvariant, PTL

=============================================================================
