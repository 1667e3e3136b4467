------------------------------ MODULE Timeline ------------------------------
(***************************************************************************)
(* The free time of one channel or die (pal/old/PAL2.cc, ChFreeSlots and   *)
(* DieFreeSlots).  A timeline is free from its start point on; before      *)
(* that, the free slots are kept by class: a slot is in the largest class  *)
(* that is not longer than the slot, and a slot shorter than every class   *)
(* is forgotten.  Ticks are 64 bits wide in the code; the instances stay   *)
(* far below.                                                              *)
(***************************************************************************)
EXTENDS Integers, FiniteSetsExt

Slot(from, len) == [from |-> from, to |-> from + len - 1]
Length(slot) == slot.to - slot.from + 1
Overlap(a, b) == a.from <= b.to /\ b.from <= a.to
Within(a, b) == b.from <= a.from /\ a.to <= b.to

NewTimeline(classes) ==
    [free |-> [k \in classes |-> {}], start |-> 0, failed |-> FALSE]

FreeSlots(t) == UNION {t.free[k] : k \in DOMAIN t.free}

\* The class of a length; 0 when it is below every class.
Class(t, len) == Max({0} \cup {k \in DOMAIN t.free : k <= len})

\* AddFreeSlot: std::map::insert keeps the slot it already has.
AddFreeSlot(t, len, from) ==
    LET k == Class(t, len)
    IN  IF k = 0 \/ \E s \in t.free[k] : s.from = from THEN t
        ELSE [t EXCEPT !.free[k] = @ \cup {Slot(from, len)}]

\* The classes a search for len visits.
Visited(t, len) == LET least == Class(t, len)
                   IN  {k \in DOMAIN t.free : k >= least}

\* Mutant: only the first tick has to be in the slot.
FitsLoosely(slot, len, from) == slot.to >= from

\* A slot that has room for len ticks from tick "from" on.
Fits(slot, len, from) == slot.to >= len + from - 1

\* Of a class, the slot found by upper_bound(from) - 1.
Latest(slots, from) ==
    {s \in slots : /\ s.from <= from
                   /\ \A r \in slots : r.from <= from => r.from <= s.from}

\* FindFreeTime: the slot that holds the interval asked for, the shortest of
\* them, or else the earliest later slot that is long enough; "conflict" says
\* that it is later.
Holding(visited, len, from) ==
    {s \in UNION {Latest(slots, from) : slots \in visited} : Fits(s, len, from)}
Later(visited, len, from) ==
    {s \in UNION visited : s.from > from /\ Fits(s, len, s.from)}
Shortest(slots) == CHOOSE s \in slots : \A r \in slots : Length(s) <= Length(r)

Found(holding, later, start, from) ==
    IF holding # {} THEN [start |-> Shortest(holding).from, conflict |-> FALSE]
    ELSE IF later # {}
    THEN [start |-> Min({s.from : s \in later}), conflict |-> TRUE]
    ELSE [start |-> start, conflict |-> start > from]

FindFreeTime(t, len, from) ==
    LET visited == {t.free[k] : k \in Visited(t, len)}
    IN  Found(Holding(visited, len, from), Later(visited, len, from), t.start, from)

\* What the scheduler makes of a search: the slot ("tick", its start or the
\* start point) and the tick from which the time is free.
Placed(found, from) ==
    [tick |-> found.start, from |-> IF found.conflict THEN found.start ELSE from]
Place(t, len, from) == Placed(FindFreeTime(t, len, from), from)

\* InsertFreeSlot: len ticks from tick "from" on are taken out of the slot
\* that starts at tick; with split they stay free as a slot of their own.
Keep(t, len, from, split) == IF split THEN AddFreeSlot(t, len, from) ELSE t
Gap(t, from, to) == IF from < to THEN AddFreeSlot(t, to - from, from) ELSE t

TakeFromTail(t, len, from, tick, split) ==
    [Gap(Keep(t, len, from, split), tick, from) EXCEPT
        !.start = from + len, !.failed = @ \/ from < tick]

TakeFromSlot(t, k, slot, len, from, split) ==
    LET out == [t EXCEPT !.free[k] = @ \ {slot},
                         !.failed = @ \/ slot.from > from
                                      \/ ~Fits(slot, len, from)]
    IN  Gap(Keep(Gap(out, slot.from, from), len, from, split),
            from + len, slot.to + 1)

\* The class of the slot: the first that is visited and has one there.
TakeNamed(t, classes, len, from, tick, split) ==
    IF classes = {} THEN t
    ELSE LET k == Min(classes)
         IN  TakeFromSlot(t, k, CHOOSE s \in t.free[k] : s.from = tick,
                          len, from, split)

InsertFreeSlot(t, len, from, tick, split) ==
    IF tick = t.start THEN TakeFromTail(t, len, from, tick, split)
    ELSE TakeNamed(t, {k \in Visited(t, len) : \E s \in t.free[k] : s.from = tick},
                   len, from, tick, split)

\* Mutant: slots that have started are dropped, ended or not.
FlushAFreeSlotStarted(t, tick) ==
    [t EXCEPT !.free = [k \in DOMAIN @ |-> {s \in @[k] : s.from >= tick}]]

\* FlushAFreeSlot drops, in each class, the slots before the first that has
\* not ended by the tick.
FlushAFreeSlot(t, tick) ==
    [t EXCEPT !.free = [k \in DOMAIN @ |->
        {s \in @[k] : \E r \in t.free[k] : r.from <= s.from /\ r.to >= tick}]]
=============================================================================
