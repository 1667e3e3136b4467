------------------------------- MODULE Engine -------------------------------
(***************************************************************************)
(* The discrete-event engine of the simulator (src/sim/engine.cc) and the  *)
(* main loop that drives it (src/sim/main.cc).                             *)
(*                                                                         *)
(* Every layer of the program (I/O generator, driver, controller, cache)   *)
(* holds event handles and calls scheduleEvent, descheduleEvent, ... on    *)
(* them, either while main() sets the system up or from inside the         *)
(* callback that doNextEvent is running.  The engine is single threaded,   *)
(* so a call is atomic; a callback is a sequence of calls, and any such    *)
(* sequence is allowed here.                                               *)
(***************************************************************************)
EXTENDS Integers, Sequences, SequencesExt

CONSTANTS
    MaxEvents,    \* bound: handles that allocateEvent may give out
    MaxTick,      \* bound: largest tick a caller asks for
    MaxHandled    \* bound: callbacks executed in one run

ASSUME BoundsAssumption ==
    /\ MaxEvents \in Nat \ {0}
    /\ MaxTick \in Nat
    /\ MaxHandled \in Nat

VARIABLES
    phase,        \* what the one simulation thread is executing
    simTick,      \* Engine::simTick
    counter,      \* Engine::counter, the last handle given out
    eventList,    \* keys of Engine::eventList: allocated handles
    eventQueue,   \* Engine::eventQueue: sequence of [eid, tick]
    forceStop,    \* Engine::forceStop
    eventHandled, \* Engine::eventHandled
    fault         \* which panic ended the process, or "none"

vars == <<phase, simTick, counter, eventList, eventQueue, forceStop,
          eventHandled, fault>>

Eids   == 1 .. MaxEvents
Ticks  == 0 .. MaxTick
Entry  == [eid : Eids, tick : Ticks]
Phases == {"setup", "loop", "callback", "ended", "panic"}
Faults == {"none", "schedule", "deschedule", "deallocate", "dispatch"}

Init ==
    /\ phase = "setup"
    /\ simTick = 0
    /\ counter = 0
    /\ eventList = {}
    /\ eventQueue = << >>
    /\ forceStop = FALSE
    /\ eventHandled = 0
    /\ fault = "none"

-----------------------------------------------------------------------------
(* The queue operations *)

\* Positions of the entries of eid (insertEvent keeps the last one it meets).
Positions(q, eid) == {i \in 1 .. Len(q) : q[i].eid = eid}

\* Mutant: in front of the entries of the same tick.
InsertBeforeEqual(q, tick) ==
    CHOOSE i \in 1 .. Len(q) + 1 :
        /\ \A j \in 1 .. i - 1 : q[j].tick < tick
        /\ i <= Len(q) => q[i].tick >= tick

\* Mutant: always at the end.
AppendPosition(q, tick) == Len(q) + 1

\* Where std::list::insert puts an entry for tick: before the first entry
\* that is strictly later, at the end when there is none.
InsertPosition(q, tick) ==
    CHOOSE i \in 1 .. Len(q) + 1 :
        /\ \A j \in 1 .. i - 1 : q[j].tick <= tick
        /\ i <= Len(q) => q[i].tick > tick

\* insertEvent: insert first, then erase the old entry of the same event,
\* which the insertion shifted when it was not in front of it.
InsertEvent(q, eid, tick) ==
    LET at  == InsertPosition(q, tick)
        new == InsertAt(q, at, [eid |-> eid, tick |-> tick])
        old == Positions(q, eid)
    IN  IF old = {} THEN new
        ELSE LET o == Max(old)
             IN  IF q[o].tick = tick THEN q
                 ELSE RemoveAt(new, IF o >= at THEN o + 1 ELSE o)

RemoveEvent(q, eid) ==
    IF Positions(q, eid) = {} THEN q ELSE RemoveAt(q, Min(Positions(q, eid)))

-----------------------------------------------------------------------------
(* The interface, called during set-up and from callbacks *)

InUse == phase \in {"setup", "callback"}

Panic(why) ==
    /\ phase' = "panic"
    /\ fault' = why
    /\ UNCHANGED <<simTick, counter, eventList, eventQueue, forceStop,
                   eventHandled>>

AllocateEvent ==
    /\ InUse
    /\ counter < MaxEvents
    /\ counter' = counter + 1
    /\ eventList' = eventList \cup {counter + 1}
    /\ UNCHANGED <<phase, simTick, eventQueue, forceStop, eventHandled, fault>>

\* A tick in the past is replaced by the current one.
EffectiveTick(tick) == IF tick < simTick THEN simTick ELSE tick

ScheduleEvent(eid, tick) ==
    /\ InUse
    /\ IF eid \in eventList
       THEN /\ eventQueue' = InsertEvent(eventQueue, eid, EffectiveTick(tick))
            /\ UNCHANGED <<phase, simTick, counter, eventList, forceStop,
                           eventHandled, fault>>
       ELSE Panic("schedule")

DescheduleEvent(eid) ==
    /\ InUse
    /\ IF eid \in eventList
       THEN /\ eventQueue' = RemoveEvent(eventQueue, eid)
            /\ UNCHANGED <<phase, simTick, counter, eventList, forceStop,
                           eventHandled, fault>>
       ELSE Panic("deschedule")

\* A deallocated event leaves the queue.
QueueWithout(eid) == RemoveEvent(eventQueue, eid)

DeallocateEvent(eid) ==
    /\ InUse
    /\ IF eid \in eventList
       THEN /\ eventQueue' = QueueWithout(eid)
            /\ eventList' = eventList \ {eid}
            /\ UNCHANGED <<phase, simTick, counter, forceStop, eventHandled,
                           fault>>
       ELSE Panic("deallocate")

\* endCallback of main(): the simulation is asked to stop.
StopEngine ==
    /\ InUse
    /\ ~forceStop
    /\ forceStop' = TRUE
    /\ UNCHANGED <<phase, simTick, counter, eventList, eventQueue,
                   eventHandled, fault>>

-----------------------------------------------------------------------------
(* The main loop: while (engine.doNextEvent()) ; *)

BeginLoop ==
    /\ phase = "setup"
    /\ phase' = "loop"
    /\ UNCHANGED <<simTick, counter, eventList, eventQueue, forceStop,
                   eventHandled, fault>>

\* doNextEvent up to the call of the event's function.
DoNextEvent ==
    /\ phase = "loop"
    /\ ~forceStop
    /\ eventQueue # << >>
    /\ eventHandled < MaxHandled
    /\ simTick' = Head(eventQueue).tick
    /\ eventQueue' = Tail(eventQueue)
    /\ IF Head(eventQueue).eid \in eventList
       THEN phase' = "callback" /\ UNCHANGED fault
       ELSE phase' = "panic" /\ fault' = "dispatch"
    /\ UNCHANGED <<counter, eventList, forceStop, eventHandled>>

\* The function returned: the rest of doNextEvent.
CallbackDone ==
    /\ phase = "callback"
    /\ eventHandled' = eventHandled + 1
    /\ phase' = "loop"
    /\ UNCHANGED <<simTick, counter, eventList, eventQueue, forceStop, fault>>

EndLoop ==
    /\ phase = "loop"
    /\ forceStop \/ eventQueue = << >>
    /\ phase' = "ended"
    /\ UNCHANGED <<simTick, counter, eventList, eventQueue, forceStop,
                   eventHandled, fault>>

\* The process is over (cleanup, a panic) or the run reached its bound.
Over ==
    /\ \/ phase \in {"ended", "panic"}
       \/ phase = "loop" /\ eventHandled = MaxHandled
    /\ UNCHANGED vars

\* A step of the engine or of a callback it runs.
Work ==
    \/ AllocateEvent
    \/ \E e \in Eids : \E t \in Ticks : ScheduleEvent(e, t)
    \/ \E e \in Eids : DescheduleEvent(e)
    \/ \E e \in Eids : DeallocateEvent(e)
    \/ StopEngine
    \/ DoNextEvent
    \/ CallbackDone

Next == Work \/ BeginLoop \/ EndLoop \/ Over

Spec == Init /\ [][Next]_vars

-----------------------------------------------------------------------------
(* Properties *)

\* Types of the state of the engine.
TypeOK ==
    /\ phase \in Phases
    /\ simTick \in Ticks
    /\ counter \in 0 .. MaxEvents
    /\ eventList \subseteq Eids
    /\ eventQueue \in Seq(Entry)
    /\ forceStop \in BOOLEAN
    /\ eventHandled \in 0 .. MaxHandled
    /\ fault \in Faults

\* The queue is ordered by tick, however callbacks schedule, reschedule and
\* cancel events (insertEvent keeps one pass for both searches).
QueueSorted ==
    \A i, j \in 1 .. Len(eventQueue) :
        i < j => eventQueue[i].tick <= eventQueue[j].tick

\* An event is queued at most once: rescheduling replaces its old entry.
QueuedOnce ==
    \A i, j \in 1 .. Len(eventQueue) :
        eventQueue[i].eid = eventQueue[j].eid => i = j

\* No queued event lies in the past, so simTick never has to go back.
NothingOverdue ==
    \A i \in 1 .. Len(eventQueue) : simTick <= eventQueue[i].tick

\* Every queued handle is allocated: deallocateEvent leaves no dangling entry.
QueuedAllocated ==
    \A i \in 1 .. Len(eventQueue) : eventQueue[i].eid \in eventList

\* doNextEvent never meets an event that does not exist: its own panic is
\* unreachable whatever callbacks do with their handles.
DispatchNeverPanics == fault # "dispatch"

\* What doNextEvent relies on: the queue is in order, without duplicates, with
\* nothing in the past and nothing that was deallocated, under every sequence
\* of calls made between and inside callbacks.
QueueInvariant ==
    /\ TypeOK
    /\ QueueSorted
    /\ QueuedOnce
    /\ NothingOverdue
    /\ QueuedAllocated
    /\ DispatchNeverPanics

\* Events of one tick are served first come, first served: of two entries
\* with the same tick, the one in front was not queued after the other, and
\* no call on a third event swaps them.
FirstComeFirstServed ==
    [][\A c, d \in 1 .. Len(eventQueue') :
          (c < d /\ eventQueue'[c].tick = eventQueue'[d].tick) =>
              \A b \in 1 .. Len(eventQueue) : eventQueue[b] = eventQueue'[d] =>
                  \E a \in 1 .. b - 1 : eventQueue[a] = eventQueue'[c]]_vars

=============================================================================
