-------------------------------- MODULE HIL --------------------------------
(***************************************************************************)
(* The host interface layer (src/simplessd/hil/hil.cc) on the firmware     *)
(* cores that execute its functions (CPU::Core of src/simplessd/cpu).      *)
(*                                                                         *)
(* A request waits in the job queue of a core, is served by the layers     *)
(* below in one call that only returns the time it will be finished, and   *)
(* then waits in completionQueue until completionEvent calls its callback. *)
(* An event of the engine is the tick it is scheduled for, or Unscheduled. *)
(***************************************************************************)
EXTENDS Integers, Sequences, FiniteSets, FiniteSetsExt

CONSTANTS
    CoreCounts,      \* possible values of CPU_CORE_HIL
    JobLatency,      \* latency of the instruction group of a HIL function
    Latencies,       \* possible latencies of a call into ICL
    Requests         \* identifiers of requests

ASSUME HILAssumption ==
    /\ CoreCounts \subseteq Nat
    /\ JobLatency \in Nat
    /\ Latencies \subseteq Nat
    /\ Requests \subseteq Nat

VARIABLES
    now,             \* Engine::simTick
    jobs,            \* Core::jobs: the queue of each core
    jobAt,           \* jobEvent of each core; scheduled while it is busy
    completionQueue, \* completionQueue: set of [id, finishedAt]
    completionAt,    \* completionEvent
    lastScheduled,   \* lastScheduled
    busy,            \* stat.busy[2]
    lastBusyAt,      \* stat.lastBusyAt[2]
    covered          \* history: the ticks during which a request was served

hilVars == <<jobs, jobAt, completionQueue, completionAt, lastScheduled, busy,
             lastBusyAt, covered>>

Unscheduled == -1
Cores == DOMAIN jobs

HILInit ==
    /\ now = 0
    /\ \E n \in CoreCounts : /\ jobs = [c \in 1 .. n |-> << >>]
                             /\ jobAt = [c \in 1 .. n |-> Unscheduled]
    /\ completionQueue = {}
    /\ completionAt = Unscheduled
    /\ lastScheduled = 0
    /\ busy = 0
    /\ lastBusyAt = 0
    /\ covered = {}

-----------------------------------------------------------------------------
(* Serving a request *)

Top(q) == Min({r.finishedAt : r \in q})

\* Mutant: an event that is scheduled is left alone.
UpdateCompletionIfIdle(q, at) ==
    IF q # {} /\ at = Unscheduled
    THEN /\ lastScheduled' = Top(q)
         /\ completionAt' = Top(q)
    ELSE /\ completionAt' = at
         /\ UNCHANGED lastScheduled

\* updateCompletion, with the queue q and completionEvent scheduled at at.
\* Nothing is scheduled if the time is the one scheduled last.
UpdateCompletion(q, at) ==
    IF q # {} /\ lastScheduled # Top(q)
    THEN /\ lastScheduled' = Top(q)
         /\ completionAt' = Top(q)
    ELSE /\ completionAt' = at
         /\ UNCHANGED lastScheduled

\* updateBusyTime
UpdateBusyTime(begin, end) ==
    IF end <= lastBusyAt THEN UNCHANGED <<busy, lastBusyAt>>
    ELSE /\ busy' = busy + (end - IF begin < lastBusyAt THEN lastBusyAt
                                                         ELSE begin)
         /\ lastBusyAt' = end

\* doRead and doWrite: call ICL, account for the time, queue the completion.
\* doFlush and the others account for nothing.
Serve(id, counted, latency) ==
    LET end == now + latency
        q   == completionQueue \cup {[id |-> id, finishedAt |-> end]}
    IN  /\ completionQueue' = q
        /\ UpdateCompletion(q, completionAt)
        /\ IF counted
           THEN /\ UpdateBusyTime(now, end)
                /\ covered' = covered \cup (now .. end - 1)
           ELSE UNCHANGED <<busy, lastBusyAt, covered>>

-----------------------------------------------------------------------------
(* The cores *)

Busy(c) == jobAt[c] # Unscheduled

\* leastBusyCPU: an idle core, or the one with the fewest jobs.
LeastBusyCPU ==
    IF \E c \in Cores : ~Busy(c) THEN {c \in Cores : ~Busy(c)}
    ELSE {c \in Cores : \A d \in Cores : Len(jobs[c]) <= Len(jobs[d])}

\* execute: hand the request to a core, or run it at once if there is none.
Execute(id, counted) ==
    \/ /\ Cores = {}
       /\ \E latency \in Latencies : Serve(id, counted, latency)
       /\ UNCHANGED <<jobs, jobAt>>
    \/ /\ \E c \in LeastBusyCPU :
            /\ jobs' = [jobs EXCEPT ![c] = Append(@, [id |-> id,
                                                      counted |-> counted])]
            /\ jobAt' = IF Busy(c) THEN jobAt
                        ELSE [jobAt EXCEPT ![c] = now + JobLatency]
       /\ UNCHANGED <<completionQueue, completionAt, lastScheduled, busy,
                      lastBusyAt, covered>>

\* jobDone: run the function of the front job, then start the next one.
JobDone(c) ==
    /\ jobAt[c] = now
    /\ \E latency \in Latencies :
          Serve(Head(jobs[c]).id, Head(jobs[c]).counted, latency)
    /\ jobs' = [jobs EXCEPT ![c] = Tail(@)]
    /\ jobAt' = [jobAt EXCEPT
                    ![c] = IF Len(jobs[c]) > 1 THEN now + JobLatency
                                               ELSE Unscheduled]

-----------------------------------------------------------------------------
(* Completion *)

\* The requests completion() calls back now.
Due == {r \in completionQueue : r.finishedAt <= now}

\* completion: the event left the engine's queue before it was called.
Completion ==
    /\ completionAt = now
    /\ completionQueue' = completionQueue \ Due
    /\ UpdateCompletion(completionQueue \ Due, Unscheduled)
    /\ UNCHANGED <<jobs, jobAt, busy, lastBusyAt, covered>>

-----------------------------------------------------------------------------
(* Properties *)

\* Types of the state of the layer.
HILTypeOK ==
    /\ now \in Nat
    /\ Cores \in {1 .. n : n \in CoreCounts}
    /\ jobs \in [Cores -> Seq([id : Requests, counted : BOOLEAN])]
    /\ jobAt \in [Cores -> Nat \cup {Unscheduled}]
    /\ completionQueue \subseteq [id : Requests, finishedAt : Nat]
    /\ completionAt \in Nat \cup {Unscheduled}
    /\ lastScheduled \in Nat
    /\ busy \in Nat
    /\ lastBusyAt \in Nat
    /\ covered \subseteq Nat

\* No lost wake-up: while a completion waits, completionEvent is scheduled
\* for the earliest one, whatever order requests finish in.  updateCompletion
\* compares with the time scheduled last instead of asking the engine; that
\* is enough as long as every request takes time.
CompletionArmed ==
    completionQueue # {} => completionAt = Top(completionQueue)

\* The busy time is the length of the union of the service intervals, however
\* requests overlap.
BusyIsUnion == busy = Cardinality(covered)

=============================================================================
