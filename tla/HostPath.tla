------------------------------ MODULE HostPath ------------------------------
(***************************************************************************)
(* A run of the simulator without an NVMe driver: an I/O generator, the    *)
(* block layer that times requests (src/bil/entry.cc), the pass-through    *)
(* driver (src/sil/none/none.cc), and the host interface layer, all driven *)
(* by the engine's events.                                                 *)
(*                                                                         *)
(* A callback runs to its end inside one event, so one event is one        *)
(* action.  Of events with the same tick any may be next; the engine's     *)
(* order among them (module Engine) is one of these.                       *)
(***************************************************************************)
EXTENDS HIL, RequestGenerator, TraceReplayer, SequencesExt

CONSTANTS
    Generators,      \* subset of {"request", "trace"}
    Random,          \* subset of BOOLEAN: random or sequential addresses
    TimeBased,       \* subset of BOOLEAN: time_based
    Timing,          \* subset of TimingModes
    TraceGap         \* bound: largest distance of two trace time stamps

ASSUME PathAssumption ==
    /\ Random \cup TimeBased \subseteq BOOLEAN
    /\ Timing \subseteq TimingModes
    /\ TraceGap \in Nat

VARIABLES
    gen,             \* the I/O generator
    ioQueue,         \* BlockIOEntry::ioQueue: set of [id, submittedAt]
    begun            \* the driver's begin event has run

vars == <<now, hilVars, gen, ioQueue, begun>>

Init ==
    /\ HILInit
    /\ gen \in UNION {IF "request" \in Generators
                      THEN {RequestInit(r, t) : r \in Random, t \in TimeBased}
                      ELSE {},
                      IF "trace" \in Generators
                      THEN {TraceInit(m, x) : m \in Timing, x \in MaxIOs}
                      ELSE {}}
    /\ ioQueue = {}
    /\ begun = FALSE

\* The events the engine holds, and the tick of the earliest.
Events == ({gen.submitAt, completionAt} \cup {jobAt[c] : c \in Cores}
              \cup (IF begun THEN {} ELSE {0})) \ {Never}

\* The engine's clock reaches the next event; stopEngine ends the run.
Tick ==
    /\ ~gen.ended
    /\ Events # {}
    /\ now < Min(Events)
    /\ now' = Min(Events)
    /\ UNCHANGED <<hilVars, gen, ioQueue, begun>>

Running == ~gen.ended /\ \A e \in Events : now <= e

-----------------------------------------------------------------------------
(* The block layer and the driver *)

\* submitIO of the block layer hands the request to the driver at once.
\* Writes and reads are counted in the busy time, flushes and trims are not.
SubmitBIO(id, g) ==
    /\ ioQueue' = ioQueue \cup {[id |-> id, submittedAt |-> now]}
    /\ \E counted \in (IF g.kind = "trace" THEN BOOLEAN ELSE {TRUE}) :
          Execute(id, counted)

\* completion(id) of the block layer calls the generator back and forgets
\* the request.
Callback(g, t) == IF g.kind = "trace" THEN TraceCallback(g, t)
                                      ELSE RequestCallback(g, t)

Found(ids) == {b \in ioQueue : b.id \in ids}

\* Mutant: the request stays in the queue.
Forget(ids) == ioQueue

Completed(ids) == {b \in ioQueue : b.id \notin ids}

-----------------------------------------------------------------------------
(* One action per event *)

NextLine(g) == g.line .. g.line + TraceGap

\* The begin event: begin() of the generator submits the first request.
Begin ==
    /\ ~begun
    /\ begun' = TRUE
    /\ \/ /\ gen.kind = "request"
          /\ \E a \in GenerateAddress(gen) : gen' = RequestBegin(gen, now, a)
          /\ SubmitBIO(0, gen)
       \/ /\ gen.kind = "trace"
          /\ \E l \in NextLine(gen) : \E n \in l .. l + TraceGap :
                gen' = TraceBegin(gen, now, l, n)
          /\ IF TraceLines = 0 THEN UNCHANGED <<hilVars, ioQueue>>
                               ELSE SubmitBIO(1, gen)
    /\ UNCHANGED now

\* submitEvent
Submit ==
    LET g == [gen EXCEPT !.submitAt = Never] IN
    /\ Running
    /\ gen.submitAt = now
    /\ SubmitBIO(g.count, g)
    /\ \/ /\ g.kind = "request"
          /\ \E a \in GenerateAddress(g) : gen' = RequestSubmit(g, now, a)
       \/ /\ g.kind = "trace"
          /\ \E n \in NextLine(g) : gen' = TraceSubmit(g, now, n)
    /\ UNCHANGED <<now, begun>>

\* jobEvent of a core
Job(c) ==
    /\ Running
    /\ JobDone(c)
    /\ UNCHANGED <<now, gen, ioQueue, begun>>

\* completionEvent: every request that is due is called back in turn.
Complete ==
    LET ids == {r.id : r \in Due} IN
    /\ Running
    /\ Completion
    /\ gen' = FoldLeft(LAMBDA g, i : Callback(g, now), gen,
                       [i \in 1 .. Cardinality(Found(ids)) |-> i])
    /\ ioQueue' = Completed(ids)
    /\ UNCHANGED <<now, begun>>

\* doNextEvent returns false once the engine was stopped, and also when it
\* has no event left: main() returns.
Stopped == (gen.ended \/ Events = {}) /\ UNCHANGED vars

Next ==
    \/ Tick
    \/ Begin
    \/ Submit
    \/ \E c \in Cores : Job(c)
    \/ Complete
    \/ Stopped

\* The main loop runs events as long as there are any.
Spec == Init /\ [][Next]_vars /\ WF_vars(Next)

-----------------------------------------------------------------------------
(* Properties *)

\* Types of the state of the path.
TypeOK ==
    /\ HILTypeOK
    /\ gen.kind \in {"request", "trace"}
    /\ gen.depth \in Nat
    /\ gen.submitAt \in Nat \cup {Never}
    /\ ioQueue \subseteq [id : Requests, submittedAt : Nat]

\* Where a request can be once it was submitted.
InCores == UNION {{jobs[c][i].id : i \in 1 .. Len(jobs[c])} : c \in Cores}
Waiting == {r.id : r \in completionQueue}
Pending == {b.id : b \in ioQueue}

\* Every layer agrees on what is in flight: the generator's depth counts the
\* block layer's queue, and each of its requests is in exactly one place
\* below, so each is called back once.
InFlightAgrees ==
    /\ gen.depth = Cardinality(ioQueue)
    /\ Cardinality(ioQueue) = Cardinality(Pending)
    /\ Pending = InCores \cup Waiting
    /\ InCores \cap Waiting = {}

\* The depth the user asked for is never exceeded, although completions and
\* submissions compete for one submitEvent.
DepthBounded ==
    /\ gen.kind = "request" => gen.depth <= IODepth
    /\ gen.kind = "trace" /\ gen.mode = "sync" => gen.depth <= 1
    /\ gen.kind = "trace" /\ gen.mode = "async" =>
          gen.depth <= Max({1, MaxQueueDepth})

\* The run ends only when nothing is in flight.
DrainedAtEnd == gen.ended => ioQueue = {}

\* The comment of the random generator, "randgen range: [offset, offset +
\* size)": a request starts inside the region.
StartsInRange ==
    gen.kind = "request" => gen.addr \in Offset .. Offset + Size - 1

\* The sequential addresses wrap around inside the region: "Limit range of
\* address to [offset, offset + size)" holds of whole requests.
AddressInRange ==
    gen.kind = "request" /\ ~gen.random =>
        gen.addr >= Offset /\ gen.addr + BlockSize <= Offset + Size

\* The accounts of the layers agree in every state of every generator mode:
\* what is in flight, how much may be, how long the device was busy, and what
\* is left when the run ends.
Accounts ==
    /\ TypeOK
    /\ InFlightAgrees
    /\ DepthBounded
    /\ BusyIsUnion
    /\ AddressInRange
    /\ DrainedAtEnd

\* "No I/O will be generated anymore" once the termination is reserved.
NoIOAfterReserve == [][gen.reserve => gen'.count = gen.count]_vars

\* The same of the runs that are not time based.
NoLateIO == [][gen.reserve /\ ~(gen.kind = "request" /\ gen.timed)
                  => gen'.count = gen.count]_vars

\* Every run comes to its end: no generator mode waits for a completion that
\* was delivered, and no completion is left behind.
RunEnds == <>gen.ended

=============================================================================
