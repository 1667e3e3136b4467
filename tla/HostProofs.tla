----------------------------- MODULE HostProofs -----------------------------
(***************************************************************************)
(* Proofs about a run of a generator against the host interface layer:     *)
(* completions are never left without a wake-up, the busy time is the      *)
(* length of the union of the service intervals, and the layers agree on   *)
(* what is in flight.                                                      *)
(***************************************************************************)
EXTENDS HostPath, SeqLemmas

-----------------------------------------------------------------------------
(* The inductive invariant *)

\* Each call below takes time: what updateCompletion relies on when it
\* compares with the time scheduled last.
CallsTakeTime == 0 \notin Latencies

\* completionEvent and its record of the time scheduled last.
Armed ==
    /\ now \in Nat
    /\ completionQueue \subseteq [id : Requests, finishedAt : Nat]
    /\ completionAt \in Nat \cup {Unscheduled}
    /\ lastScheduled \in Nat
    /\ CompletionArmed
    /\ completionAt # Unscheduled => completionAt = lastScheduled
    /\ completionQueue = {} => lastScheduled <= now

\* The busy time ends at lastBusyAt, and what lies ahead of the clock is
\* covered without a gap.
Measured ==
    /\ busy \in Nat
    /\ lastBusyAt \in Nat
    /\ covered \subseteq 0 .. lastBusyAt - 1
    /\ now .. lastBusyAt - 1 \subseteq covered
    /\ BusyIsUnion

\* The cores: one is busy while it has a job, and no request has two.
Job0 == [id : Requests, counted : BOOLEAN]
Placed ==
    /\ Cores \in {1 .. n : n \in CoreCounts}
    /\ jobs \in [Cores -> Seq(Job0)]
    /\ jobAt \in [Cores -> Nat \cup {Unscheduled}]
    /\ \A c \in Cores : Busy(c) <=> jobs[c] # << >>
    /\ \A c, d \in Cores : \A i \in 1 .. Len(jobs[c]), j \in 1 .. Len(jobs[d]) :
          jobs[c][i].id = jobs[d][j].id => c = d /\ i = j
    /\ \A r, s \in completionQueue : r.id = s.id => r = s

\* The generators.  RequestStates and TraceStates are the records they are.
RequestStates ==
    [kind : {"request"}, random : BOOLEAN, timed : BOOLEAN, count : Nat,
     depth : Nat, reserve : BOOLEAN, submitAt : Nat \cup {Never},
     ended : BOOLEAN, initTime : Nat, addr : Nat]
TraceStates ==
    [kind : {"trace"}, mode : TimingModes, maxIO : Nat, count : Nat,
     depth : Nat, reserve : BOOLEAN, submitAt : Nat \cup {Never},
     ended : BOOLEAN, initTime : Nat, line : Nat, first : Nat, sync : BOOLEAN]

\* The region holds two requests (or all but one sector of them).
TwoFit == 2 * BlockSize <= Size + 1

\* A submission is scheduled only while there is room for it.
RequestOK(g) ==
    /\ g \in RequestStates
    /\ g.depth <= IODepth
    /\ g.submitAt # Never => g.depth < IODepth
    /\ g.submitAt # Never /\ ~g.timed => ~g.reserve /\ g.count * BlockSize < IOSize
    /\ TwoFit /\ ~g.random => g.addr >= Offset /\ g.addr + BlockSize <= Offset + Size
    /\ g.ended => g.depth = 0

\* sync marks a submission held back by the queue depth: it is not scheduled.
TraceOK(g) ==
    /\ g \in TraceStates
    /\ g.submitAt # Never => ~g.reserve \/ g.ended
    /\ g.sync => ~g.reserve /\ g.submitAt = Never
    /\ g.mode = "sync" =>
          g.depth <= 1 /\ (g.submitAt # Never => g.depth = 0)
    /\ g.mode = "async" =>
          /\ g.depth <= 1 \/ g.depth <= MaxQueueDepth
          /\ g.submitAt # Never => g.depth = 0 \/ g.depth < MaxQueueDepth
    /\ g.ended => g.depth = 0

GenOK(g) == RequestOK(g) \/ TraceOK(g)

\* Each request in flight is in one place, under an identifier that no later
\* request will get.
InFlight ==
    /\ IsFiniteSet(ioQueue)
    /\ ioQueue \subseteq [id : Requests, submittedAt : Nat]
    /\ \A b, d \in ioQueue : b.id = d.id => b = d
    /\ gen.depth = Cardinality(ioQueue)
    /\ Pending = InCores \cup Waiting
    /\ InCores \cap Waiting = {}
    /\ \A b \in ioQueue :
          \/ b.id < gen.count
          \/ gen.kind = "trace" /\ gen.reserve /\ b.id <= gen.count

\* Nothing happens before the begin event.
NotBegun ==
    /\ ioQueue = {}
    /\ completionAt = Unscheduled
    /\ \A c \in Cores : ~Busy(c)
    /\ gen.count = 0 /\ gen.submitAt = Never
    /\ ~gen.reserve /\ ~gen.ended
    /\ gen.kind = "trace" => ~gen.sync

HostInv ==
    /\ Armed
    /\ Measured
    /\ Placed
    /\ GenOK(gen)
    /\ InFlight
    /\ begun \in BOOLEAN
    /\ ~begun => NotBegun

-----------------------------------------------------------------------------
(* The host interface layer *)

\* The earliest completion.
LEMMA TopIsLeast ==
  ASSUME NEW q \in SUBSET [id : Requests, finishedAt : Nat], q # {}
  PROVE  /\ Top(q) \in Nat
         /\ \E r \in q : r.finishedAt = Top(q)
         /\ \A r \in q : Top(q) <= r.finishedAt
<1> DEFINE F == {r.finishedAt : r \in q}
<1>1. F \in SUBSET Nat /\ F # {}
  OBVIOUS
<1>2. PICK m \in F : \A n \in F : m <= n
  <2> HIDE DEF F
  <2> QED BY <1>1, LeastNat
<1>3. Min(F) \in F /\ \A n \in F : Min(F) <= n
  <2> HIDE DEF F
  <2> QED BY <1>2 DEF Min
<1>4. Top(q) = Min(F)
  BY DEF Top
<1> HIDE DEF F
<1>5. Top(q) \in Nat
  BY <1>1, <1>3, <1>4
<1>6. \E r \in q : r.finishedAt = Top(q)
  BY <1>3, <1>4 DEF F
<1>7. \A r \in q : Top(q) <= r.finishedAt
  BY <1>3, <1>4 DEF F
<1> QED
  BY <1>5, <1>6, <1>7

\* A request that was served is queued and completionEvent is scheduled for
\* it, or for an earlier one.
LEMMA ServeArms ==
  ASSUME CallsTakeTime, Armed, UNCHANGED now, NEW id \in Requests,
         NEW counted, NEW latency \in Latencies, Serve(id, counted, latency)
  PROVE  Armed'
<1> DEFINE r == [id |-> id, finishedAt |-> now + latency]
           q == completionQueue \cup {r}
<1>1. latency \in Nat \ {0} /\ now \in Nat
  BY HILAssumption DEF CallsTakeTime, Armed
<1>2. r \in [id : Requests, finishedAt : Nat] /\ r.finishedAt = now + latency
  BY <1>1
<1>3. completionQueue' = q /\ UpdateCompletion(q, completionAt)
  BY DEF Serve
<1>4. q \in SUBSET [id : Requests, finishedAt : Nat] /\ q # {} /\ r \in q
  BY <1>2 DEF Armed
<1> HIDE DEF r
<1>5. /\ Top(q) \in Nat
      /\ \E x \in q : x.finishedAt = Top(q)
      /\ \A x \in q : Top(q) <= x.finishedAt
  BY <1>4, TopIsLeast
<1>6. \/ lastScheduled # Top(q) /\ lastScheduled' = Top(q) /\ completionAt' = Top(q)
      \/ lastScheduled = Top(q) /\ lastScheduled' = Top(q) /\ completionAt' = completionAt
  BY <1>3, <1>4 DEF UpdateCompletion
<1>7. lastScheduled = Top(q) => completionAt = Top(q)
  <2>1. CASE completionQueue = {}
    <3>1. Top(q) = now + latency
      BY <1>2, <1>5, <2>1
    <3>2. lastScheduled <= now /\ lastScheduled \in Nat
      BY <2>1 DEF Armed
    <3> QED
      BY <1>1, <3>1, <3>2
  <2>2. CASE completionQueue # {}
    <3>1. completionAt = Top(completionQueue) /\ Top(completionQueue) \in Nat
      BY <2>2, TopIsLeast DEF Armed, CompletionArmed
    <3>2. completionAt # Unscheduled
      BY <3>1 DEF Unscheduled
    <3> QED
      BY <3>2 DEF Armed
  <2> QED
    BY <2>1, <2>2
<1>8. completionAt' = Top(q) /\ lastScheduled' = Top(q)
  BY <1>6, <1>7
<1> HIDE DEF q
<1> QED
  BY <1>3, <1>4, <1>5, <1>8 DEF Armed, CompletionArmed

\* completion: what is left is due later than now, so the event is scheduled
\* again.
LEMMA CompletionArms ==
  ASSUME Armed, UNCHANGED now, Completion
  PROVE  Armed'
<1> DEFINE q == completionQueue \ Due
<1>1. /\ completionQueue' = q /\ UpdateCompletion(q, Unscheduled)
      /\ completionAt = now /\ now \in Nat
  BY DEF Completion, Armed
<1>2. lastScheduled = now
  <2>1. completionAt # Unscheduled
    BY <1>1 DEF Unscheduled
  <2> QED
    BY <1>1, <2>1 DEF Armed
<1>3. q \in SUBSET [id : Requests, finishedAt : Nat]
  BY DEF Armed
<1>4. \A r \in q : ~(r.finishedAt <= now)
  BY DEF Due
<1> HIDE DEF q
<1>5. CASE q = {}
  <2>1. completionAt' = Unscheduled /\ lastScheduled' = now
    BY <1>1, <1>2, <1>5 DEF UpdateCompletion
  <2> QED
    BY <1>1, <1>3, <1>5, <2>1 DEF Armed, CompletionArmed
<1>6. CASE q # {}
  <2>1. Top(q) \in Nat /\ Top(q) # now
    BY <1>1, <1>3, <1>4, <1>6, TopIsLeast
  <2>2. completionAt' = Top(q) /\ lastScheduled' = Top(q)
    BY <1>1, <1>2, <1>6, <2>1 DEF UpdateCompletion
  <2> QED
    BY <1>1, <1>3, <1>6, <2>1, <2>2 DEF Armed, CompletionArmed
<1> QED
  BY <1>5, <1>6

\* updateBusyTime counts the ticks that were not covered before.
LEMMA ServeMeasures ==
  ASSUME Measured, now \in Nat, UNCHANGED now, NEW id,
         NEW counted, NEW latency \in Latencies, Serve(id, counted, latency)
  PROVE  Measured'
<1> DEFINE end == now + latency
<1>1. latency \in Nat /\ end \in Nat /\ now \in Nat /\ now <= end
  BY HILAssumption
<1>2. CASE ~counted
  BY <1>2 DEF Serve, Measured, BusyIsUnion
<1>3. CASE counted
  <2>1. UpdateBusyTime(now, end) /\ covered' = covered \cup (now .. end - 1)
    BY <1>3 DEF Serve
  <2> HIDE DEF end
  <2>2. CASE end <= lastBusyAt
    <3>1. covered' = covered
      BY <1>1, <2>1, <2>2 DEF Measured
    <3> QED
      BY <2>1, <2>2, <3>1 DEF Measured, UpdateBusyTime, BusyIsUnion
  <2>3. CASE ~(end <= lastBusyAt)
    <3> DEFINE begin == IF now < lastBusyAt THEN lastBusyAt ELSE now
               N == begin .. end - 1
    <3>1. busy' = busy + (end - begin) /\ lastBusyAt' = end
      BY <2>1, <2>3 DEF UpdateBusyTime
    <3>2. lastBusyAt \in Nat /\ begin \in Nat /\ begin <= end /\ lastBusyAt < end
      BY <1>1, <2>3 DEF Measured
    <3>3. covered' = covered \cup N
      BY <1>1, <2>1, <3>2 DEF Measured
    <3>4. covered \cap N = {}
      BY <1>1, <3>2 DEF Measured
    <3> HIDE DEF begin
    <3>5. IsFiniteSet(N) /\ Cardinality(N) = end - begin
      <4>1. begin \in Int /\ end - 1 \in Int
        BY <1>1, <3>2
      <4>2. /\ IsFiniteSet(N)
            /\ Cardinality(N) = IF begin > end - 1 THEN 0 ELSE (end - 1) - begin + 1
        BY <4>1, FS_Interval
      <4> QED
        BY <1>1, <3>2, <4>2
    <3>6. IsFiniteSet(covered)
      <4>1. IsFiniteSet(0 .. lastBusyAt - 1)
        BY <3>2, FS_Interval
      <4> QED
        BY <4>1, FS_Subset DEF Measured
    <3>7. Cardinality(covered \cup N) = Cardinality(covered) + Cardinality(N)
      <4>1. /\ Cardinality(covered \cup N) = Cardinality(covered) + Cardinality(N)
                                             - Cardinality(covered \cap N)
            /\ Cardinality(covered) \in Nat /\ Cardinality(N) \in Nat
        BY <3>5, <3>6, FS_Union, FS_CardinalityType
      <4>2. Cardinality(covered \cap N) = 0
        <5> HIDE DEF N
        <5> QED BY <3>4, FS_EmptySet
      <4> HIDE DEF N
      <4> QED
        BY <4>1, <4>2
    <3>8. BusyIsUnion'
      BY <3>1, <3>3, <3>5, <3>7 DEF Measured, BusyIsUnion
    <3>9. covered' \subseteq 0 .. end - 1 /\ now .. end - 1 \subseteq covered'
      BY <1>1, <2>1, <3>2 DEF Measured
    <3>10. busy' \in Nat /\ lastBusyAt' \in Nat
      BY <1>1, <3>1, <3>2 DEF Measured
    <3> QED
      BY <3>1, <3>8, <3>9, <3>10 DEF Measured
  <2> QED
    BY <2>2, <2>3
<1> QED
  BY <1>2, <1>3

\* The requests that wait in the queues of the cores.
LEMMA InCoresMember ==
  ASSUME NEW x
  PROVE  x \in InCores <=>
            \E c \in Cores : \E i \in 1 .. Len(jobs[c]) : jobs[c][i].id = x
BY DEF InCores

\* Where the requests are that are below the block layer.
Below == InCores \cup Waiting
Apart == InCores \cap Waiting = {}

\* Serving a request adds it to those that wait for completion.
LEMMA ServeWaits ==
  ASSUME NEW id, NEW counted, NEW latency, Serve(id, counted, latency)
  PROVE  /\ Waiting' = Waiting \cup {id}
         /\ (id \notin Waiting /\ \A r, s \in completionQueue : r.id = s.id => r = s)
               => \A r, s \in completionQueue' : r.id = s.id => r = s
<1> DEFINE x == [id |-> id, finishedAt |-> now + latency]
<1>1. completionQueue' = completionQueue \cup {x} /\ x.id = id
  BY DEF Serve
<1> HIDE DEF x
<1>2. Waiting' = Waiting \cup {id}
  BY <1>1 DEF Waiting
<1>3. \A r \in completionQueue : r.id \in Waiting
  BY DEF Waiting
<1> QED
  BY <1>1, <1>2, <1>3

\* execute hands a new request to one core, or serves it.
LEMMA ExecuteKeeps ==
  ASSUME CallsTakeTime, Armed, Measured, Placed, Apart, UNCHANGED now,
         NEW id \in Requests, id \notin Below, NEW counted \in BOOLEAN,
         Execute(id, counted)
  PROVE  Armed' /\ Measured' /\ Placed' /\ Apart' /\ Below' = Below \cup {id}
<1>1. CASE Cores = {} /\ UNCHANGED <<jobs, jobAt>>
           /\ \E latency \in Latencies : Serve(id, counted, latency)
  <2>1. PICK latency \in Latencies : Serve(id, counted, latency)
    BY <1>1
  <2>2. Armed' /\ Measured'
    BY <2>1, ServeArms, ServeMeasures DEF Armed
  <2>3. InCores' = InCores
    BY <1>1 DEF InCores, Cores
  <2>4. /\ Waiting' = Waiting \cup {id} /\ id \notin Waiting /\ id \notin InCores
        /\ \A r, s \in completionQueue' : r.id = s.id => r = s
    BY <2>1, ServeWaits DEF Below, Placed
  <2>5. Placed'
    BY <1>1, <2>4 DEF Placed, Cores, Busy
  <2> QED
    BY <2>2, <2>3, <2>4, <2>5 DEF Below, Apart
<1>2. ASSUME NEW c \in LeastBusyCPU,
             jobs' = [jobs EXCEPT ![c] = Append(@, [id |-> id, counted |-> counted])],
             jobAt' = IF Busy(c) THEN jobAt
                      ELSE [jobAt EXCEPT ![c] = now + JobLatency],
             UNCHANGED <<completionQueue, completionAt, lastScheduled, busy,
                         lastBusyAt, covered>>
      PROVE  Armed' /\ Measured' /\ Placed' /\ Apart' /\ Below' = Below \cup {id}
  <2> DEFINE j == [id |-> id, counted |-> counted]
             q == Append(jobs[c], j)
  <2>1. c \in Cores /\ jobs \in [Cores -> Seq(Job0)] /\ jobs[c] \in Seq(Job0)
    BY DEF LeastBusyCPU, Placed
  <2>2. j \in Job0 /\ j.id = id
    BY DEF Job0
  <2> HIDE DEF j
  <2>3. /\ q \in Seq(Job0) /\ Len(q) = Len(jobs[c]) + 1 /\ Len(jobs[c]) \in Nat
        /\ q[Len(q)] = j /\ \A i \in 1 .. Len(jobs[c]) : q[i] = jobs[c][i]
        /\ q # << >>
    BY <2>1, <2>2
  <2>4. jobs' = [jobs EXCEPT ![c] = q]
    BY <1>2 DEF j
  <2> HIDE DEF q
  <2>5. /\ Cores' = Cores /\ jobs' \in [Cores -> Seq(Job0)]
        /\ jobs'[c] = q /\ \A d \in Cores : d # c => jobs'[d] = jobs[d]
    BY <2>1, <2>3, <2>4 DEF Cores
  <2>6. /\ jobAt' \in [Cores -> Nat \cup {Unscheduled}]
        /\ jobAt'[c] # Unscheduled
        /\ \A d \in Cores : d # c => jobAt'[d] = jobAt[d]
    <3>1. jobAt \in [Cores -> Nat \cup {Unscheduled}] /\ now + JobLatency \in Nat
      BY HILAssumption DEF Placed, Armed
    <3> QED
      BY <1>2, <2>1, <3>1 DEF Busy, Unscheduled
  <2>7. \A x : x \in InCores' <=> x \in InCores \/ x = id
    <3>1. \A x : x \in InCores' <=>
             \E d \in Cores : \E i \in 1 .. Len(jobs'[d]) : jobs'[d][i].id = x
      BY <2>5 DEF InCores
    <3>2. id \in InCores'
      BY <2>1, <2>2, <2>3, <2>5, <3>1
    <3>3. ASSUME NEW x \in InCores PROVE x \in InCores'
      <4>1. PICK d \in Cores : \E i \in 1 .. Len(jobs[d]) : jobs[d][i].id = x
        BY InCoresMember
      <4>2. PICK i \in 1 .. Len(jobs[d]) : jobs[d][i].id = x
        BY <4>1
      <4>3. i \in 1 .. Len(jobs'[d]) /\ jobs'[d][i] = jobs[d][i]
        BY <2>3, <2>5
      <4> QED
        BY <3>1, <4>2, <4>3
    <3>4. ASSUME NEW x \in InCores', x # id PROVE x \in InCores
      <4>1. PICK d \in Cores : \E i \in 1 .. Len(jobs'[d]) : jobs'[d][i].id = x
        BY <3>1
      <4>2. PICK i \in 1 .. Len(jobs'[d]) : jobs'[d][i].id = x
        BY <4>1
      <4>3. i \in 1 .. Len(jobs[d]) /\ jobs'[d][i] = jobs[d][i]
        BY <2>2, <2>3, <2>5, <3>4, <4>2
      <4> QED
        BY <4>2, <4>3, InCoresMember
    <3> QED
      BY <3>2, <3>3, <3>4
  <2>8. ASSUME NEW d \in Cores, NEW e \in Cores, NEW i \in 1 .. Len(jobs'[d]),
               NEW k \in 1 .. Len(jobs'[e]), jobs'[d][i].id = jobs'[e][k].id
        PROVE  d = e /\ i = k
    <3>1. \A f \in Cores : \A m \in 1 .. Len(jobs[f]) : jobs[f][m].id # id
      BY InCoresMember DEF Below
    <3>2. \A f \in Cores : \A m \in 1 .. Len(jobs'[f]) :
             \/ f = c /\ m = Len(q) /\ jobs'[f][m].id = id
             \/ m \in 1 .. Len(jobs[f]) /\ jobs'[f][m] = jobs[f][m]
      BY <2>2, <2>3, <2>5, SMTT(20)
    <3>3. \/ d = c /\ i = Len(q) /\ jobs'[d][i].id = id
          \/ i \in 1 .. Len(jobs[d]) /\ jobs'[d][i] = jobs[d][i]
      BY <3>2
    <3>4. \/ e = c /\ k = Len(q) /\ jobs'[e][k].id = id
          \/ k \in 1 .. Len(jobs[e]) /\ jobs'[e][k] = jobs[e][k]
      BY <3>2
    <3>5. CASE jobs'[d][i].id = id
      BY <2>8, <3>1, <3>3, <3>4, <3>5
    <3>6. CASE jobs'[d][i].id # id
      <4>1. /\ i \in 1 .. Len(jobs[d]) /\ k \in 1 .. Len(jobs[e])
            /\ jobs[d][i].id = jobs[e][k].id
        BY <2>8, <3>3, <3>4, <3>6
      <4> QED
        BY <4>1 DEF Placed
    <3> QED
      BY <3>5, <3>6
  <2>9. Placed'
    <3>1. \A d \in Cores : jobAt'[d] # Unscheduled <=> jobs'[d] # << >>
      BY <2>3, <2>5, <2>6 DEF Placed, Busy
    <3>2. /\ Cores \in {1 .. n : n \in CoreCounts}
          /\ \A r, s \in completionQueue : r.id = s.id => r = s
      BY DEF Placed
    <3> QED
      BY <1>2, <2>5, <2>6, <2>8, <3>1, <3>2 DEF Placed, Busy
  <2>10. Waiting' = Waiting
    BY <1>2 DEF Waiting
  <2>11. Armed' /\ Measured'
    BY <1>2 DEF Armed, Measured, CompletionArmed, BusyIsUnion
  <2> QED
    BY <2>7, <2>9, <2>10, <2>11 DEF Below, Apart
<1> QED
  BY <1>1, <1>2 DEF Execute

\* jobDone moves the request at the front of a core to the completion queue.
LEMMA JobDoneKeeps ==
  ASSUME CallsTakeTime, Armed, Measured, Placed, Apart, UNCHANGED now,
         NEW c \in Cores, JobDone(c)
  PROVE  Armed' /\ Measured' /\ Placed' /\ Apart' /\ Below' = Below
<1> DEFINE id == Head(jobs[c]).id
           q == Tail(jobs[c])
<1>0. /\ jobs \in [Cores -> Seq(Job0)] /\ jobs[c] \in Seq(Job0)
      /\ jobAt \in [Cores -> Nat \cup {Unscheduled}] /\ now \in Nat
      /\ Cores \in {1 .. n : n \in CoreCounts}
  BY DEF Placed, Armed
<1>1. jobs[c] # << >>
  <2>1. jobAt[c] = now /\ now # Unscheduled
    BY <1>0 DEF JobDone, Unscheduled
  <2> QED
    BY <2>1 DEF Placed, Busy
<1>2. /\ Len(jobs[c]) \in Nat \ {0} /\ 1 \in 1 .. Len(jobs[c])
      /\ jobs[c][1].id = id /\ Head(jobs[c]) \in Job0
      /\ q \in Seq(Job0) /\ Len(q) = Len(jobs[c]) - 1
      /\ \A i \in 1 .. Len(q) : q[i] = jobs[c][i + 1] /\ i + 1 \in 1 .. Len(jobs[c])
      /\ (q = << >> <=> Len(jobs[c]) = 1)
  <2>1. Len(jobs[c]) \in Nat \ {0} /\ 1 \in 1 .. Len(jobs[c])
    BY <1>0, <1>1
  <2>2. Head(jobs[c]) = jobs[c][1] /\ jobs[c][1] \in Job0
    BY <1>0, <1>1, <2>1
  <2>3. /\ q \in Seq(Job0) /\ Len(q) = Len(jobs[c]) - 1
        /\ \A i \in 1 .. Len(q) : q[i] = jobs[c][i + 1]
    BY <1>0, <1>1
  <2> HIDE DEF q
  <2>4. q = << >> <=> Len(q) = 0
    BY <2>3, EmptySeq
  <2>5. \A i \in 1 .. Len(q) : i + 1 \in 1 .. Len(jobs[c])
    BY <2>1, <2>3
  <2>6. Len(q) = 0 <=> Len(jobs[c]) = 1
    BY <2>1, <2>3
  <2> QED
    BY <2>1, <2>2, <2>3, <2>4, <2>5, <2>6
<1>3. id \in Requests
  BY <1>2 DEF Job0
<1>4. PICK latency \in Latencies : Serve(id, Head(jobs[c]).counted, latency)
  BY DEF JobDone
<1>5. jobs' = [jobs EXCEPT ![c] = q]
  BY DEF JobDone
<1>6. jobAt' = [jobAt EXCEPT ![c] = IF Len(jobs[c]) > 1 THEN now + JobLatency
                                                          ELSE Unscheduled]
  BY DEF JobDone
<1> HIDE DEF q, id
<1>7. Armed' /\ Measured'
  BY <1>0, <1>3, <1>4, ServeArms, ServeMeasures
<1>8. /\ Cores' = Cores /\ jobs' \in [Cores -> Seq(Job0)]
      /\ jobs'[c] = q /\ \A d \in Cores : d # c => jobs'[d] = jobs[d]
  BY <1>0, <1>2, <1>5 DEF Cores
<1>9. /\ jobAt' \in [Cores -> Nat \cup {Unscheduled}]
      /\ jobAt'[c] # Unscheduled <=> q # << >>
      /\ \A d \in Cores : d # c => jobAt'[d] = jobAt[d]
  <2>1. now + JobLatency \in Nat
    BY <1>0, HILAssumption
  <2>2. /\ jobAt'[c] = IF Len(jobs[c]) > 1 THEN now + JobLatency ELSE Unscheduled
        /\ jobAt' \in [Cores -> Nat \cup {Unscheduled}]
        /\ \A d \in Cores : d # c => jobAt'[d] = jobAt[d]
    BY <1>0, <1>6, <2>1
  <2>3. (Len(jobs[c]) > 1) <=> q # << >>
    BY <1>2
  <2> QED
    BY <2>1, <2>2, <2>3 DEF Unscheduled
<1>10. id \in InCores /\ id \notin Waiting
  <2>1. id \in InCores
    BY <1>2, InCoresMember
  <2> QED
    BY <2>1 DEF Apart
<1> DEFINE at(d, i) == IF d = c THEN i + 1 ELSE i
<1>11. \A d \in Cores : \A i \in 1 .. Len(jobs'[d]) :
          at(d, i) \in 1 .. Len(jobs[d]) /\ jobs'[d][i] = jobs[d][at(d, i)]
  BY <1>2, <1>8
<1>12. \A d \in Cores : \A i \in 1 .. Len(jobs'[d]) : jobs'[d][i].id # id
  <2> SUFFICES ASSUME NEW d \in Cores, NEW i \in 1 .. Len(jobs'[d]),
                      jobs'[d][i].id = id
               PROVE  FALSE
    OBVIOUS
  <2>1. at(d, i) \in 1 .. Len(jobs[d]) /\ jobs[d][at(d, i)].id = jobs[c][1].id
    BY <1>2, <1>11
  <2> HIDE DEF at
  <2>2. d = c /\ at(d, i) = 1
    BY <1>2, <2>1 DEF Placed
  <2> QED
    BY <2>2 DEF at
<1>13. \A x : x \in InCores' <=> x \in InCores /\ x # id
  <2>1. \A x : x \in InCores' <=>
           \E d \in Cores : \E i \in 1 .. Len(jobs'[d]) : jobs'[d][i].id = x
    BY <1>8 DEF InCores
  <2>2. ASSUME NEW x \in InCores' PROVE x \in InCores /\ x # id
    <3>1. PICK d \in Cores : \E i \in 1 .. Len(jobs'[d]) : jobs'[d][i].id = x
      BY <2>1
    <3>2. PICK i \in 1 .. Len(jobs'[d]) : jobs'[d][i].id = x
      BY <3>1
    <3> HIDE DEF at
    <3> QED
      BY <1>11, <1>12, <3>2, InCoresMember
  <2>3. ASSUME NEW x \in InCores, x # id PROVE x \in InCores'
    <3>1. PICK d \in Cores : \E i \in 1 .. Len(jobs[d]) : jobs[d][i].id = x
      BY InCoresMember
    <3>2. PICK i \in 1 .. Len(jobs[d]) : jobs[d][i].id = x
      BY <3>1
    <3>3. CASE d # c
      BY <1>8, <2>1, <3>2, <3>3
    <3>4. CASE d = c
      <4>1. i # 1
        BY <1>2, <2>3, <3>2, <3>4
      <4>2. i - 1 \in 1 .. Len(q) /\ q[i - 1] = jobs[c][i]
        BY <1>2, <3>2, <3>4, <4>1
      <4> QED
        BY <1>8, <2>1, <3>2, <3>4, <4>2
    <3> QED
      BY <3>3, <3>4
  <2> QED
    BY <2>2, <2>3
<1>14. /\ Waiting' = Waiting \cup {id}
       /\ \A r, s \in completionQueue' : r.id = s.id => r = s
  BY <1>4, <1>10, ServeWaits DEF Placed
<1>15. ASSUME NEW d \in Cores, NEW e \in Cores, NEW i \in 1 .. Len(jobs'[d]),
              NEW k \in 1 .. Len(jobs'[e]), jobs'[d][i].id = jobs'[e][k].id
       PROVE  d = e /\ i = k
  <2>1. /\ at(d, i) \in 1 .. Len(jobs[d]) /\ at(e, k) \in 1 .. Len(jobs[e])
        /\ jobs[d][at(d, i)].id = jobs[e][at(e, k)].id
    BY <1>11, <1>15
  <2> HIDE DEF at
  <2>2. d = e /\ at(d, i) = at(e, k)
    BY <2>1 DEF Placed
  <2>3. i \in Int /\ k \in Int
    BY <1>8, <1>0
  <2> QED
    BY <2>2, <2>3 DEF at
<1>16. Placed'
  <2>1. \A d \in Cores : jobAt'[d] # Unscheduled <=> jobs'[d] # << >>
    BY <1>8, <1>9 DEF Placed, Busy
  <2> QED
    BY <1>0, <1>8, <1>9, <1>14, <1>15, <2>1 DEF Placed, Busy
<1> QED
  BY <1>7, <1>10, <1>13, <1>14, <1>16 DEF Below, Apart

\* completion forgets the requests that are due, wherever the cores are.
LEMMA CompletionKeeps ==
  ASSUME Armed, Measured, Placed, Apart, UNCHANGED now, Completion
  PROVE  /\ Armed' /\ Measured' /\ Placed' /\ Apart'
         /\ {r.id : r \in Due} \subseteq Below
         /\ Below' = Below \ {r.id : r \in Due}
<1>1. Armed'
  BY CompletionArms
<1>2. Measured'
  BY DEF Completion, Measured, BusyIsUnion
<1>3. completionQueue' = completionQueue \ Due /\ UNCHANGED <<jobs, jobAt>>
  BY DEF Completion
<1>4. Placed'
  BY <1>3 DEF Placed, Cores, Busy
<1>5. InCores' = InCores
  BY <1>3 DEF InCores, Cores
<1>6. Waiting' = Waiting \ {r.id : r \in Due}
  <2>1. \A r, s \in completionQueue : r.id = s.id => r = s
    BY DEF Placed
  <2>2. Due \subseteq completionQueue
    BY DEF Due
  <2> QED
    BY <1>3, <2>1, <2>2 DEF Waiting
<1>7. {r.id : r \in Due} \subseteq Waiting
  BY DEF Due, Waiting
<1> QED
  BY <1>1, <1>2, <1>4, <1>5, <1>6, <1>7 DEF Below, Apart

-----------------------------------------------------------------------------
(* The request generator *)

\* A workload ends after it began; the amount left does not depend on time.
LEMMA FinishedBySize ==
  ASSUME NEW g, NEW t, ~g.timed
  PROVE  Finished(g, t) <=> g.count * BlockSize >= IOSize
BY DEF Finished

\* rescheduleSubmit keeps the bookkeeping of a generator with room for its
\* scheduled submission; it changes neither what was counted nor the address.
LEMMA RescheduleOK ==
  ASSUME NEW g, RequestOK(g), ~g.ended, g.timed \/ ~g.reserve,
         NEW t \in Nat, NEW d \in Nat
  PROVE  LET h == RescheduleSubmit(g, t, d)
         IN  /\ RequestOK(h)
             /\ h.count = g.count /\ h.depth = g.depth /\ h.kind = "request"
<1> DEFINE h == RescheduleSubmit(g, t, d)
<1>0. /\ g \in RequestStates /\ g.count \in Nat /\ BlockSize \in Nat /\ IOSize \in Nat
      /\ IODepth \in Nat
  BY RequestAssumption DEF RequestOK, RequestStates
<1>1. CASE Finished(g, t)
  <2>1. h = [g EXCEPT !.reserve = TRUE, !.ended = g.ended \/ g.depth = 0]
    BY <1>1 DEF RescheduleSubmit
  <2>2. /\ h \in RequestStates /\ h.depth = g.depth /\ h.count = g.count
        /\ h.submitAt = g.submitAt /\ h.addr = g.addr /\ h.random = g.random
        /\ h.timed = g.timed /\ h.kind = "request"
        /\ h.ended = (g.depth = 0)
    BY <1>0, <2>1 DEF RequestStates, RequestOK
  <2>3. g.submitAt # Never => g.timed
    <3> SUFFICES ASSUME g.submitAt # Never, ~g.timed PROVE FALSE
      OBVIOUS
    <3>1. g.count * BlockSize < IOSize /\ g.count * BlockSize >= IOSize
      BY <1>1, FinishedBySize DEF RequestOK
    <3>2. g.count * BlockSize \in Nat
      BY <1>0
    <3> QED
      BY <1>0, <3>1, <3>2
  <2> HIDE DEF h
  <2> QED
    BY <2>2, <2>3 DEF RequestOK, h
<1>2. CASE ~Finished(g, t) /\ g.depth < IODepth /\ g.submitAt < t + d
  <2>1. h = [g EXCEPT !.submitAt = t + d]
    BY <1>2 DEF RescheduleSubmit
  <2>2. /\ h \in RequestStates /\ h.depth = g.depth /\ h.count = g.count
        /\ h.addr = g.addr /\ h.random = g.random /\ h.reserve = g.reserve
        /\ h.timed = g.timed /\ h.kind = "request"
        /\ h.ended = g.ended
    BY <1>0, <2>1 DEF RequestStates
  <2>3. ~g.timed => g.count * BlockSize < IOSize
    <3>1. g.count * BlockSize \in Nat
      BY <1>0
    <3> QED
      BY <1>0, <1>2, <3>1, FinishedBySize
  <2> HIDE DEF h
  <2> QED
    BY <1>2, <2>2, <2>3 DEF RequestOK, h
<1>3. CASE ~Finished(g, t) /\ ~(g.depth < IODepth /\ g.submitAt < t + d)
  BY <1>3 DEF RescheduleSubmit, RequestOK, RequestStates
<1> QED
  BY <1>1, <1>2, <1>3

\* The addresses of the sequential case stay inside a region that holds two
\* requests.
LEMMA AddressOK ==
  ASSUME NEW g \in RequestStates, NEW a \in GenerateAddress(g)
  PROVE  /\ a \in Nat
         /\ TwoFit /\ ~g.random => a >= Offset /\ a + BlockSize <= Offset + Size
<1>0. /\ Offset \in Nat /\ Size \in Nat \ {0} /\ BlockSize \in Nat \ {0}
      /\ BlockAlign \in Nat \ {0} /\ 2 ^ Width \in Nat
      /\ Offset + Size + BlockSize < 2 ^ Width
      /\ g.count \in Nat /\ g.random \in BOOLEAN
  BY RequestAssumption DEF RequestStates
<1>1. CASE g.random
  <2>1. PICK off \in Offset .. Offset + Size : a = off - (off % BlockAlign)
    BY <1>1 DEF GenerateAddress
  <2>2. off \in Nat /\ off % BlockAlign \in Nat /\ off % BlockAlign <= off
    <3>1. \A x \in Nat, n \in Nat \ {0} : x % n \in 0 .. n - 1 /\ (x < n => x % n = x)
      OBVIOUS
    <3>2. off \in Nat
      BY <1>0, <2>1
    <3>3. off % BlockAlign \in 0 .. BlockAlign - 1
          /\ (off < BlockAlign => off % BlockAlign = off)
      BY <1>0, <3>1, <3>2
    <3> QED
      BY <1>0, <3>2, <3>3
  <2> QED
    BY <1>1, <2>1, <2>2
<1>2. CASE ~g.random
  <2> DEFINE r == (g.count * BlockAlign) % Size
             x == Offset + (IF r + BlockSize <= Size THEN r ELSE r - BlockSize)
             W == 2 ^ Width
  <2>1. a = x % W
    BY <1>2 DEF GenerateAddress, SequentialOffset
  <2>2. r \in 0 .. Size - 1
    <3>1. g.count * BlockAlign \in Nat
      BY <1>0
    <3> QED
      BY <1>0, <3>1
  <2> HIDE DEF r
  <2>3. x \in Int /\ W \in Nat \ {0}
    BY <1>0, <2>2
  <2>4. TwoFit => x \in Nat /\ x >= Offset /\ x + BlockSize <= Offset + Size /\ x < W
    BY <1>0, <2>2 DEF TwoFit
  <2> HIDE DEF x, W
  <2>5. x % W \in Nat
    BY <2>3
  <2>6. TwoFit => x % W = x
    BY <2>3, <2>4
  <2> QED
    BY <1>2, <2>1, <2>4, <2>5, <2>6
<1> QED
  BY <1>0, <1>1, <1>2

\* _submitIO: one more request in flight, never more than the depth.
LEMMA RequestSubmitOK ==
  ASSUME NEW g, RequestOK(g), ~g.ended, g.timed \/ ~g.reserve,
         g.submitAt = Never, g.depth < IODepth,
         NEW t \in Nat, NEW a \in GenerateAddress(g)
  PROVE  LET h == RequestSubmit(g, t, a)
         IN  /\ RequestOK(h)
             /\ h.count = g.count + 1 /\ h.depth = g.depth + 1
             /\ h.kind = "request"
<1> DEFINE k == [g EXCEPT !.count = @ + 1, !.depth = @ + 1, !.addr = a]
<1>0. /\ g \in RequestStates /\ a \in Nat /\ IODepth \in Nat
      /\ TwoFit /\ ~g.random => a >= Offset /\ a + BlockSize <= Offset + Size
  BY AddressOK, RequestAssumption DEF RequestOK
<1>1. /\ k \in RequestStates /\ k.count = g.count + 1 /\ k.depth = g.depth + 1
      /\ k.addr = a /\ k.submitAt = g.submitAt /\ k.ended = g.ended
      /\ k.timed = g.timed /\ k.reserve = g.reserve /\ k.random = g.random
  <2>1. g.count + 1 \in Nat /\ g.depth + 1 \in Nat
    BY <1>0 DEF RequestStates
  <2>2. k \in RequestStates
    BY <1>0, <2>1 DEF RequestStates
  <2>3. k.count = g.count + 1 /\ k.depth = g.depth + 1 /\ k.addr = a
    BY <1>0 DEF RequestStates
  <2>4. k.submitAt = g.submitAt /\ k.ended = g.ended /\ k.timed = g.timed
    BY <1>0 DEF RequestStates
  <2>5. k.reserve = g.reserve /\ k.random = g.random
    BY <1>0 DEF RequestStates
  <2> QED
    BY <2>2, <2>3, <2>4, <2>5
<1>2. SubmissionLatency \in Nat /\ g.depth \in Nat
  BY <1>0, LatencyAssumption DEF RequestStates
<1>3. RequestSubmit(g, t, a) = RescheduleSubmit(k, t, SubmissionLatency)
  BY DEF RequestSubmit
<1> HIDE DEF k
<1>4. RequestOK(k)
  BY <1>0, <1>1, <1>2 DEF RequestOK
<1> QED
  BY <1>1, <1>2, <1>3, <1>4, RescheduleOK

\* _iocallback: one request less in flight.
LEMMA RequestCallbackOK ==
  ASSUME NEW g, RequestOK(g), g.depth > 0, NEW t \in Nat
  PROVE  LET h == RequestCallback(g, t)
         IN  /\ RequestOK(h)
             /\ h.count = g.count /\ h.depth = g.depth - 1
             /\ h.kind = "request"
<1> DEFINE k == [g EXCEPT !.depth = @ - 1]
<1>0. g \in RequestStates /\ g.depth \in Nat \ {0} /\ ~g.ended /\ IODepth \in Nat
  BY RequestAssumption DEF RequestOK, RequestStates
<1>1. /\ k \in RequestStates /\ k.count = g.count /\ k.depth = g.depth - 1
      /\ k.addr = g.addr /\ k.submitAt = g.submitAt /\ k.ended = g.ended
      /\ k.timed = g.timed /\ k.reserve = g.reserve /\ k.random = g.random
      /\ k.kind = "request"
  BY <1>0 DEF RequestStates
<1>2. RequestCallback(g, t) =
         IF k.reserve THEN [k EXCEPT !.ended = @ \/ k.depth = 0]
         ELSE RescheduleSubmit(k, t, SubmissionLatency + CompletionLatency)
  BY DEF RequestCallback
<1> HIDE DEF k
<1>3. RequestOK(k)
  BY <1>0, <1>1 DEF RequestOK
<1>4. CASE k.reserve
  <2> DEFINE h == [k EXCEPT !.ended = @ \/ k.depth = 0]
  <2>1. /\ h \in RequestStates /\ h.count = k.count /\ h.depth = k.depth
        /\ h.addr = k.addr /\ h.submitAt = k.submitAt
        /\ h.timed = k.timed /\ h.reserve = k.reserve /\ h.random = k.random
        /\ h.kind = "request" /\ h.ended = (k.depth = 0)
    BY <1>0, <1>1 DEF RequestStates
  <2> HIDE DEF h
  <2>2. RequestOK(h)
    BY <1>3, <2>1 DEF RequestOK
  <2> QED
    BY <1>1, <1>2, <1>4, <2>1, <2>2 DEF h
<1>5. CASE ~k.reserve
  <2>1. SubmissionLatency + CompletionLatency \in Nat
    BY LatencyAssumption
  <2> QED
    BY <1>0, <1>1, <1>2, <1>3, <1>5, <2>1, RescheduleOK
<1> QED
  BY <1>4, <1>5

-----------------------------------------------------------------------------
(* The trace replayer *)

\* rescheduleSubmit of a generator that has nothing scheduled or held back.
LEMMA TraceRescheduleOK ==
  ASSUME NEW g, TraceOK(g), ~g.sync, ~g.reserve \/ g.ended, NEW t \in Nat,
         NEW d \in Nat, g.mode = "async" => ~g.reserve /\ g.submitAt = Never,
         g.mode = "sync" => g.depth = 0
  PROVE  LET h == TraceReschedule(g, t, d)
         IN  /\ TraceOK(h)
             /\ h.count = g.count /\ h.depth = g.depth /\ h.kind = "trace"
             /\ h.reserve = g.reserve
<1> DEFINE h == TraceReschedule(g, t, d)
<1>0. g \in TraceStates /\ g.mode \in TimingModes /\ MaxQueueDepth \in Nat
      /\ g.depth \in Nat
  BY TraceAssumption DEF TraceOK, TraceStates
<1>1. CASE g.mode = "strict"
  BY <1>0, <1>1 DEF TraceReschedule, TraceStates
<1>2. CASE g.mode = "async" /\ g.depth >= MaxQueueDepth
  <2>1. h = [g EXCEPT !.sync = TRUE]
    BY <1>2 DEF TraceReschedule
  <2>2. h \in TraceStates
    BY <1>0, <2>1 DEF TraceStates
  <2>3. /\ h.count = g.count /\ h.depth = g.depth /\ h.kind = "trace"
        /\ h.reserve = g.reserve /\ h.mode = g.mode /\ h.submitAt = g.submitAt
        /\ h.ended = g.ended
    BY <1>0, <2>1 DEF TraceStates
  <2> HIDE DEF h
  <2> QED
    BY <1>2, <2>2, <2>3 DEF TraceOK, h
<1>3. CASE g.mode # "strict" /\ ~(g.mode = "async" /\ g.depth >= MaxQueueDepth)
  <2>1. h = [g EXCEPT !.submitAt = t + d]
    BY <1>3 DEF TraceReschedule
  <2>2. h \in TraceStates
    BY <1>0, <2>1 DEF TraceStates
  <2>3. /\ h.count = g.count /\ h.depth = g.depth /\ h.kind = "trace"
        /\ h.reserve = g.reserve /\ h.mode = g.mode /\ h.sync = g.sync
        /\ h.ended = g.ended
    BY <1>0, <2>1 DEF TraceStates
  <2> HIDE DEF h
  <2> QED
    BY <1>0, <1>3, <2>2, <2>3 DEF TraceOK, h
<1> QED
  BY <1>1, <1>2, <1>3

\* iocallback: one request less in flight.
LEMMA TraceCallbackOK ==
  ASSUME NEW g, TraceOK(g), g.depth > 0, NEW t \in Nat
  PROVE  LET h == TraceCallback(g, t)
         IN  /\ TraceOK(h)
             /\ h.count = g.count /\ h.depth = g.depth - 1 /\ h.kind = "trace"
             /\ h.reserve = g.reserve
<1> DEFINE k == [g EXCEPT !.depth = @ - 1,
                          !.ended = @ \/ (g.reserve /\ g.depth = 1)]
           h == TraceCallback(g, t)
<1>0. /\ g \in TraceStates /\ g.depth \in Nat \ {0} /\ ~g.ended
      /\ g.depth - 1 \in Nat /\ MaxQueueDepth \in Nat /\ g.mode \in TimingModes
  BY TraceAssumption DEF TraceOK, TraceStates
<1>1. k \in TraceStates
  BY <1>0 DEF TraceStates
<1>2. /\ k.count = g.count /\ k.depth = g.depth - 1 /\ k.kind = "trace"
      /\ k.reserve = g.reserve /\ k.mode = g.mode
  BY <1>0 DEF TraceStates
<1>3. /\ k.submitAt = g.submitAt /\ k.sync = g.sync
      /\ k.ended = (g.reserve /\ g.depth = 1)
  BY <1>0 DEF TraceStates
<1>4. h = IF k.mode = "sync" \/ k.sync
          THEN TraceReschedule([k EXCEPT !.sync = FALSE], t,
                               SubmissionLatency + CompletionLatency)
          ELSE k
  BY DEF TraceCallback
<1> HIDE DEF k
<1>5. TraceOK(k)
  <2>1. /\ g.submitAt # Never => ~g.reserve
        /\ g.sync => ~g.reserve /\ g.submitAt = Never
        /\ g.mode = "sync" => g.depth <= 1 /\ (g.submitAt # Never => g.depth = 0)
        /\ g.mode = "async" =>
              /\ g.depth <= 1 \/ g.depth <= MaxQueueDepth
              /\ g.submitAt # Never => g.depth = 0 \/ g.depth < MaxQueueDepth
    BY <1>0 DEF TraceOK
  <2>2. k.submitAt # Never => ~k.reserve \/ k.ended
    BY <1>2, <1>3, <2>1
  <2>3. k.sync => ~k.reserve /\ k.submitAt = Never
    BY <1>2, <1>3, <2>1
  <2>4. k.mode = "sync" => k.depth <= 1 /\ (k.submitAt # Never => k.depth = 0)
    BY <1>0, <1>2, <1>3, <2>1
  <2>5. k.mode = "async" =>
           /\ k.depth <= 1 \/ k.depth <= MaxQueueDepth
           /\ k.submitAt # Never => k.depth = 0 \/ k.depth < MaxQueueDepth
    BY <1>0, <1>2, <1>3, <2>1
  <2>6. k.ended => k.depth = 0
    <3>1. k.ended => g.depth = 1
      BY <1>3
    <3> QED
      BY <1>2, <3>1
  <2> QED
    BY <1>1, <2>2, <2>3, <2>4, <2>5, <2>6 DEF TraceOK
<1>6. CASE ~(k.mode = "sync" \/ k.sync)
  BY <1>2, <1>4, <1>5, <1>6
<1>7. CASE k.mode = "sync" \/ k.sync
  <2> DEFINE m == [k EXCEPT !.sync = FALSE]
  <2>1. m \in TraceStates
    BY <1>1 DEF TraceStates
  <2>2. /\ m.count = k.count /\ m.depth = k.depth /\ m.kind = "trace"
        /\ m.reserve = k.reserve /\ m.mode = k.mode /\ m.submitAt = k.submitAt
        /\ m.ended = k.ended /\ m.sync = FALSE
    BY <1>1, <1>2 DEF TraceStates
  <2>3. h = TraceReschedule(m, t, SubmissionLatency + CompletionLatency)
    BY <1>4, <1>7
  <2> HIDE DEF m, h
  <2>4. TraceOK(m)
    BY <1>5, <2>1, <2>2 DEF TraceOK
  <2>5. m.mode = "sync" => m.depth = 0
    BY <1>0, <1>2, <2>2 DEF TraceOK
  <2>6. ~m.reserve \/ m.ended
    <3>1. CASE k.sync
      BY <1>5, <2>2, <3>1 DEF TraceOK
    <3>2. CASE k.mode = "sync"
      <4>1. g.depth = 1
        BY <1>0, <1>2, <3>2 DEF TraceOK
      <4> QED
        BY <1>2, <1>3, <2>2, <4>1
    <3> QED
      BY <1>7, <3>1, <3>2
  <2>7. m.mode = "async" => ~m.reserve /\ m.submitAt = Never
    BY <1>5, <1>7, <2>2 DEF TraceOK
  <2>8. SubmissionLatency + CompletionLatency \in Nat
    BY LatencyAssumption
  <2>9. /\ TraceOK(h)
        /\ h.count = m.count /\ h.depth = m.depth /\ h.kind = "trace"
        /\ h.reserve = m.reserve
    BY <2>2, <2>3, <2>4, <2>5, <2>6, <2>7, <2>8, TraceRescheduleOK
  <2> QED
    BY <1>2, <2>2, <2>9 DEF h
<1> QED
  BY <1>6, <1>7

\* parseLine takes the next line, or notes the end of the file.
LEMMA ParseLineOK ==
  ASSUME NEW g, TraceOK(g), ~g.sync, g.submitAt = Never, g.depth > 0,
         NEW line \in Nat
  PROVE  LET h == ParseLine(g, line)
         IN  /\ TraceOK(h) /\ ~h.sync /\ h.submitAt = Never
             /\ h.depth = g.depth /\ h.kind = "trace" /\ h.mode = g.mode
             /\ h.ended = g.ended
             /\ \/ h.count = g.count + 1 /\ h.reserve = g.reserve
                \/ h.count = g.count /\ h.reserve
<1> DEFINE h == ParseLine(g, line)
<1>0. g \in TraceStates /\ g.depth \in Nat \ {0} /\ g.count \in Nat
  BY DEF TraceOK, TraceStates
<1>1. CASE g.count = TraceLines
  <2>1. h = [g EXCEPT !.reserve = TRUE, !.ended = @ \/ g.depth = 0]
    BY <1>1 DEF ParseLine
  <2>2. h \in TraceStates
    BY <1>0, <2>1 DEF TraceStates
  <2>3. /\ h.count = g.count /\ h.depth = g.depth /\ h.kind = "trace"
        /\ h.reserve = TRUE /\ h.mode = g.mode /\ h.submitAt = g.submitAt
        /\ h.sync = g.sync
    BY <1>0, <2>1 DEF TraceStates
  <2>4. h.ended = g.ended
    BY <1>0, <2>1 DEF TraceStates
  <2> HIDE DEF h
  <2> QED
    BY <2>2, <2>3, <2>4 DEF TraceOK, h
<1>2. CASE g.count # TraceLines
  <2>1. h = [g EXCEPT !.count = @ + 1, !.line = line]
    BY <1>2 DEF ParseLine
  <2>2. h \in TraceStates
    <3>1. g.count + 1 \in Nat
      BY <1>0
    <3> QED
      BY <1>0, <2>1, <3>1 DEF TraceStates
  <2>3. /\ h.count = g.count + 1 /\ h.depth = g.depth /\ h.kind = "trace"
        /\ h.reserve = g.reserve /\ h.mode = g.mode /\ h.submitAt = g.submitAt
        /\ h.sync = g.sync /\ h.ended = g.ended
    BY <1>0, <2>1 DEF TraceStates
  <2> HIDE DEF h
  <2> QED
    BY <2>2, <2>3 DEF TraceOK, h
<1> QED
  BY <1>1, <1>2

\* What follows a submission, by timing mode.
LEMMA ScheduledOK ==
  ASSUME NEW g, TraceOK(g), ~g.sync, g.submitAt = Never, NEW t \in Nat
  PROVE  LET h == Scheduled(g, t)
         IN  /\ TraceOK(h)
             /\ h.count = g.count /\ h.depth = g.depth /\ h.kind = "trace"
             /\ h.reserve = g.reserve
<1> DEFINE h == Scheduled(g, t)
<1>0. g \in TraceStates /\ g.mode \in TimingModes /\ g.kind = "trace"
  BY DEF TraceOK, TraceStates
<1>1. CASE g.reserve
  <2>1. h = g
    BY <1>1 DEF Scheduled
  <2> QED
    BY <1>0, <2>1
<1>2. CASE ~g.reserve /\ g.mode = "strict"
  <2> DEFINE at == g.line - g.first + g.initTime
             s == IF at < t THEN t ELSE at
  <2>1. h = [g EXCEPT !.submitAt = s]
    BY <1>2 DEF Scheduled
  <2>2. s \in Nat
    <3>1. at \in Int
      BY <1>0 DEF TraceStates
    <3> QED
      BY <3>1
  <2> HIDE DEF s
  <2>3. h \in TraceStates
    BY <1>0, <2>1, <2>2 DEF TraceStates
  <2>4. /\ h.count = g.count /\ h.depth = g.depth /\ h.kind = "trace"
        /\ h.reserve = g.reserve /\ h.mode = g.mode /\ h.sync = g.sync
        /\ h.ended = g.ended
    BY <1>0, <2>1 DEF TraceStates
  <2> HIDE DEF h
  <2> QED
    BY <1>2, <2>3, <2>4 DEF TraceOK, h
<1>3. CASE ~g.reserve /\ g.mode = "async"
  <2>1. h = TraceReschedule(g, t, SubmissionLatency) /\ SubmissionLatency \in Nat
    BY <1>3, LatencyAssumption DEF Scheduled
  <2> QED
    BY <1>3, <2>1, TraceRescheduleOK
<1>4. CASE ~g.reserve /\ g.mode = "sync"
  <2>1. h = g
    BY <1>4 DEF Scheduled
  <2> QED
    BY <1>0, <2>1
<1> QED
  BY <1>0, <1>1, <1>2, <1>3, <1>4 DEF TimingModes

\* submitIO: one more request in flight, under the identifier of its line;
\* then the next line, or the end of the run.
LEMMA TraceSubmitOK ==
  ASSUME NEW g, TraceOK(g), ~g.ended, ~g.reserve, ~g.sync, g.submitAt = Never,
         g.mode = "sync" => g.depth = 0,
         g.mode = "async" => g.depth = 0 \/ g.depth < MaxQueueDepth,
         NEW t \in Nat, NEW line \in Nat
  PROVE  LET h == TraceSubmit(g, t, line)
         IN  /\ TraceOK(h) /\ h.depth = g.depth + 1 /\ h.kind = "trace"
             /\ h.count = g.count + 1 \/ (h.count = g.count /\ h.reserve)
<1> DEFINE k == [g EXCEPT !.depth = @ + 1]
           h == TraceSubmit(g, t, line)
<1>0. g \in TraceStates /\ g.depth \in Nat /\ g.depth + 1 \in Nat /\ MaxQueueDepth \in Nat
  BY TraceAssumption DEF TraceOK, TraceStates
<1>1. k \in TraceStates
  BY <1>0 DEF TraceStates
<1>2. /\ k.count = g.count /\ k.depth = g.depth + 1 /\ k.kind = "trace"
      /\ k.reserve = g.reserve /\ k.mode = g.mode /\ k.submitAt = g.submitAt
      /\ k.ended = g.ended /\ k.sync = g.sync
  BY <1>0 DEF TraceStates
<1>3. h = IF g.maxIO # 0 /\ g.count >= g.maxIO THEN [k EXCEPT !.reserve = TRUE]
          ELSE Scheduled(ParseLine(k, line), t)
  BY DEF TraceSubmit
<1> HIDE DEF k, h
<1>4. TraceOK(k)
  BY <1>0, <1>1, <1>2 DEF TraceOK
<1>5. CASE g.maxIO # 0 /\ g.count >= g.maxIO
  <2>1. h = [k EXCEPT !.reserve = TRUE]
    BY <1>3, <1>5
  <2>2. h \in TraceStates
    BY <1>1, <2>1 DEF TraceStates
  <2>3. /\ h.count = k.count /\ h.depth = k.depth /\ h.kind = "trace"
        /\ h.reserve = TRUE /\ h.mode = k.mode /\ h.submitAt = k.submitAt
        /\ h.ended = k.ended /\ h.sync = k.sync
    BY <1>1, <1>2, <2>1 DEF TraceStates
  <2>4. TraceOK(h)
    BY <1>2, <1>4, <2>2, <2>3 DEF TraceOK
  <2> QED
    BY <1>2, <2>3, <2>4 DEF h
<1>6. CASE ~(g.maxIO # 0 /\ g.count >= g.maxIO)
  <2> DEFINE m == ParseLine(k, line)
  <2>1. h = Scheduled(m, t)
    BY <1>3, <1>6
  <2>2. /\ TraceOK(m) /\ ~m.sync /\ m.submitAt = Never
        /\ m.depth = k.depth
        /\ m.count = k.count + 1 \/ (m.count = k.count /\ m.reserve)
    <3>1. k.depth > 0 /\ k.submitAt = Never /\ ~k.sync
      BY <1>0, <1>2
    <3> QED
      BY <1>4, <3>1, ParseLineOK
  <2> HIDE DEF m
  <2>3. /\ TraceOK(h)
        /\ h.count = m.count /\ h.depth = m.depth /\ h.kind = "trace"
        /\ h.reserve = m.reserve
    BY <2>1, <2>2, ScheduledOK
  <2> QED
    BY <1>2, <2>2, <2>3 DEF h
<1> QED
  BY <1>5, <1>6

\* begin(): the first line is parsed and submitted, unless the trace is empty.
LEMMA TraceBeginOK ==
  ASSUME NEW g, TraceOK(g), g.depth = 0, ~g.ended, ~g.reserve, ~g.sync,
         g.submitAt = Never, g.count = 0,
         NEW t \in Nat, NEW line \in Nat, NEW next \in Nat
  PROVE  LET h == TraceBegin(g, t, line, next)
         IN  /\ TraceOK(h) /\ h.kind = "trace"
             /\ TraceLines = 0 => h.depth = 0
             /\ TraceLines # 0 =>
                   /\ h.depth = 1
                   /\ h.count = 2 \/ (h.count = 1 /\ h.reserve)
<1> DEFINE h == TraceBegin(g, t, line, next)
           a == [g EXCEPT !.initTime = t]
           b == ParseLine(a, line)
           k == [b EXCEPT !.first = IF g.mode = "strict" THEN b.line ELSE t]
<1>0. g \in TraceStates
  BY DEF TraceOK
<1>1. a \in TraceStates
  BY <1>0 DEF TraceStates
<1>2. /\ a.count = 0 /\ a.depth = 0 /\ a.reserve = g.reserve /\ a.mode = g.mode
      /\ a.submitAt = Never /\ a.ended = g.ended /\ a.sync = g.sync
  BY <1>0 DEF TraceStates
<1>3. h = IF k.reserve THEN [k EXCEPT !.ended = TRUE] ELSE TraceSubmit(k, t, next)
  BY DEF TraceBegin
<1>4. b = IF a.count = TraceLines
          THEN [a EXCEPT !.reserve = TRUE, !.ended = @ \/ a.depth = 0]
          ELSE [a EXCEPT !.count = @ + 1, !.line = line]
  BY DEF ParseLine
<1> HIDE DEF a, b, h
<1>5. CASE TraceLines = 0
  <2>1. b = [a EXCEPT !.reserve = TRUE, !.ended = @ \/ a.depth = 0]
    BY <1>2, <1>4, <1>5
  <2>2. b \in TraceStates
    BY <1>1, <2>1 DEF TraceStates
  <2>3. /\ b.depth = 0 /\ b.reserve = TRUE /\ b.submitAt = Never
        /\ b.sync = a.sync /\ b.ended = TRUE
    BY <1>1, <1>2, <2>1 DEF TraceStates
  <2>4. k \in TraceStates
    BY <2>2 DEF TraceStates
  <2>5. /\ k.depth = 0 /\ k.reserve = TRUE /\ k.submitAt = Never
        /\ k.sync = a.sync
    BY <2>2, <2>3 DEF TraceStates
  <2> HIDE DEF k
  <2>6. h = [k EXCEPT !.ended = TRUE]
    BY <1>3, <2>5
  <2>7. h \in TraceStates
    BY <2>4, <2>6 DEF TraceStates
  <2>8. /\ h.depth = 0 /\ h.submitAt = Never /\ h.sync = a.sync /\ h.kind = "trace"
    BY <2>4, <2>5, <2>6 DEF TraceStates
  <2>9. TraceOK(h)
    BY <1>2, <2>7, <2>8 DEF TraceOK
  <2> QED
    BY <1>5, <2>8, <2>9 DEF h
<1>6. CASE TraceLines # 0
  <2>1. b = [a EXCEPT !.count = @ + 1, !.line = line]
    BY <1>2, <1>4, <1>6
  <2>2. b \in TraceStates
    <3>1. a.count + 1 \in Nat
      BY <1>2
    <3> QED
      BY <1>1, <2>1, <3>1 DEF TraceStates
  <2>3. /\ b.depth = 0 /\ b.reserve = a.reserve /\ b.submitAt = Never
        /\ b.sync = a.sync /\ b.ended = a.ended /\ b.count = 1
    BY <1>1, <1>2, <2>1 DEF TraceStates
  <2>4. k \in TraceStates
    BY <2>2 DEF TraceStates
  <2>5. /\ k.depth = 0 /\ k.reserve = a.reserve /\ k.submitAt = Never
        /\ k.sync = a.sync /\ k.ended = a.ended /\ k.count = 1
    BY <2>2, <2>3 DEF TraceStates
  <2> HIDE DEF k
  <2>6. h = TraceSubmit(k, t, next)
    BY <1>2, <1>3, <2>5
  <2>7. TraceOK(k)
    BY <1>2, <2>4, <2>5 DEF TraceOK
  <2>8. /\ TraceOK(h) /\ h.depth = k.depth + 1 /\ h.kind = "trace"
        /\ h.count = k.count + 1 \/ (h.count = k.count /\ h.reserve)
    BY <1>2, <2>5, <2>6, <2>7, TraceSubmitOK
  <2> QED
    BY <1>6, <2>5, <2>8 DEF h
<1> QED
  BY <1>5, <1>6

\* begin(): the first request is submitted.
LEMMA RequestBeginOK ==
  ASSUME NEW g, RequestOK(g), ~g.ended, ~g.reserve, g.count = 0,
         g.depth = 0, g.submitAt = Never,
         NEW t \in Nat, NEW a \in GenerateAddress(g)
  PROVE  LET h == RequestBegin(g, t, a)
         IN  /\ RequestOK(h) /\ h.count = 1 /\ h.depth = 1
             /\ h.kind = "request"
<1> DEFINE k == [g EXCEPT !.initTime = t]
<1>0. g \in RequestStates /\ IODepth \in Nat \ {0}
  BY RequestAssumption DEF RequestOK
<1>1. k \in RequestStates
  BY <1>0 DEF RequestStates
<1>2. /\ k.count = 0 /\ k.depth = 0 /\ k.submitAt = Never /\ k.addr = g.addr
      /\ k.timed = g.timed /\ k.reserve = g.reserve /\ k.random = g.random
      /\ k.ended = g.ended
  BY <1>0 DEF RequestStates
<1>3. RequestBegin(g, t, a) = RequestSubmit(k, t, a)
  BY DEF RequestBegin
<1> HIDE DEF k
<1>4. GenerateAddress(g) = GenerateAddress(k)
  BY <1>2 DEF GenerateAddress, SequentialOffset
<1>5. RequestOK(k)
  BY <1>1, <1>2 DEF RequestOK
<1>6. a \in GenerateAddress(k)
  BY <1>4
<1>7. /\ k.depth < IODepth /\ ~k.ended
      /\ k.timed \/ ~k.reserve
  BY <1>0, <1>2
<1>8. /\ RequestOK(RequestSubmit(k, t, a))
      /\ RequestSubmit(k, t, a).count = k.count + 1
      /\ RequestSubmit(k, t, a).depth = k.depth + 1
      /\ RequestSubmit(k, t, a).kind = "request"
  BY <1>2, <1>5, <1>6, <1>7, RequestSubmitOK
<1> QED
  BY <1>2, <1>3, <1>8

-----------------------------------------------------------------------------
(* The callbacks of one completion event *)

\* A callback takes one request out of the generator's account.
LEMMA CallbackOK ==
  ASSUME NEW g, GenOK(g), g.depth > 0, NEW t \in Nat
  PROVE  LET h == Callback(g, t)
         IN  /\ GenOK(h) /\ h.kind = g.kind
             /\ h.count = g.count /\ h.depth = g.depth - 1
             /\ g.kind = "trace" => h.reserve = g.reserve
<1>1. CASE RequestOK(g)
  <2>1. g.kind = "request"
    BY <1>1 DEF RequestOK, RequestStates
  <2>2. Callback(g, t) = RequestCallback(g, t)
    BY <2>1 DEF Callback
  <2> QED
    BY <1>1, <2>1, <2>2, RequestCallbackOK DEF GenOK
<1>2. CASE TraceOK(g)
  <2>1. g.kind = "trace"
    BY <1>2 DEF TraceOK, TraceStates
  <2>2. Callback(g, t) = TraceCallback(g, t)
    BY <2>1 DEF Callback
  <2> QED
    BY <1>2, <2>1, <2>2, TraceCallbackOK DEF GenOK
<1> QED
  BY <1>1, <1>2 DEF GenOK

\* What n callbacks leave behind.
CalledBack(g, n, t) ==
    FoldLeft(LAMBDA h, i : Callback(h, t), g, [i \in 1 .. n |-> i])

\* The callbacks of completion() run one after the other: n of them take n
\* requests out of the account, and the generator stays consistent.
LEMMA CalledBackOK ==
  ASSUME NEW g, GenOK(g), NEW t \in Nat, NEW n \in Nat, n <= g.depth, g.depth \in Nat
  PROVE  LET h == CalledBack(g, n, t)
         IN  /\ GenOK(h) /\ h.kind = g.kind
             /\ h.count = g.count /\ h.depth = g.depth - n
             /\ g.kind = "trace" => h.reserve = g.reserve
<1> DEFINE D == 1 .. n
           sq == [i \in 1 .. n |-> i]
           step(h) == Callback(h, t)
           body(f) == [s \in SUBSET D |->
                          IF s = {} THEN g ELSE step(f[s \ {Max(s)}])]
           F == CHOOSE f : f = body(f)
           Chain(e, k) == e[0] = g /\ \A j \in 1 .. k : e[j] = step(e[j - 1])
           T == {k \in Nat : ~\E e : Chain(e, k)}
<1>1. CalledBack(g, n, t) = F[D]
  BY DEF CalledBack, FoldLeft, MapThenFoldSet
<1> HIDE DEF step
<1>2. 0 \notin T
  <2>1. Chain([j \in {0} |-> g], 0)
    OBVIOUS
  <2> QED
    BY <2>1
<1>3. ASSUME NEW k \in Nat, k \notin T PROVE k + 1 \notin T
  <2>1. PICK e : Chain(e, k)
    BY <1>3
  <2> DEFINE d == [j \in 0 .. k + 1 |-> IF j = k + 1 THEN step(e[k]) ELSE e[j]]
  <2>2. d[0] = g
    BY <2>1
  <2>3. ASSUME NEW j \in 1 .. k + 1 PROVE d[j] = step(d[j - 1])
    <3>1. CASE j = k + 1
      BY <3>1
    <3>2. CASE j # k + 1
      <4>1. j \in 1 .. k /\ j - 1 \in 0 .. k + 1 /\ j - 1 # k + 1 /\ j \in 0 .. k + 1
        BY <3>2
      <4> QED
        BY <2>1, <4>1
    <3> QED
      BY <3>1, <3>2
  <2> HIDE DEF d
  <2> QED
    BY <2>2, <2>3
<1>4. T = {}
  <2> SUFFICES ASSUME T # {} PROVE FALSE
    OBVIOUS
  <2>1. T \in SUBSET Nat
    OBVIOUS
  <2> HIDE DEF T
  <2>2. PICK m \in T : \A k \in T : m <= k
    BY <2>1, LeastNat
  <2>3. m \in Nat /\ m # 0
    BY <1>2, <2>1
  <2>4. m - 1 \in Nat /\ m - 1 \notin T
    BY <2>2, <2>3
  <2>5. (m - 1) + 1 \notin T
    BY <1>3, <2>4
  <2> QED
    BY <2>3, <2>5
<1>5. PICK e : Chain(e, n)
  BY <1>4
<1>6. IsFiniteSet(D) /\ Cardinality(D) = n
  BY FS_Interval
<1> DEFINE f0 == [s \in SUBSET D |-> e[Cardinality(s)]]
<1>7. f0 = body(f0)
  <2> SUFFICES ASSUME NEW s \in SUBSET D
               PROVE  e[Cardinality(s)] =
                        IF s = {} THEN g ELSE step(f0[s \ {Max(s)}])
    OBVIOUS
  <2>1. CASE s = {}
    BY <1>5, <2>1, FS_EmptySet
  <2>2. CASE s # {}
    <3>1. Max(s) \in s
      BY <2>2, MaxOfIndices
    <3>2. IsFiniteSet(s) /\ Cardinality(s) <= n
      BY <1>6, FS_Subset
    <3>3. Cardinality(s) \in Nat /\ Cardinality(s) # 0
      BY <2>2, <3>2, FS_CardinalityType, FS_EmptySet
    <3>4. Cardinality(s \ {Max(s)}) = Cardinality(s) - 1
      BY <3>1, <3>2, FS_RemoveElement
    <3>5. e[Cardinality(s)] = step(e[Cardinality(s) - 1])
      BY <1>5, <3>2, <3>3
    <3>6. f0[s \ {Max(s)}] = e[Cardinality(s) - 1]
      BY <3>4
    <3> QED
      BY <2>2, <3>5, <3>6
  <2> QED
    BY <2>1, <2>2
<1>8. F = body(F)
  <2> HIDE DEF f0
  <2> QED BY <1>7
<1> HIDE DEF F, f0
<1> DEFINE Good(k) == /\ GenOK(F[1 .. k]) /\ F[1 .. k].kind = g.kind
                      /\ F[1 .. k].count = g.count
                      /\ F[1 .. k].depth = g.depth - k
                      /\ g.kind = "trace" => F[1 .. k].reserve = g.reserve
           B == {k \in 0 .. n : ~Good(k)}
<1>9. F[{}] = g
  BY <1>8
<1>10. 0 \notin B
  <2>1. 1 .. 0 = {}
    OBVIOUS
  <2> QED
    BY <1>9, <2>1
<1>11. ASSUME NEW k \in 0 .. n, k \notin B, k + 1 <= n PROVE k + 1 \notin B
  <2> DEFINE s == 1 .. k + 1
             p == F[1 .. k]
  <2>1. s \in SUBSET D /\ s # {}
    <3>1. k \in Nat /\ k + 1 <= n /\ k + 1 \in s
      BY <1>11
    <3> QED
      BY <3>1
  <2>2. Max(s) = k + 1
    <3>1. Max(s) \in s /\ \A y \in s : Max(s) >= y
      BY <2>1, MaxOfIndices
    <3>2. k + 1 \in s
      OBVIOUS
    <3> HIDE DEF s
    <3>3. Max(s) >= k + 1
      BY <3>1, <3>2
    <3> QED
      BY <3>1, <3>3 DEF s
  <2>3. s \ {k + 1} = 1 .. k
    OBVIOUS
  <2>4. F[s] = step(p)
    <3> HIDE DEF s, p
    <3>1. F[s] = IF s = {} THEN g ELSE step(F[s \ {Max(s)}])
      BY <1>8, <2>1
    <3> QED
      BY <2>1, <2>2, <2>3, <3>1 DEF p
  <2>5. /\ GenOK(p) /\ p.kind = g.kind /\ p.count = g.count
        /\ p.depth = g.depth - k
        /\ g.kind = "trace" => p.reserve = g.reserve
    BY <1>11
  <2>6. p.depth > 0
    BY <1>11, <2>5
  <2> HIDE DEF p, s
  <2>7. /\ GenOK(F[s]) /\ F[s].kind = g.kind /\ F[s].count = g.count
        /\ F[s].depth = p.depth - 1
        /\ g.kind = "trace" => F[s].reserve = g.reserve
    BY <2>4, <2>5, <2>6, CallbackOK DEF step
  <2>8. F[s].depth = g.depth - (k + 1)
    BY <2>5, <2>7
  <2> QED
    BY <2>7, <2>8 DEF s
<1>12. B = {}
  <2> SUFFICES ASSUME B # {} PROVE FALSE
    OBVIOUS
  <2>1. B \in SUBSET Nat /\ \A k \in B : k <= n
    OBVIOUS
  <2> HIDE DEF B
  <2>2. PICK m \in B : \A k \in B : m <= k
    BY <2>1, LeastNat
  <2>3. m \in Nat /\ m # 0 /\ m <= n
    BY <1>10, <2>1
  <2>4. m - 1 \in 0 .. n /\ m - 1 \notin B /\ (m - 1) + 1 <= n
    BY <2>2, <2>3
  <2>5. (m - 1) + 1 \notin B
    BY <1>11, <2>4
  <2> QED
    BY <2>3, <2>5
<1>13. Good(n)
  BY <1>12
<1> QED
  BY <1>1, <1>13

-----------------------------------------------------------------------------
(* The block layer *)

\* A new request goes into the queue of the block layer and to one place
\* below it.
LEMMA SubmitKeeps ==
  ASSUME CallsTakeTime, Requests = Nat, Armed, Measured, Placed, InFlight,
         UNCHANGED now, NEW id \in Nat, NEW g, SubmitBIO(id, g), id \notin Pending
  PROVE  /\ Armed' /\ Measured' /\ Placed'
         /\ IsFiniteSet(ioQueue')
         /\ ioQueue' \subseteq [id : Requests, submittedAt : Nat]
         /\ \A b, d \in ioQueue' : b.id = d.id => b = d
         /\ Cardinality(ioQueue') = Cardinality(ioQueue) + 1
         /\ Pending' = InCores' \cup Waiting'
         /\ InCores' \cap Waiting' = {}
         /\ \A b \in ioQueue' : b \in ioQueue \/ b.id = id
<1> DEFINE x == [id |-> id, submittedAt |-> now]
<1>1. x \in [id : Requests, submittedAt : Nat] /\ x.id = id
  BY DEF Armed
<1>2. ioQueue' = ioQueue \cup {x}
  BY DEF SubmitBIO
<1>3. \E counted \in BOOLEAN : Execute(id, counted)
  BY DEF SubmitBIO
<1>4. Apart /\ Below = Pending
  BY DEF Apart, Below, InFlight
<1>5. Armed' /\ Measured' /\ Placed' /\ Apart' /\ Below' = Below \cup {id}
  BY <1>3, <1>4, ExecuteKeeps
<1> HIDE DEF x
<1>6. x \notin ioQueue /\ \A b \in ioQueue : b.id # id
  BY <1>1 DEF Pending
<1>7. IsFiniteSet(ioQueue') /\ Cardinality(ioQueue') = Cardinality(ioQueue) + 1
  BY <1>2, <1>6, FS_AddElement DEF InFlight
<1>8. Pending' = Pending \cup {id}
  BY <1>1, <1>2 DEF Pending
<1>9. \A b, d \in ioQueue' : b.id = d.id => b = d
  BY <1>1, <1>2, <1>6 DEF InFlight
<1>10. ioQueue' \subseteq [id : Requests, submittedAt : Nat]
  BY <1>1, <1>2 DEF InFlight
<1>11. Pending' = InCores' \cup Waiting' /\ InCores' \cap Waiting' = {}
  BY <1>4, <1>5, <1>8 DEF Below, Apart
<1>12. \A b \in ioQueue' : b \in ioQueue \/ b.id = id
  BY <1>1, <1>2
<1> QED
  BY <1>5, <1>7, <1>9, <1>10, <1>11, <1>12

\* The generator is one of the two kinds, and its record says which.
LEMMA KindOf ==
  ASSUME NEW g, GenOK(g)
  PROVE  /\ g.kind = "request" <=> RequestOK(g)
         /\ g.kind = "trace" <=> TraceOK(g)
         /\ g.count \in Nat /\ g.depth \in Nat /\ g.submitAt \in Nat \cup {Never}
<1>1. RequestOK(g) => /\ g.kind = "request" /\ g.count \in Nat /\ g.depth \in Nat
                      /\ g.submitAt \in Nat \cup {Never}
  BY DEF RequestOK, RequestStates
<1>2. TraceOK(g) => /\ g.kind = "trace" /\ g.count \in Nat /\ g.depth \in Nat
                    /\ g.submitAt \in Nat \cup {Never}
  BY DEF TraceOK, TraceStates
<1> QED
  BY <1>1, <1>2 DEF GenOK

-----------------------------------------------------------------------------
(* The steps *)

\* A run starts consistent.
LEMMA InitHostInv ==
  ASSUME Init
  PROVE  HostInv
<1>1. /\ now = 0 /\ completionQueue = {} /\ completionAt = Unscheduled
      /\ lastScheduled = 0 /\ busy = 0 /\ lastBusyAt = 0 /\ covered = {}
      /\ ioQueue = {} /\ begun = FALSE
  BY DEF Init, HILInit
<1>2. PICK n \in CoreCounts : /\ jobs = [c \in 1 .. n |-> << >>]
                              /\ jobAt = [c \in 1 .. n |-> Unscheduled]
  BY DEF Init, HILInit
<1>3. Cores = 1 .. n
  BY <1>2 DEF Cores
<1>4. Armed
  BY <1>1 DEF Armed, CompletionArmed
<1>5. Measured
  <2>1. Cardinality({}) = 0
    BY FS_EmptySet
  <2> QED
    BY <1>1, <2>1 DEF Measured, BusyIsUnion
<1>6. Placed
  <2>1. \A c \in Cores : jobs[c] = << >> /\ jobAt[c] = Unscheduled
    BY <1>2, <1>3
  <2>2. << >> \in Seq(Job0) /\ Len(<< >>) = 0
    OBVIOUS
  <2>3. jobs \in [Cores -> Seq(Job0)] /\ jobAt \in [Cores -> Nat \cup {Unscheduled}]
    BY <1>2, <1>3, <2>2
  <2>4. \A c \in Cores : 1 .. Len(jobs[c]) = {}
    BY <2>1
  <2> QED
    BY <1>1, <1>3, <2>1, <2>3, <2>4 DEF Placed, Busy
<1>7. /\ GenOK(gen) /\ gen.depth = 0 /\ gen.count = 0 /\ gen.submitAt = Never
      /\ ~gen.reserve /\ ~gen.ended
      /\ gen.kind = "trace" => ~gen.sync
  <2>1. CASE \E r \in Random, t \in TimeBased : gen = RequestInit(r, t)
    <3>1. PICK r \in Random, t \in TimeBased : gen = RequestInit(r, t)
      BY <2>1
    <3>2. r \in BOOLEAN /\ t \in BOOLEAN /\ Offset \in Nat
      BY PathAssumption, RequestAssumption
    <3>3. gen \in RequestStates
      BY <3>1, <3>2 DEF RequestInit, RequestStates
    <3>4. /\ gen.depth = 0 /\ gen.count = 0 /\ gen.submitAt = Never
          /\ ~gen.reserve /\ ~gen.ended /\ gen.kind = "request" /\ gen.addr = Offset
      BY <3>1 DEF RequestInit
    <3>5. /\ IODepth \in Nat /\ Size \in Nat \ {0} /\ BlockSize \in Nat \ {0}
      BY RequestAssumption
    <3>6. TwoFit => Offset + BlockSize <= Offset + Size
      BY <3>2, <3>5 DEF TwoFit
    <3>7. RequestOK(gen)
      BY <3>2, <3>3, <3>4, <3>5, <3>6 DEF RequestOK
    <3> QED
      BY <3>4, <3>7 DEF GenOK
  <2>2. CASE \E m \in Timing, x \in MaxIOs : gen = TraceInit(m, x)
    <3>1. PICK m \in Timing, x \in MaxIOs : gen = TraceInit(m, x)
      BY <2>2
    <3>2. m \in TimingModes /\ x \in Nat /\ MaxQueueDepth \in Nat
      BY PathAssumption, TraceAssumption
    <3>3. gen \in TraceStates
      BY <3>1, <3>2 DEF TraceInit, TraceStates
    <3>4. /\ gen.depth = 0 /\ gen.count = 0 /\ gen.submitAt = Never
          /\ ~gen.reserve /\ ~gen.ended /\ gen.kind = "trace" /\ ~gen.sync
      BY <3>1 DEF TraceInit
    <3>5. TraceOK(gen)
      BY <3>2, <3>3, <3>4 DEF TraceOK
    <3> QED
      BY <3>4, <3>5 DEF GenOK
  <2> QED
    BY <2>1, <2>2 DEF Init
<1>8. InFlight
  <2>1. IsFiniteSet({}) /\ Cardinality({}) = 0
    BY FS_EmptySet
  <2>2. Pending = {} /\ Waiting = {}
    BY <1>1 DEF Pending, Waiting
  <2>3. InCores = {}
    <3>1. \A c \in Cores : jobs[c] = << >> /\ Len(<< >>) = 0
      BY <1>2, <1>3
    <3>2. \A c \in Cores : 1 .. Len(jobs[c]) = {}
      BY <3>1
    <3> QED
      BY <3>2, InCoresMember
  <2> QED
    BY <1>1, <1>7, <2>1, <2>2, <2>3 DEF InFlight
<1>9. NotBegun
  BY <1>1, <1>2, <1>3, <1>7 DEF NotBegun, Busy
<1> QED
  BY <1>1, <1>4, <1>5, <1>6, <1>7, <1>8, <1>9 DEF HostInv

\* Only the clock moves.
LEMMA TickKeeps ==
  ASSUME HostInv, Tick
  PROVE  HostInv'
<1>1. /\ UNCHANGED <<jobs, jobAt, completionQueue, completionAt, lastScheduled,
                     busy, lastBusyAt, covered, gen, ioQueue, begun>>
      /\ now < Min(Events) /\ now' = Min(Events) /\ Events # {}
  BY DEF Tick, hilVars
<1>2. Events \in SUBSET Nat
  <2>1. gen.submitAt \in Nat \cup {Never}
    BY KindOf DEF HostInv
  <2>2. completionAt \in Nat \cup {Never} /\ \A c \in Cores : jobAt[c] \in Nat \cup {Never}
    BY DEF HostInv, Armed, Placed, Unscheduled, Never
  <2> QED
    BY <2>1, <2>2 DEF Events
<1>3. Min(Events) \in Events
  <2>1. \E m \in Events : \A k \in Events : m <= k
    BY <1>1, <1>2, LeastNat
  <2> QED
    BY <2>1 DEF Min
<1>4. now' \in Nat /\ now \in Nat /\ now < now'
  BY <1>1, <1>2, <1>3 DEF HostInv, Armed
<1>5. Armed'
  BY <1>1, <1>4 DEF HostInv, Armed, CompletionArmed
<1>6. Measured'
  BY <1>1, <1>4 DEF HostInv, Measured, BusyIsUnion
<1>7. Placed'
  BY <1>1 DEF HostInv, Placed, Cores, Busy
<1>8. InFlight'
  <2>1. Pending' = Pending /\ Waiting' = Waiting
    BY <1>1 DEF Pending, Waiting
  <2>2. InCores' = InCores
    BY <1>1 DEF InCores, Cores
  <2> QED
    BY <1>1, <2>1, <2>2 DEF HostInv, InFlight
<1>9. GenOK(gen)' /\ begun' \in BOOLEAN
  BY <1>1 DEF HostInv
<1>10. ~begun' => NotBegun'
  BY <1>1 DEF HostInv, NotBegun, Cores, Busy
<1> QED
  BY <1>5, <1>6, <1>7, <1>8, <1>9, <1>10 DEF HostInv

\* The first request.
LEMMA BeginKeeps ==
  ASSUME CallsTakeTime, Requests = Nat, HostInv, Begin
  PROVE  HostInv' /\ ~gen.reserve
<1>0. /\ NotBegun /\ begun' = TRUE /\ now' = now /\ now \in Nat
      /\ Armed /\ Measured /\ Placed /\ InFlight /\ GenOK(gen)
  BY DEF HostInv, Begin, Armed
<1>1. /\ gen.count = 0 /\ gen.submitAt = Never /\ ~gen.reserve /\ ~gen.ended
      /\ gen.kind = "trace" => ~gen.sync
      /\ ioQueue = {} /\ Pending = {}
  BY <1>0 DEF NotBegun, Pending
<1>2. gen.depth = 0 /\ Cardinality(ioQueue) = 0
  BY <1>0, <1>1, FS_EmptySet DEF InFlight
<1> DEFINE Kept == /\ Armed' /\ Measured' /\ Placed'
                   /\ IsFiniteSet(ioQueue')
                   /\ ioQueue' \subseteq [id : Requests, submittedAt : Nat]
                   /\ \A b, d \in ioQueue' : b.id = d.id => b = d
                   /\ Pending' = InCores' \cup Waiting'
                   /\ InCores' \cap Waiting' = {}
<1>3. SUFFICES /\ Kept /\ GenOK(gen')
               /\ gen'.depth = Cardinality(ioQueue')
               /\ \A b \in ioQueue' :
                     \/ b.id < gen'.count
                     \/ gen'.kind = "trace" /\ gen'.reserve /\ b.id <= gen'.count
  BY <1>0, <1>1 DEF HostInv, InFlight
<1>4. CASE /\ gen.kind = "request"
           /\ \E a \in GenerateAddress(gen) : gen' = RequestBegin(gen, now, a)
           /\ SubmitBIO(0, gen)
  <2>1. PICK a \in GenerateAddress(gen) : gen' = RequestBegin(gen, now, a)
    BY <1>4
  <2>2. RequestOK(gen)
    BY <1>0, <1>4, KindOf
  <2>3. RequestOK(gen') /\ gen'.count = 1 /\ gen'.depth = 1
    BY <1>0, <1>1, <1>2, <2>1, <2>2, RequestBeginOK
  <2>4. /\ Kept /\ Cardinality(ioQueue') = Cardinality(ioQueue) + 1
        /\ \A b \in ioQueue' : b \in ioQueue \/ b.id = 0
    BY <1>0, <1>1, <1>4, SubmitKeeps
  <2> HIDE DEF Kept
  <2> QED
    BY <1>1, <1>2, <2>3, <2>4 DEF GenOK
<1>5. CASE /\ gen.kind = "trace"
           /\ \E l \in NextLine(gen) : \E n \in l .. l + TraceGap :
                 gen' = TraceBegin(gen, now, l, n)
           /\ IF TraceLines = 0 THEN UNCHANGED <<hilVars, ioQueue>>
                                ELSE SubmitBIO(1, gen)
  <2>1. PICK l \in NextLine(gen) : \E n \in l .. l + TraceGap :
                gen' = TraceBegin(gen, now, l, n)
    BY <1>5
  <2>2. PICK n \in l .. l + TraceGap : gen' = TraceBegin(gen, now, l, n)
    BY <2>1
  <2>3. TraceOK(gen)
    BY <1>0, <1>5, KindOf
  <2>4. l \in Nat /\ n \in Nat
    <3>1. gen.line \in Nat /\ TraceGap \in Nat
      BY <2>3, PathAssumption DEF TraceOK, TraceStates
    <3>2. l \in Nat
      BY <3>1 DEF NextLine
    <3> QED
      BY <3>1, <3>2
  <2>5. /\ TraceOK(gen') /\ gen'.kind = "trace"
        /\ TraceLines = 0 => gen'.depth = 0
        /\ TraceLines # 0 =>
              /\ gen'.depth = 1
              /\ gen'.count = 2 \/ (gen'.count = 1 /\ gen'.reserve)
    BY <1>0, <1>1, <1>2, <1>5, <2>2, <2>3, <2>4, TraceBeginOK
  <2>6. CASE TraceLines = 0
    <3>1. UNCHANGED <<jobs, jobAt, completionQueue, completionAt, lastScheduled,
                      busy, lastBusyAt, covered, ioQueue>>
      BY <1>5, <2>6 DEF hilVars
    <3>2. Armed'
      BY <1>0, <3>1 DEF Armed, CompletionArmed
    <3>3. Measured'
      BY <1>0, <3>1 DEF Measured, BusyIsUnion
    <3>4. Placed'
      BY <1>0, <3>1 DEF Placed, Cores, Busy
    <3>5. Pending' = Pending /\ Waiting' = Waiting
      BY <3>1 DEF Pending, Waiting
    <3>6. InCores' = InCores
      BY <3>1 DEF InCores, Cores
    <3>7. Kept
      BY <1>0, <3>1, <3>2, <3>3, <3>4, <3>5, <3>6 DEF InFlight
    <3> HIDE DEF Kept
    <3> QED
      BY <1>1, <1>2, <2>5, <2>6, <3>1, <3>7 DEF GenOK
  <2>7. CASE TraceLines # 0
    <3>1. /\ Kept /\ Cardinality(ioQueue') = Cardinality(ioQueue) + 1
          /\ \A b \in ioQueue' : b \in ioQueue \/ b.id = 1
      BY <1>0, <1>1, <1>5, <2>7, SubmitKeeps
    <3> HIDE DEF Kept
    <3> QED
      BY <1>1, <1>2, <2>5, <2>7, <3>1 DEF GenOK
  <2> QED
    BY <2>6, <2>7
<1> QED
  BY <1>4, <1>5 DEF Begin

\* A submission is scheduled only while the generator may go on; the request
\* gets an identifier that is not in use.
LEMMA SubmissionKeeps ==
  ASSUME CallsTakeTime, Requests = Nat, HostInv, Submit
  PROVE  HostInv' /\ (gen.reserve => gen.kind = "request" /\ gen.timed)
<1> DEFINE g == [gen EXCEPT !.submitAt = Never]
<1>0. /\ now' = now /\ begun' = begun /\ now \in Nat /\ ~gen.ended /\ gen.submitAt = now
      /\ Armed /\ Measured /\ Placed /\ InFlight /\ GenOK(gen) /\ begun \in BOOLEAN
      /\ ~begun => NotBegun
  BY DEF HostInv, Submit, Armed, Running
<1>1. gen.submitAt # Never /\ begun = TRUE
  BY <1>0 DEF Never, NotBegun
<1>2. /\ SubmitBIO(g.count, g)
      /\ \/ /\ g.kind = "request"
            /\ \E a \in GenerateAddress(g) : gen' = RequestSubmit(g, now, a)
         \/ /\ g.kind = "trace"
            /\ \E n \in NextLine(g) : gen' = TraceSubmit(g, now, n)
  BY DEF Submit
<1>3. gen.count \in Nat /\ gen.depth \in Nat
  BY <1>0, KindOf
<1> DEFINE Kept == /\ Armed' /\ Measured' /\ Placed'
                   /\ IsFiniteSet(ioQueue')
                   /\ ioQueue' \subseteq [id : Requests, submittedAt : Nat]
                   /\ \A b, d \in ioQueue' : b.id = d.id => b = d
                   /\ Pending' = InCores' \cup Waiting'
                   /\ InCores' \cap Waiting' = {}
<1>4. SUFFICES /\ Kept /\ GenOK(gen')
               /\ gen'.depth = Cardinality(ioQueue')
               /\ \A b \in ioQueue' :
                     \/ b.id < gen'.count
                     \/ gen'.kind = "trace" /\ gen'.reserve /\ b.id <= gen'.count
               /\ gen.reserve => gen.kind = "request" /\ gen.timed
  BY <1>0, <1>1 DEF HostInv, InFlight
<1>5. CASE RequestOK(gen)
  <2>1. gen \in RequestStates /\ gen.kind = "request"
    BY <1>5 DEF RequestOK, RequestStates
  <2>2. g \in RequestStates
    BY <2>1 DEF RequestStates
  <2>3. /\ g.count = gen.count /\ g.depth = gen.depth /\ g.submitAt = Never
        /\ g.timed = gen.timed /\ g.reserve = gen.reserve /\ g.random = gen.random
        /\ g.ended = gen.ended /\ g.kind = "request" /\ g.addr = gen.addr
    BY <2>1 DEF RequestStates
  <2> HIDE DEF g
  <2>4. RequestOK(g)
    BY <1>5, <2>2, <2>3 DEF RequestOK
  <2>5. gen.depth < IODepth /\ (~gen.timed => ~gen.reserve)
    BY <1>1, <1>5 DEF RequestOK
  <2>6. PICK a \in GenerateAddress(g) : gen' = RequestSubmit(g, now, a)
    BY <1>2, <2>3
  <2>7. /\ RequestOK(gen') /\ gen'.count = g.count + 1 /\ gen'.depth = g.depth + 1
    BY <1>0, <2>3, <2>4, <2>5, <2>6, RequestSubmitOK
  <2>8. \A b \in ioQueue : b.id < gen.count /\ b.id \in Nat
    BY <1>0, <2>1 DEF InFlight
  <2>9. gen.count \notin Pending
    BY <1>3, <2>8 DEF Pending
  <2>10. /\ Kept /\ Cardinality(ioQueue') = Cardinality(ioQueue) + 1
         /\ \A b \in ioQueue' : b \in ioQueue \/ b.id = gen.count
    BY <1>0, <1>2, <1>3, <2>3, <2>9, SubmitKeeps
  <2> HIDE DEF Kept
  <2>11. gen'.depth = Cardinality(ioQueue')
    BY <1>0, <2>3, <2>7, <2>10 DEF InFlight
  <2>12. \A b \in ioQueue' : b.id < gen'.count
    BY <1>3, <2>3, <2>7, <2>8, <2>10
  <2> QED
    BY <2>1, <2>5, <2>7, <2>10, <2>11, <2>12 DEF GenOK
<1>6. CASE TraceOK(gen)
  <2>1. gen \in TraceStates /\ gen.kind = "trace" /\ gen.line \in Nat
    BY <1>6 DEF TraceOK, TraceStates
  <2>2. g \in TraceStates
    BY <2>1 DEF TraceStates
  <2>3. /\ g.count = gen.count /\ g.depth = gen.depth /\ g.submitAt = Never
        /\ g.mode = gen.mode /\ g.reserve = gen.reserve /\ g.sync = gen.sync
        /\ g.ended = gen.ended /\ g.kind = "trace" /\ g.line = gen.line
    BY <2>1 DEF TraceStates
  <2> HIDE DEF g
  <2>4. /\ ~gen.reserve /\ ~gen.sync
        /\ gen.mode = "sync" => gen.depth = 0
        /\ gen.mode = "async" => gen.depth = 0 \/ gen.depth < MaxQueueDepth
    BY <1>0, <1>1, <1>6 DEF TraceOK
  <2>5. TraceOK(g)
    BY <1>6, <2>2, <2>3, <2>4 DEF TraceOK
  <2>6. PICK n \in NextLine(g) : gen' = TraceSubmit(g, now, n)
    BY <1>2, <2>3
  <2>7. n \in Nat
    BY <2>1, <2>3, PathAssumption DEF NextLine
  <2>8. /\ TraceOK(gen') /\ gen'.depth = g.depth + 1 /\ gen'.kind = "trace"
        /\ gen'.count = g.count + 1 \/ (gen'.count = g.count /\ gen'.reserve)
    BY <1>0, <2>3, <2>4, <2>5, <2>6, <2>7, TraceSubmitOK
  <2>9. \A b \in ioQueue : b.id < gen.count /\ b.id \in Nat
    BY <1>0, <2>4 DEF InFlight
  <2>10. gen.count \notin Pending
    BY <1>3, <2>9 DEF Pending
  <2>11. /\ Kept /\ Cardinality(ioQueue') = Cardinality(ioQueue) + 1
         /\ \A b \in ioQueue' : b \in ioQueue \/ b.id = gen.count
    BY <1>0, <1>2, <1>3, <2>3, <2>10, SubmitKeeps
  <2> HIDE DEF Kept
  <2>12. gen'.depth = Cardinality(ioQueue')
    BY <1>0, <2>3, <2>8, <2>11 DEF InFlight
  <2>13. \A b \in ioQueue' :
            \/ b.id < gen'.count
            \/ gen'.kind = "trace" /\ gen'.reserve /\ b.id <= gen'.count
    BY <1>3, <2>3, <2>8, <2>9, <2>11
  <2> QED
    BY <2>4, <2>8, <2>11, <2>12, <2>13 DEF GenOK
<1> QED
  BY <1>0, <1>5, <1>6 DEF GenOK

\* A core hands its request on; nothing is added or lost.
LEMMA JobKeeps ==
  ASSUME CallsTakeTime, HostInv, NEW c \in Cores, Job(c)
  PROVE  HostInv'
<1>0. /\ UNCHANGED <<now, gen, ioQueue, begun>> /\ JobDone(c) /\ now \in Nat
      /\ Armed /\ Measured /\ Placed /\ InFlight /\ GenOK(gen) /\ begun \in BOOLEAN
      /\ ~begun => NotBegun
  BY DEF HostInv, Job, Armed
<1>1. begun
  <2>1. Busy(c)
    BY <1>0 DEF JobDone, Busy, Unscheduled
  <2> QED
    BY <1>0, <2>1 DEF NotBegun
<1>2. Armed' /\ Measured' /\ Placed' /\ Apart' /\ Below' = Below
  BY <1>0, JobDoneKeeps DEF InFlight, Apart
<1>3. Pending' = Pending
  BY <1>0 DEF Pending
<1>4. InFlight'
  BY <1>0, <1>2, <1>3 DEF InFlight, Below, Apart
<1> QED
  BY <1>0, <1>1, <1>2, <1>4 DEF HostInv

\* Every request that is due is called back once and forgotten.
LEMMA CompleteKeeps ==
  ASSUME HostInv, Complete
  PROVE  HostInv' /\ gen'.count = gen.count
<1> DEFINE ids == {r.id : r \in Due}
           D == Found(ids)
           R == Completed(ids)
           n == Cardinality(D)
<1>0. /\ now' = now /\ begun' = begun /\ Completion /\ now \in Nat
      /\ Armed /\ Measured /\ Placed /\ InFlight /\ GenOK(gen) /\ begun \in BOOLEAN
      /\ ~begun => NotBegun
  BY DEF HostInv, Complete, Armed
<1>1. gen' = CalledBack(gen, n, now) /\ ioQueue' = R
  BY DEF Complete, CalledBack
<1>2. begun
  <2>1. completionAt # Unscheduled
    BY <1>0 DEF Completion, Unscheduled
  <2> QED
    BY <1>0, <2>1 DEF NotBegun
<1>3. /\ Armed' /\ Measured' /\ Placed' /\ Apart'
      /\ ids \subseteq Below /\ Below' = Below \ ids
  BY <1>0, CompletionKeeps DEF InFlight, Apart
<1> HIDE DEF ids
<1>4. D \cup R = ioQueue /\ D \cap R = {} /\ D \subseteq ioQueue /\ R \subseteq ioQueue
  BY DEF Found, Completed
<1>5. /\ IsFiniteSet(D) /\ IsFiniteSet(R) /\ n \in Nat /\ Cardinality(R) \in Nat
      /\ Cardinality(D \cup R) = n + Cardinality(R) - Cardinality(D \cap R)
  <2>1. IsFiniteSet(D) /\ IsFiniteSet(R)
    BY <1>0, <1>4, FS_Subset DEF InFlight
  <2> HIDE DEF D, R
  <2> QED
    BY <2>1, FS_Union, FS_CardinalityType
<1>6. Cardinality(ioQueue) = n + Cardinality(R) /\ Cardinality({}) = 0
  <2>1. Cardinality({}) = 0
    BY FS_EmptySet
  <2>2. Cardinality(ioQueue) = n + Cardinality(R) - Cardinality({})
    <3> HIDE DEF D, R, n
    <3> QED BY <1>4, <1>5
  <2> HIDE DEF D, R, n
  <2> QED BY <1>5, <2>1, <2>2
<1>7. gen.depth = n + Cardinality(R)
  BY <1>0, <1>6 DEF InFlight
<1>8. gen.depth \in Nat /\ n <= gen.depth
  <2> HIDE DEF n, R
  <2> QED BY <1>5, <1>7
<1> HIDE DEF n
<1>9. /\ GenOK(gen') /\ gen'.kind = gen.kind
      /\ gen'.count = gen.count /\ gen'.depth = gen.depth - n
      /\ gen.kind = "trace" => gen'.reserve = gen.reserve
  BY <1>0, <1>1, <1>5, <1>8, CalledBackOK
<1>10. gen'.depth = Cardinality(ioQueue')
  <2> HIDE DEF R
  <2> QED BY <1>1, <1>5, <1>7, <1>9
<1>11. Pending' = Pending \ ids
  <2>1. Pending' = {b.id : b \in R}
    BY <1>1 DEF Pending
  <2> QED
    BY <2>1 DEF Pending, Completed
<1>12. InFlight'
  <2>1. Pending = Below
    BY <1>0 DEF InFlight, Below
  <2>2. Pending' = InCores' \cup Waiting' /\ InCores' \cap Waiting' = {}
    BY <1>3, <1>11, <2>1 DEF Below, Apart
  <2> HIDE DEF R
  <2>3. /\ IsFiniteSet(ioQueue') /\ ioQueue' \subseteq ioQueue
    BY <1>1, <1>4, <1>5
  <2>4. \A b \in ioQueue' :
           \/ b.id < gen'.count
           \/ gen'.kind = "trace" /\ gen'.reserve /\ b.id <= gen'.count
    BY <1>0, <1>9, <2>3 DEF InFlight
  <2>5. /\ ioQueue' \subseteq [id : Requests, submittedAt : Nat]
        /\ \A b, d \in ioQueue' : b.id = d.id => b = d
    BY <1>0, <2>3 DEF InFlight
  <2> QED
    BY <1>10, <2>2, <2>3, <2>4, <2>5 DEF InFlight
<1> QED
  BY <1>0, <1>2, <1>3, <1>9, <1>12 DEF HostInv

\* Every step keeps the invariant.
LEMMA NextKeeps ==
  ASSUME CallsTakeTime, Requests = Nat, HostInv, [Next]_vars
  PROVE  HostInv'
<1>1. CASE Tick
  BY <1>1, TickKeeps
<1>2. CASE Begin
  BY <1>2, BeginKeeps
<1>3. CASE Submit
  BY <1>3, SubmissionKeeps
<1>4. ASSUME NEW c \in Cores, Job(c) PROVE HostInv'
  BY <1>4, JobKeeps
<1>5. CASE Complete
  BY <1>5, CompleteKeeps
<1>6. CASE UNCHANGED vars
  <2>1. UNCHANGED <<now, jobs, jobAt, completionQueue, completionAt, lastScheduled,
                    busy, lastBusyAt, covered, gen, ioQueue, begun>>
    BY <1>6 DEF vars, hilVars
  <2>2. Armed'
    BY <2>1 DEF HostInv, Armed, CompletionArmed
  <2>3. Measured'
    BY <2>1 DEF HostInv, Measured, BusyIsUnion
  <2>4. Placed'
    BY <2>1 DEF HostInv, Placed, Cores, Busy
  <2>5. Pending' = Pending /\ Waiting' = Waiting
    BY <2>1 DEF Pending, Waiting
  <2>6. InCores' = InCores
    BY <2>1 DEF InCores, Cores
  <2>7. InFlight'
    BY <2>1, <2>5, <2>6 DEF HostInv, InFlight
  <2>8. ~begun' => NotBegun'
    BY <2>1 DEF HostInv, NotBegun, Cores, Busy
  <2> QED
    BY <2>1, <2>2, <2>3, <2>4, <2>7, <2>8 DEF HostInv
<1> QED
  BY <1>1, <1>2, <1>3, <1>4, <1>5, <1>6 DEF Next, Stopped

\* The invariant holds in every state of a run.
LEMMA HostInvariant ==
  ASSUME CallsTakeTime, Requests = Nat
  PROVE  Spec => []HostInv
<1>1. Init => HostInv
  BY InitHostInv
<1>2. HostInv /\ [Next]_vars => HostInv'
  BY NextKeeps
<1> QED
  BY <1>1, <1>2, PTL DEF Spec

-----------------------------------------------------------------------------
(* Theorems *)

\* No lost wake-up (CompletionArmed, updateCompletion of hil.cc): with every
\* generator, any number of cores and any order of completions, as long as no
\* call below takes zero ticks.
THEOREM CompletionsArmed ==
  ASSUME CallsTakeTime, Requests = Nat
  PROVE  Spec => []CompletionArmed
<1>1. HostInv => CompletionArmed
  BY DEF HostInv, Armed
<1> QED
  BY <1>1, HostInvariant, PTL

\* The layers' accounts agree (Accounts): depth and queue of the block layer
\* with what is in the cores and in completionQueue, the depth with its limit
\* in each mode, the busy time with the ticks that were served, the sequential
\* addresses with the region, and nothing is in flight at the end.
THEOREM AccountsAgree ==
  ASSUME CallsTakeTime, TwoFit, Requests = Nat
  PROVE  Spec => []Accounts
<1>1. HostInv => Accounts
  <2> SUFFICES ASSUME HostInv PROVE Accounts
    OBVIOUS
  <2>1. /\ GenOK(gen) /\ Armed /\ Measured /\ Placed /\ InFlight
    BY DEF HostInv
  <2>2. /\ gen.kind = "request" <=> RequestOK(gen)
        /\ gen.kind = "trace" <=> TraceOK(gen)
        /\ gen.count \in Nat /\ gen.depth \in Nat /\ gen.submitAt \in Nat \cup {Never}
    BY <2>1, KindOf
  <2>3. TypeOK
    <3>1. HILTypeOK
      <4>1. covered \subseteq Nat
        BY <2>1 DEF Measured
      <4> QED
        BY <2>1, <4>1 DEF Armed, Measured, Placed, HILTypeOK, Job0
    <3>2. gen.kind \in {"request", "trace"}
      BY <2>1, <2>2 DEF GenOK
    <3> QED
      BY <2>1, <2>2, <3>1, <3>2 DEF TypeOK, InFlight
  <2>4. InFlightAgrees
    <3> DEFINE f == [b \in ioQueue |-> b.id]
    <3>1. f \in [ioQueue -> Pending]
      BY DEF Pending
    <3>2. \A b, d \in ioQueue : f[b] = f[d] => b = d
      BY <2>1 DEF InFlight
    <3>3. \A x \in Pending : \E b \in ioQueue : f[b] = x
      BY DEF Pending
    <3> HIDE DEF f
    <3>4. f \in Bijection(ioQueue, Pending)
      BY <3>1, <3>2, <3>3 DEF Bijection, Injection, Surjection, IsInjective
    <3>5. Cardinality(Pending) = Cardinality(ioQueue)
      BY <2>1, <3>4, FS_Bijection DEF InFlight, ExistsBijection
    <3> QED
      BY <2>1, <3>5 DEF InFlight, InFlightAgrees
  <2>5. DepthBounded
    <3>1. gen.kind = "request" => gen.depth <= IODepth
      BY <2>2 DEF RequestOK
    <3>2. gen.kind = "trace" /\ gen.mode = "sync" => gen.depth <= 1
      BY <2>2 DEF TraceOK
    <3>3. gen.kind = "trace" /\ gen.mode = "async" =>
             gen.depth <= Max({1, MaxQueueDepth})
      <4>1. MaxQueueDepth \in Nat
        BY TraceAssumption
      <4>2. /\ Max({1, MaxQueueDepth}) \in {1, MaxQueueDepth}
            /\ \A y \in {1, MaxQueueDepth} : Max({1, MaxQueueDepth}) >= y
        <5>1. \E x \in {1, MaxQueueDepth} : \A y \in {1, MaxQueueDepth} : x >= y
          BY <4>1
        <5> QED
          BY <5>1 DEF Max
      <4>3. gen.kind = "trace" /\ gen.mode = "async" =>
               gen.depth <= 1 \/ gen.depth <= MaxQueueDepth
        BY <2>2 DEF TraceOK
      <4> QED
        BY <2>2, <4>1, <4>2, <4>3
    <3> QED
      BY <3>1, <3>2, <3>3 DEF DepthBounded
  <2>6. BusyIsUnion
    BY <2>1 DEF Measured
  <2>7. AddressInRange
    BY <2>2 DEF RequestOK, AddressInRange
  <2>8. DrainedAtEnd
    <3>1. gen.ended => gen.depth = 0
      BY <2>1 DEF GenOK, RequestOK, TraceOK
    <3>2. Cardinality(ioQueue) = 0 => ioQueue = {}
      BY <2>1, FS_EmptySet DEF InFlight
    <3> QED
      BY <2>1, <3>1, <3>2 DEF InFlight, DrainedAtEnd
  <2> QED
    BY <2>3, <2>4, <2>5, <2>6, <2>7, <2>8 DEF Accounts
<1> QED
  BY <1>1, HostInvariant, PTL

\* No I/O is generated once the end is reserved, unless the run is time based
\* (NoLateIO): a submission that was scheduled before is never left over.
THEOREM NoIOIsLate ==
  ASSUME CallsTakeTime, Requests = Nat
  PROVE  Spec => NoLateIO
<1> DEFINE Late == gen.reserve /\ ~(gen.kind = "request" /\ gen.timed)
                      => gen'.count = gen.count
<1>1. HostInv /\ [Next]_vars => [Late]_vars
  <2> SUFFICES ASSUME HostInv, Next PROVE Late
    OBVIOUS
  <2>1. CASE Tick
    BY <2>1 DEF Tick
  <2>2. CASE Begin
    BY <2>2, BeginKeeps
  <2>3. CASE Submit
    BY <2>3, SubmissionKeeps
  <2>4. CASE \E c \in Cores : Job(c)
    BY <2>4 DEF Job
  <2>5. CASE Complete
    BY <2>5, CompleteKeeps
  <2>6. CASE Stopped
    BY <2>6 DEF Stopped, vars
  <2> QED
    BY <2>1, <2>2, <2>3, <2>4, <2>5, <2>6 DEF Next
<1> QED
  BY <1>1, HostInvariant, PTL DEF Spec, NoLateIO

=============================================================================
