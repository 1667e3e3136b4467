--------------------------- MODULE TransferProofs ---------------------------
(***************************************************************************)
(* Proofs about data transfers: for every capacity and unit of the FIFO,   *)
(* every speed of the bus and all data pointers, the two phases of the     *)
(* FIFO keep account of its space and work on entries that exist.          *)
(*                                                                         *)
(* What the accounts need: an entry keeps its place while it is inserted   *)
(* or transferred; beginTransfer is scheduled only for an entry whose own  *)
(* second phase has not begun; and the ids of the entries that are queued  *)
(* for insertion are consecutive, so that a completion kept in             *)
(* readCompletion belongs to one of them, and to the last one only after   *)
(* its insertion while its transfer runs.                                  *)
(***************************************************************************)
EXTENDS Transfer, SeqLemmas

-----------------------------------------------------------------------------
(* The inductive invariant *)

Due == Nat \cup {None}
Entries == [t : Nat, at : Int, to : Int, size : Nat \ {0}, last : BOOLEAN,
            id : Nat, end : Int]
Completed == [id : Nat, dmaEnd : Int, latency : Int]

Queue == [wait : Seq(Entries), xfer : Seq(Entries), usage : Int,
          insertPending : BOOLEAN, transferPending : BOOLEAN,
          insertDone : Due, beginTransfer : Due, submitCompletion : Due,
          upstream : Due, ids : Nat, completion : SUBSET Completed]

\* beginTransfer is scheduled for an entry whose second phase has not begun.
Begins(q, pending) ==
    /\ pending \/ q.beginTransfer # None <=> q.xfer # << >>
    /\ pending /\ q.beginTransfer # None => Len(q.xfer) > 1

FrontFits(q) == q.wait # << >> /\ ~Oversized(Head(q.wait))

WritesOrderly(q) ==
    /\ q \in Queue
    /\ q.usage = Space(q.xfer)
    /\ q.insertPending <=> q.insertDone # None
    /\ q.insertPending => FrontFits(q)
    /\ q.transferPending <=> q.upstream # None \/ q.submitCompletion # None
    /\ q.upstream = None \/ q.submitCompletion = None
    /\ Begins(q, q.transferPending)

FirstId(q) == q.ids - Len(q.xfer)
Finished(q, id) == \E c \in q.completion : c.id = id
OnlyInTransfer(q) == q.transferPending /\ Len(q.xfer) = 1

ReadsOrderly(q) ==
    /\ q \in Queue
    /\ q.usage = Space(q.xfer)
    /\ q.transferPending <=> q.upstream # None
    /\ q.transferPending =>
          FrontFits(q) /\ q.xfer # << >> /\ Head(q.wait).id = q.ids - 1
    /\ \A i \in DOMAIN q.xfer : q.xfer[i].id = FirstId(q) + i - 1
    /\ \A c \in q.completion : c.id \in FirstId(q) .. q.ids - 1
    /\ \A c, k \in q.completion : c.id = k.id => c = k
    /\ Begins(q, q.insertPending)
    /\ q.insertDone # None \/ q.submitCompletion # None => q.insertPending
    /\ q.insertDone = None \/ q.submitCompletion = None
    /\ q.transferPending /\ Finished(q, q.ids - 1) =>
          /\ Len(q.xfer) = 1 /\ q.insertPending
          /\ q.insertDone = None /\ q.submitCompletion = None
    /\ q.submitCompletion # None => ~Finished(q, FirstId(q)) /\ ~OnlyInTransfer(q)

Parts == [at : Int, size : Int, ignore : BOOLEAN]
Fields == {"stage", "job", "walk", "counter", "moved"}

Listing(y) ==
    /\ DOMAIN y = Fields
    /\ y.stage \in {"list", "parse", "ready"} => y.job \in Jobs /\ y.walk.list \in Seq(Parts)
    /\ y.stage \in {"list", "parse"} => y.walk.next \in DOMAIN y.job.lists /\ y.job.via # "ring"
                     /\ (y.job.via = "sgl" => y.job.first.type = "segment")

IInv ==
    /\ WritesOrderly(writes) /\ ReadsOrderly(reads)
    /\ DOMAIN x = Transfers /\ \A t \in Transfers : Listing(x[t])
    /\ delay \in Nat \ {0}

-----------------------------------------------------------------------------
(* Sums along a sequence *)

\* S is the running sum of w.
Running(S, w, n) == S[0] = 0 /\ \A k \in 1 .. n : S[k] = S[k - 1] + w[k]

LEMMA SumRuns ==
  ASSUME NEW n \in Nat, NEW w \in [1 .. n -> Int]
  PROVE  LET body(f) == [s \in SUBSET (1 .. n) |->
                           IF s = {} THEN 0 ELSE f[s \ {Max(s)}] + w[Max(s)]]
             g == CHOOSE f : f = body(f)
         IN  \E S \in [0 .. n -> Int] : Running(S, w, n) /\ g[1 .. n] = S[n]
<1> DEFINE body(f) == [s \in SUBSET (1 .. n) |->
                         IF s = {} THEN 0 ELSE f[s \ {Max(s)}] + w[Max(s)]]
           g == CHOOSE f : f = body(f)
           G == [p \in Int \X (1 .. n) |-> p[1] + w[p[2]]]
<1>1. PICK f \in [SUBSET (1 .. n) -> Int] : Folded(f, G, 0, n)
  <2>1. G \in [Int \X (1 .. n) -> Int]
    OBVIOUS
  <2>2. 0 \in Int
    OBVIOUS
  <2> HIDE DEF G
  <2> QED BY <2>1, <2>2, FoldExists
<1>2. \A s \in SUBSET (1 .. n) : s # {} => Max(s) \in 1 .. n /\ s \ {Max(s)} \in SUBSET (1 .. n)
  BY MaxOfIndices
<1>3. \A s \in SUBSET (1 .. n) : f[s] = IF s = {} THEN 0 ELSE f[s \ {Max(s)}] + w[Max(s)]
  <2>1. ASSUME NEW s \in SUBSET (1 .. n), s # {}
        PROVE  G[<<f[s \ {Max(s)}], Max(s)>>] = f[s \ {Max(s)}] + w[Max(s)]
    BY <1>1, <1>2, <2>1
  <2> HIDE DEF G
  <2> QED BY <1>1, <2>1 DEF Folded
<1>4. f = body(f)
  BY <1>1, <1>3
<1>5. g = body(g)
  BY <1>4
<1> HIDE DEF g
<1>6. \A s \in SUBSET (1 .. n) : g[s] = IF s = {} THEN 0 ELSE g[s \ {Max(s)}] + w[Max(s)]
  BY <1>5
<1> DEFINE S == [k \in 0 .. n |-> g[1 .. k]]
<1>7. S[0] = 0
  <2>1. 1 .. 0 = {} /\ {} \in SUBSET (1 .. n)
    OBVIOUS
  <2>2. S[0] = g[1 .. 0]
    OBVIOUS
  <2> QED BY <1>6, <2>1, <2>2
<1>8. ASSUME NEW k \in 1 .. n PROVE S[k] = S[k - 1] + w[k]
  <2>0. k \in Nat \ {0}
    OBVIOUS
  <2>1. Max(1 .. k) = k /\ (1 .. k) \ {k} = 1 .. k - 1 /\ 1 .. k # {}
    BY <2>0, LastIndex
  <2>2. 1 .. k \in SUBSET (1 .. n) /\ k - 1 \in 0 .. n /\ k \in 0 .. n
    OBVIOUS
  <2>3. g[1 .. k] = g[1 .. k - 1] + w[k]
    BY <1>6, <2>1, <2>2
  <2> QED BY <2>2, <2>3
<1>a. S[n] = g[1 .. n]
  OBVIOUS
<1> HIDE DEF S
<1>9. ASSUME NEW k \in 0 .. n PROVE S[k] \in Int
  <2> DEFINE T == {j \in 0 .. n : S[j] \notin Int}
  <2> SUFFICES ASSUME T # {} PROVE FALSE
    OBVIOUS
  <2>1. T \in SUBSET Nat /\ \A j \in T : j <= n
    OBVIOUS
  <2>2. PICK j \in T : \A i \in T : j <= i
    <3> HIDE DEF T
    <3> QED BY <2>1, LeastNat
  <2>3. j # 0
    BY <1>7, <2>2
  <2>4. j - 1 \in 0 .. n /\ S[j - 1] \in Int /\ j \in 1 .. n
    BY <2>1, <2>2, <2>3
  <2> QED BY <1>8, <2>2, <2>4
<1>10. S \in [0 .. n -> Int]
  <2>1. S = [k \in 0 .. n |-> S[k]]
    BY DEF S
  <2> QED BY <1>9, <2>1
<1>11. Running(S, w, n) /\ g[1 .. n] = S[n]
  BY <1>7, <1>8, <1>a DEF Running
<1> QED
  BY <1>10, <1>11 DEF g

Sizes(s) == [i \in DOMAIN s |-> CalcSize(s[i].size)]

LEMMA SpaceRuns ==
  ASSUME NEW s \in Seq(Entries), Sizes(s) \in [1 .. Len(s) -> Int]
  PROVE  \E S \in [0 .. Len(s) -> Int] :
            Running(S, Sizes(s), Len(s)) /\ Space(s) = S[Len(s)]
<1> DEFINE n == Len(s)
           w == Sizes(s)
           body(f) == [t \in SUBSET (1 .. n) |->
                         IF t = {} THEN 0 ELSE f[t \ {Max(t)}] + w[Max(t)]]
           body1(f) == [t \in SUBSET (1 .. n) |->
                          IF t = {} THEN 0
                          ELSE f[t \ {Max(t)}] + CalcSize(s[Max(t)].size)]
<1>1. n \in Nat /\ DOMAIN s = 1 .. n
  OBVIOUS
<1>2. Space(s) = (CHOOSE f : f = body1(f))[1 .. n]
  BY <1>1 DEF Space, FoldLeft, MapThenFoldSet
<1>3. \A t \in SUBSET (1 .. n) : t # {} => w[Max(t)] = CalcSize(s[Max(t)].size)
  <2>1. \A t \in SUBSET (1 .. n) : t # {} => Max(t) \in 1 .. n
    BY <1>1, MaxOfIndices
  <2> QED BY <1>1, <2>1 DEF Sizes
<1>4. ASSUME NEW f PROVE body(f) = body1(f)
  BY <1>3
<1>5. (CHOOSE f : f = body(f)) = (CHOOSE f : f = body1(f))
  BY <1>4
<1>6. w \in [1 .. n -> Int]
  OBVIOUS
<1> HIDE DEF w, n
<1>7. \E S \in [0 .. n -> Int] :
         Running(S, w, n) /\ (CHOOSE f : f = body(f))[1 .. n] = S[n]
  BY <1>1, <1>6, SumRuns
<1> QED
  BY <1>2, <1>5, <1>7 DEF n, w

\* Two sums that grow alike.
LEMMA GrowAlike ==
  ASSUME NEW n \in Nat, NEW A, NEW B,
         \A k \in 0 .. n : A[k] \in Int /\ B[k] \in Int,
         \A k \in 1 .. n : A[k] - A[k - 1] = B[k] - B[k - 1]
  PROVE  A[n] - A[0] = B[n] - B[0]
<1> DEFINE T == {k \in 0 .. n : A[k] - A[0] # B[k] - B[0]}
<1> SUFFICES ASSUME T # {} PROVE FALSE
  OBVIOUS
<1>1. T \in SUBSET Nat /\ \A k \in T : k <= n
  OBVIOUS
<1>2. PICK k \in T : \A j \in T : k <= j
  <2> HIDE DEF T
  <2> QED BY <1>1, LeastNat
<1>3. k # 0
  BY <1>2
<1>4. k - 1 \in 0 .. n /\ k \in 1 .. n /\ k - 1 \notin T /\ 0 \in 0 .. n
  BY <1>1, <1>2, <1>3
<1>5. A[k - 1] - A[0] = B[k - 1] - B[0]
  BY <1>4
<1>6. A[k] - A[k - 1] = B[k] - B[k - 1]
  BY <1>4
<1>7. /\ A[k] \in Int /\ B[k] \in Int /\ A[k - 1] \in Int /\ B[k - 1] \in Int
      /\ A[0] \in Int /\ B[0] \in Int
  BY <1>4
<1>8. A[k] - A[0] = B[k] - B[0]
  BY <1>5, <1>6, <1>7
<1> QED
  BY <1>2, <1>8

\* calcSize: whole units, or less than one.
LEMMA CalcSizes ==
  ASSUME NEW n \in Nat \ {0}
  PROVE  /\ CalcSize(n) \in Nat /\ CalcSize(Unit) = Unit
         /\ CalcSize(n) > Unit => n > Unit
<1>0. Unit \in Nat /\ Unit > 0
  BY FIFOAssumption
<1> DEFINE q == (n + Unit - 1) \div Unit
<1>1. q \in Nat
  <2> DEFINE k == n + Unit - 1
  <2>1. k \in Nat
    BY <1>0
  <2> HIDE DEF k
  <2>2. k \div Unit \in Nat
    BY <1>0, <2>1
  <2> QED BY <2>2 DEF k
<1>2. q * Unit \in Nat
  <2> HIDE DEF q
  <2> QED BY <1>0, <1>1
<1>3. CalcSize(n) \in Nat
  BY <1>0, <1>2 DEF CalcSize
<1>4. (Unit + Unit - 1) \div Unit = 1
  <2> DEFINE u == Unit
  <2>1. u \in Nat /\ u > 0
    BY <1>0
  <2> HIDE DEF u
  <2>2. (u + u - 1) \div u = 1
    BY <2>1
  <2> QED BY <2>2 DEF u
<1>5. CalcSize(Unit) = Unit
  BY <1>0, <1>4 DEF CalcSize
<1>6. ASSUME ~(n > Unit) PROVE ~(CalcSize(n) > Unit)
  <2>1. CASE n < Unit
    BY <1>0, <2>1 DEF CalcSize
  <2>2. CASE n = Unit
    BY <1>0, <1>5, <2>2
  <2> QED BY <1>0, <1>6, <2>1, <2>2
<1> QED
  BY <1>3, <1>5, <1>6

LEMMA SpaceExists ==
  ASSUME NEW s \in Seq(Entries)
  PROVE  /\ Len(s) \in Nat /\ DOMAIN s = 1 .. Len(s)
         /\ \A k \in 1 .. Len(s) : s[k] \in Entries /\ CalcSize(s[k].size) \in Nat
         /\ Space(s) \in Int
         /\ \E S \in [0 .. Len(s) -> Int] :
               /\ S[0] = 0 /\ Space(s) = S[Len(s)]
               /\ \A k \in 1 .. Len(s) : S[k] - S[k - 1] = CalcSize(s[k].size)
<1>1. Len(s) \in Nat /\ DOMAIN s = 1 .. Len(s) /\ \A k \in 1 .. Len(s) : s[k] \in Entries
  OBVIOUS
<1>2. ASSUME NEW k \in 1 .. Len(s) PROVE CalcSize(s[k].size) \in Nat
  <2>1. s[k].size \in Nat \ {0}
    BY <1>1 DEF Entries
  <2> QED BY <2>1, CalcSizes
<1>3. Sizes(s) \in [1 .. Len(s) -> Int]
      /\ \A k \in 1 .. Len(s) : Sizes(s)[k] = CalcSize(s[k].size)
  BY <1>1, <1>2 DEF Sizes
<1>4. PICK S \in [0 .. Len(s) -> Int] :
         Running(S, Sizes(s), Len(s)) /\ Space(s) = S[Len(s)]
  BY <1>3, SpaceRuns
<1>5. ASSUME NEW k \in 1 .. Len(s) PROVE S[k] - S[k - 1] = CalcSize(s[k].size)
  <2>1. S[k] = S[k - 1] + Sizes(s)[k] /\ k - 1 \in 0 .. Len(s) /\ k \in 0 .. Len(s)
    BY <1>4 DEF Running
  <2>2. S[k] \in Int /\ S[k - 1] \in Int /\ CalcSize(s[k].size) \in Nat
    BY <1>2, <1>4, <2>1
  <2> QED BY <1>3, <2>1, <2>2
<1>6. Len(s) \in 0 .. Len(s)
  BY <1>1
<1> QED
  BY <1>1, <1>2, <1>4, <1>5, <1>6 DEF Running

LEMMA SpaceEmpty ==
  Space(<< >>) = 0
<1>1. << >> \in Seq(Entries) /\ Len(<< >>) = 0
  OBVIOUS
<1> QED
  BY <1>1, SpaceExists

\* The running sum of a sequence of n entries.
Sums(S, s, n) ==
    /\ \A k \in 0 .. n : S[k] \in Int
    /\ S[0] = 0 /\ Space(s) = S[n]
    /\ \A k \in 1 .. n : S[k] - S[k - 1] = CalcSize(s[k].size)

LEMMA SpaceOf ==
  ASSUME NEW s \in Seq(Entries)
  PROVE  \E S : Sums(S, s, Len(s))
<1>1. PICK S \in [0 .. Len(s) -> Int] :
         /\ S[0] = 0 /\ Space(s) = S[Len(s)]
         /\ \A k \in 1 .. Len(s) : S[k] - S[k - 1] = CalcSize(s[k].size)
  BY SpaceExists
<1>2. \A k \in 0 .. Len(s) : S[k] \in Int
  OBVIOUS
<1> QED
  BY <1>1, <1>2 DEF Sums

LEMMA SpaceSame ==
  ASSUME NEW s \in Seq(Entries), NEW t \in Seq(Entries), Len(s) = Len(t),
         \A k \in 1 .. Len(s) : s[k].size = t[k].size
  PROVE  Space(s) = Space(t)
<1> DEFINE n == Len(s)
<1>0. Len(s) = n /\ Len(t) = n /\ n \in Nat /\ \A k \in 1 .. n : s[k].size = t[k].size
  OBVIOUS
<1> HIDE DEF n
<1>1. PICK S : Sums(S, s, n)
  BY <1>0, SpaceOf
<1>2. PICK T : Sums(T, t, n)
  BY <1>0, SpaceOf
<1>3. S[n] - S[0] = T[n] - T[0]
  <2>1. \A k \in 0 .. n : S[k] \in Int /\ T[k] \in Int
    BY <1>0, <1>1, <1>2 DEF Sums
  <2>2. ASSUME NEW k \in 1 .. n PROVE S[k] - S[k - 1] = T[k] - T[k - 1]
    <3>1. /\ S[k] - S[k - 1] = CalcSize(s[k].size)
          /\ T[k] - T[k - 1] = CalcSize(t[k].size)
      BY <1>0, <1>1, <1>2 DEF Sums
    <3> QED BY <1>0, <3>1
  <2> QED BY <1>0, <2>1, <2>2, GrowAlike
<1>4. S[n] \in Int /\ T[n] \in Int
  BY <1>0, <1>1, <1>2 DEF Sums
<1> QED
  BY <1>1, <1>2, <1>3, <1>4 DEF Sums

LEMMA SpaceAppend ==
  ASSUME NEW s \in Seq(Entries), NEW e \in Entries
  PROVE  Space(Append(s, e)) = Space(s) + CalcSize(e.size)
<1> DEFINE t == Append(s, e)
           n == Len(s)
           m == n + 1
<1>0. /\ t \in Seq(Entries) /\ Len(s) = n /\ Len(t) = m /\ t[m] = e
      /\ n \in Nat /\ m \in Nat /\ m = n + 1
      /\ \A k \in 1 .. n : t[k] = s[k]
  OBVIOUS
<1> HIDE DEF t, n, m
<1>1. PICK S : Sums(S, s, n)
  BY <1>0, SpaceOf
<1>2. PICK T : Sums(T, t, m)
  BY <1>0, SpaceOf
<1>3. S[n] - S[0] = T[n] - T[0]
  <2>1. \A k \in 0 .. n : S[k] \in Int /\ T[k] \in Int
    BY <1>0, <1>1, <1>2 DEF Sums
  <2>2. ASSUME NEW k \in 1 .. n PROVE S[k] - S[k - 1] = T[k] - T[k - 1]
    <3>1. /\ S[k] - S[k - 1] = CalcSize(s[k].size)
          /\ T[k] - T[k - 1] = CalcSize(t[k].size)
      BY <1>0, <1>1, <1>2 DEF Sums
    <3> QED BY <1>0, <3>1
  <2> QED BY <1>0, <2>1, <2>2, GrowAlike
<1>4. S[n] \in Int /\ T[n] \in Int /\ T[m] \in Int
  BY <1>0, <1>1, <1>2 DEF Sums
<1>5. T[m] - T[n] = CalcSize(e.size)
  <2>1. m \in 1 .. m /\ m - 1 = n
    BY <1>0
  <2>2. T[m] - T[m - 1] = CalcSize(t[m].size)
    BY <1>2, <2>1 DEF Sums
  <2> QED BY <1>0, <2>1, <2>2
<1>6. CalcSize(e.size) \in Int
  BY CalcSizes DEF Entries
<1> QED
  BY <1>1, <1>2, <1>3, <1>4, <1>5, <1>6 DEF t, Sums

LEMMA SpaceTail ==
  ASSUME NEW s \in Seq(Entries), s # << >>
  PROVE  Space(Tail(s)) = Space(s) - CalcSize(Head(s).size)
<1> DEFINE t == Tail(s)
           n == Len(s)
           m == n - 1
<1>0. /\ t \in Seq(Entries) /\ Len(s) = n /\ Len(t) = m /\ s[1] = Head(s)
      /\ n \in Nat \ {0} /\ m \in Nat /\ n = m + 1
      /\ \A k \in 1 .. m : t[k] = s[k + 1]
  OBVIOUS
<1> HIDE DEF t, n, m
<1>1. PICK S : Sums(S, s, n)
  BY <1>0, SpaceOf
<1>2. PICK T : Sums(T, t, m)
  BY <1>0, SpaceOf
<1> DEFINE A == [k \in 0 .. m |-> S[k + 1]]
<1>3. A[m] - A[0] = T[m] - T[0]
  <2>1. \A k \in 0 .. m : A[k] \in Int /\ T[k] \in Int
    BY <1>0, <1>1, <1>2 DEF Sums
  <2>2. ASSUME NEW k \in 1 .. m PROVE A[k] - A[k - 1] = T[k] - T[k - 1]
    <3>1. A[k] = S[k + 1] /\ A[k - 1] = S[k]
      BY <1>0
    <3>2. k + 1 \in 1 .. n /\ (k + 1) - 1 = k
      BY <1>0
    <3>3. S[k + 1] - S[(k + 1) - 1] = CalcSize(s[k + 1].size)
      BY <1>1, <3>2 DEF Sums
    <3>4. T[k] - T[k - 1] = CalcSize(t[k].size)
      BY <1>2 DEF Sums
    <3> QED BY <1>0, <3>1, <3>2, <3>3, <3>4
  <2> HIDE DEF A
  <2> QED BY <1>0, <2>1, <2>2, GrowAlike
<1>4. A[m] = S[n] /\ A[0] = S[1] /\ S[n] \in Int /\ S[1] \in Int /\ T[m] \in Int
  BY <1>0, <1>1, <1>2 DEF Sums
<1>5. S[1] = CalcSize(Head(s).size)
  <2>1. S[1] - S[1 - 1] = CalcSize(s[1].size) /\ 1 - 1 = 0 /\ S[0] = 0
    BY <1>0, <1>1 DEF Sums
  <2>2. S[1] - S[0] = CalcSize(s[1].size)
    BY <2>1
  <2> QED BY <1>0, <1>4, <2>1, <2>2
<1> QED
  BY <1>1, <1>2, <1>3, <1>4, <1>5 DEF t, Sums

-----------------------------------------------------------------------------
(* Entries *)

LEMMA Latencies ==
  ASSUME NEW e \in Entries
  PROVE  /\ CalcSize(e.size) \in Nat /\ Latency(CalcSize(e.size)) \in Nat
         /\ TailLatency(e) \in Nat
<1>1. e.size \in Nat \ {0} /\ Rate \in Nat /\ Unit \in Nat
  BY FIFOAssumption DEF Entries
<1>2. ASSUME NEW n \in Nat PROVE Latency(n) \in Nat
  BY <1>1 DEF Latency
<1>3. CalcSize(e.size) \in Nat
  BY <1>1, CalcSizes
<1> QED
  BY <1>1, <1>2, <1>3 DEF TailLatency

LEMMA SplittedFits ==
  ASSUME NEW wait \in Seq(Entries), wait # << >>
  PROVE  /\ Splitted(wait) \in Seq(Entries) /\ Splitted(wait) # << >>
         /\ ~Oversized(Head(Splitted(wait)))
         /\ ~Oversized(Head(wait)) => Splitted(wait) = wait
<1> DEFINE h == Head(wait)
<1>0. h \in Entries /\ Tail(wait) \in Seq(Entries)
  OBVIOUS
<1>1. CASE ~Oversized(h)
  BY <1>1 DEF Splitted
<1>2. CASE Oversized(h)
  <2>0. /\ Unit \in Nat \ {0} /\ Capacity \in Nat /\ Unit <= Capacity
        /\ h.size \in Nat \ {0}
    BY <1>0, FIFOAssumption DEF Entries
  <2>1. CalcSize(h.size) > Unit /\ CalcSize(h.size) \in Nat
    <3>1. CalcSize(h.size) > Capacity /\ CalcSize(h.size) \in Nat
      BY <1>2, <2>0, CalcSizes DEF Oversized
    <3> QED BY <2>0, <3>1
  <2>2. h.size > Unit /\ CalcSize(Unit) = Unit
    BY <2>0, <2>1, CalcSizes
  <2> DEFINE a == [h EXCEPT !.last = FALSE, !.size = Unit]
             b == [h EXCEPT !.last = TRUE, !.at = @ + Unit, !.to = @ + Unit,
                            !.size = @ - Unit]
  <2>3. a \in Entries /\ a.size = Unit
    BY <1>0, <2>0 DEF Entries
  <2>4. b \in Entries
    <3>0. h.size \in Nat /\ h.at \in Int /\ h.to \in Int
      BY <1>0 DEF Entries
    <3> HIDE DEF h
    <3>1. h.size - Unit \in Nat \ {0} /\ h.at + Unit \in Int /\ h.to + Unit \in Int
      BY <2>0, <2>2, <3>0
    <3> USE DEF h
    <3> QED BY <1>0, <3>1 DEF Entries
  <2>5. Splitted(wait) = <<a, b>> \o Tail(wait)
    BY <1>2 DEF Splitted, Split
  <2> HIDE DEF a, b, h
  <2>6. <<a, b>> \in Seq(Entries) /\ Len(<<a, b>>) = 2 /\ <<a, b>>[1] = a
    BY <2>3, <2>4
  <2>7. /\ Splitted(wait) \in Seq(Entries) /\ Splitted(wait) # << >>
        /\ Head(Splitted(wait)) = a
    BY <1>0, <2>5, <2>6
  <2>8. ~Oversized(a)
    BY <2>0, <2>2, <2>3 DEF Oversized
  <2> QED
    BY <1>2, <2>7, <2>8 DEF h
<1> QED
  BY <1>1, <1>2

LEMMA Beginning ==
  ASSUME NEW q \in Queue, NEW e \in Entries
  PROVE  Begin(q, e) \in Due /\ Begin(q, e) # None
BY Latencies DEF Begin, Queue, Due, None

-----------------------------------------------------------------------------
(* Writes keep their accounts *)

LEMMA InsertWriteOrderly ==
  ASSUME NEW q, WritesOrderly(q), q.wait # << >>
  PROVE  WritesOrderly(InsertWrite(q))
<1>1. CASE Blocked(q, q.insertPending)
  BY <1>1 DEF InsertWrite
<1>2. CASE ~Blocked(q, q.insertPending)
  <2>0. /\ q \in Queue /\ q.wait \in Seq(Entries) /\ q.xfer \in Seq(Entries)
        /\ q.usage \in Int /\ q.transferPending \in BOOLEAN
        /\ q.insertPending \in BOOLEAN
    BY DEF WritesOrderly, Queue
  <2>1. ~q.insertPending
    BY <1>2, <2>0 DEF Blocked, WritesOrderly, FrontFits
  <2> DEFINE wait == Splitted(q.wait)
             n == CalcSize(Head(wait).size)
             e == [Head(wait) EXCEPT !.end = Latency(n)]
             b == Begin(q, e)
             xfer == Append(q.xfer, e)
             r == InsertWrite(q)
  <2>2. wait \in Seq(Entries) /\ wait # << >> /\ ~Oversized(Head(wait))
    BY <2>0, SplittedFits
  <2>3. Head(wait) \in Entries /\ n \in Nat /\ Latency(n) \in Nat
    <3> HIDE DEF wait
    <3>1. Head(wait) \in Entries
      BY <2>2
    <3> QED BY <3>1, Latencies
  <2>4. e \in Entries /\ e.size = Head(wait).size
    BY <2>3 DEF Entries
  <2>5. b \in Due /\ b # None
    BY <2>0, <2>4, Beginning
  <2>6. /\ xfer \in Seq(Entries) /\ Len(xfer) = Len(q.xfer) + 1 /\ xfer # << >>
        /\ Space(xfer) = q.usage + n
    <3>1. Space(q.xfer) = q.usage
      BY DEF WritesOrderly
    <3> HIDE DEF e
    <3> QED BY <2>0, <2>4, <3>1, SpaceAppend
  <2>7. r = [q EXCEPT !.wait = wait, !.insertPending = TRUE, !.usage = @ + n,
                      !.insertDone = Latency(n), !.beginTransfer = b,
                      !.xfer = xfer]
    BY <1>2 DEF InsertWrite
  <2> HIDE DEF wait, n, e, b, xfer, r
  <2>a. r \in Queue
    <3>1. q.usage + n \in Int /\ Latency(n) \in Due
      BY <2>0, <2>3 DEF Due
    <3> QED BY <2>0, <2>2, <2>5, <2>6, <2>7, <3>1 DEF Queue
  <2>8. /\ r.wait = wait /\ r.xfer = xfer /\ r.usage = q.usage + n
        /\ r.insertPending = TRUE /\ r.insertDone = Latency(n)
        /\ r.beginTransfer = b /\ r.transferPending = q.transferPending
        /\ r.upstream = q.upstream /\ r.submitCompletion = q.submitCompletion
    BY <2>0, <2>7 DEF Queue
  <2>9. Begins(r, r.transferPending)
    <3>1. q.transferPending => Len(q.xfer) > 0
      BY <2>0 DEF WritesOrderly, Begins
    <3> QED BY <2>0, <2>5, <2>6, <2>8, <3>1 DEF Begins
  <2> QED
    BY <2>2, <2>3, <2>6, <2>8, <2>9, <2>a DEF WritesOrderly, FrontFits, None, r
<1> QED
  BY <1>1, <1>2

LEMMA InsertNextWriteOrderly ==
  ASSUME NEW q, WritesOrderly(q)
  PROVE  WritesOrderly(InsertNextWrite(q))
BY InsertWriteOrderly DEF InsertNextWrite

LEMMA InsertWriteDoneOrderly ==
  ASSUME NEW q, WritesOrderly(q), q.insertDone = 0
  PROVE  WritesOrderly(InsertWriteDone(q))
<1> DEFINE p == [q EXCEPT !.insertDone = None, !.wait = Tail(@),
                          !.insertPending = FALSE]
<1>1. /\ q \in Queue /\ q.wait \in Seq(Entries) /\ q.wait # << >>
      /\ Tail(q.wait) \in Seq(Entries)
  BY DEF WritesOrderly, Queue, FrontFits, None
<1>2. /\ p \in Queue /\ p.insertDone = None /\ p.insertPending = FALSE
      /\ p.usage = q.usage /\ p.xfer = q.xfer /\ p.upstream = q.upstream
      /\ p.transferPending = q.transferPending
      /\ p.submitCompletion = q.submitCompletion
      /\ p.beginTransfer = q.beginTransfer
  BY <1>1 DEF Queue, Due
<1>3. WritesOrderly(p)
  BY <1>2 DEF WritesOrderly, Begins, FrontFits
<1> QED
  BY <1>3, InsertNextWriteOrderly DEF InsertWriteDone

LEMMA UpstreamTime ==
  ASSUME NEW s \in Seq(Entries), s # << >>, NEW d \in Nat
  PROVE  d * Head(s).size \in Nat
<1>1. Head(s) \in Entries
  OBVIOUS
<1>2. Head(s).size \in Nat
  BY <1>1 DEF Entries
<1> DEFINE n == Head(s).size
<1> HIDE DEF n
<1>3. d * n \in Nat
  BY <1>2 DEF n
<1> QED
  BY <1>3 DEF n

\* What a queue of writes keeps while the event of the second phase of its
\* first entry is being handled.
WritesHandled(q) ==
    /\ q \in Queue
    /\ q.usage = Space(q.xfer)
    /\ q.insertPending <=> q.insertDone # None
    /\ q.insertPending => FrontFits(q)
    /\ q.upstream = None /\ q.submitCompletion = None

LEMMA TransferWriteOrderly ==
  ASSUME NEW q, WritesHandled(q), q.xfer # << >>, q.transferPending = FALSE,
         q.beginTransfer = None, NEW d \in Nat
  PROVE  WritesOrderly(TransferWrite(q, d))
<1> DEFINE r == TransferWrite(q, d)
           u == d * Head(q.xfer).size
<1>1. q \in Queue /\ q.xfer \in Seq(Entries)
  BY DEF WritesHandled, Queue
<1>2. u \in Nat
  BY <1>1, UpstreamTime
<1>3. r = [q EXCEPT !.transferPending = TRUE, !.upstream = u]
  BY DEF TransferWrite
<1> HIDE DEF r, u
<1>4. r \in Queue
  BY <1>1, <1>2, <1>3 DEF Queue, Due
<1>5. /\ r.wait = q.wait /\ r.xfer = q.xfer /\ r.usage = q.usage
      /\ r.insertPending = q.insertPending /\ r.insertDone = q.insertDone
      /\ r.beginTransfer = q.beginTransfer /\ r.transferPending = TRUE
      /\ r.upstream = u /\ r.submitCompletion = q.submitCompletion
  BY <1>1, <1>3 DEF Queue
<1>6. WritesOrderly(r)
  BY <1>2, <1>4, <1>5 DEF WritesHandled, WritesOrderly, Begins, FrontFits, None
<1> QED
  BY <1>6 DEF r

LEMMA DoTransferWriteOrderly ==
  ASSUME NEW q, WritesOrderly(q), q.beginTransfer = 0, NEW d \in Nat
  PROVE  WritesOrderly(TransferWrite([q EXCEPT !.beginTransfer = None], d))
<1> DEFINE p == [q EXCEPT !.beginTransfer = None]
<1>1. q \in Queue
  BY DEF WritesOrderly
<1>2. p \in Queue
  BY <1>1 DEF Queue, Due
<1>3. /\ p.wait = q.wait /\ p.xfer = q.xfer /\ p.usage = q.usage
      /\ p.insertPending = q.insertPending /\ p.insertDone = q.insertDone
      /\ p.beginTransfer = None /\ p.transferPending = q.transferPending
      /\ p.upstream = q.upstream /\ p.submitCompletion = q.submitCompletion
  BY <1>1 DEF Queue
<1> HIDE DEF p
<1>4. q.xfer # << >> /\ q.transferPending \in BOOLEAN
  BY <1>1 DEF WritesOrderly, Begins, Queue, None
<1>5. CASE q.transferPending
  <2>1. WritesOrderly(p)
    BY <1>2, <1>3, <1>4, <1>5 DEF WritesOrderly, Begins, FrontFits
  <2> QED
    BY <1>3, <1>5, <2>1 DEF TransferWrite, p
<1>6. CASE ~q.transferPending
  <2>1. WritesHandled(p)
    BY <1>2, <1>3, <1>6 DEF WritesOrderly, WritesHandled, FrontFits
  <2>2. WritesOrderly(TransferWrite(p, d))
    BY <1>3, <1>4, <1>6, <2>1, TransferWriteOrderly
  <2> QED
    BY <2>2 DEF p
<1> QED
  BY <1>5, <1>6

LEMMA TransferWriteDoneNextOrderly ==
  ASSUME NEW q, q \in Queue, WritesHandled([q EXCEPT !.submitCompletion = None]),
         q.transferPending, Begins(q, TRUE), NEW d \in Nat
  PROVE  WritesOrderly(TransferWriteDoneNext(q, d).q)
<1> DEFINE e == Head(q.xfer)
           p == [q EXCEPT !.submitCompletion = None,
                          !.usage = @ - CalcSize(e.size),
                          !.transferPending = FALSE,
                          !.xfer = Tail(@)]
           q0 == [q EXCEPT !.submitCompletion = None]
           n == CalcSize(e.size)
<1>1. /\ q0.wait = q.wait /\ q0.xfer = q.xfer /\ q0.usage = q.usage
      /\ q0.insertPending = q.insertPending /\ q0.insertDone = q.insertDone
      /\ q0.beginTransfer = q.beginTransfer
      /\ q0.transferPending = q.transferPending /\ q0.upstream = q.upstream
  BY DEF Queue
<1>2. /\ q.usage = Space(q.xfer) /\ q.upstream = None
      /\ q.insertPending <=> q.insertDone # None
      /\ q.insertPending => q.wait # << >> /\ ~Oversized(Head(q.wait))
      /\ q.xfer # << >> /\ (q.beginTransfer # None => Len(q.xfer) > 1)
  <2>1. WritesHandled(q0)
    OBVIOUS
  <2> HIDE DEF q0
  <2> QED BY <1>1, <2>1 DEF WritesHandled, FrontFits, Begins
<1>3. /\ q.xfer \in Seq(Entries) /\ e \in Entries /\ q.usage \in Int
      /\ Tail(q.xfer) \in Seq(Entries) /\ Len(Tail(q.xfer)) = Len(q.xfer) - 1
  BY <1>2 DEF Queue
<1>4. n \in Nat /\ Space(Tail(q.xfer)) = q.usage - n
  BY <1>2, <1>3, Latencies, SpaceTail
<1>5. p = [q EXCEPT !.submitCompletion = None, !.usage = @ - n,
                    !.transferPending = FALSE, !.xfer = Tail(@)]
  OBVIOUS
<1> HIDE DEF p, n, e
<1>6. p \in Queue
  <2>1. q.usage - n \in Int
    BY <1>3, <1>4
  <2> QED BY <1>3, <1>5, <2>1 DEF Queue, Due
<1>7. /\ p.wait = q.wait /\ p.xfer = Tail(q.xfer) /\ p.usage = q.usage - n
      /\ p.insertPending = q.insertPending /\ p.insertDone = q.insertDone
      /\ p.beginTransfer = q.beginTransfer /\ p.transferPending = FALSE
      /\ p.upstream = q.upstream /\ p.submitCompletion = None
  BY <1>5 DEF Queue
<1>8. p.beginTransfer # None => p.xfer # << >>
  <2> DEFINE t == Tail(q.xfer)
  <2>1. t \in Seq(Entries) /\ Len(t) = Len(q.xfer) - 1 /\ Len(q.xfer) \in Nat
    BY <1>3
  <2> HIDE DEF t
  <2>2. Len(q.xfer) > 1 => t # << >>
    BY <2>1
  <2> QED BY <1>2, <1>7, <2>2 DEF t
<1> DEFINE r == IF p.xfer # << >> /\ p.beginTransfer = None
                THEN TransferWrite(p, d) ELSE p
<1>9. WritesOrderly(r)
  <2>1. CASE p.xfer # << >> /\ p.beginTransfer = None
    <3>1. WritesHandled(p)
      BY <1>2, <1>4, <1>6, <1>7 DEF WritesHandled, FrontFits
    <3> QED BY <1>7, <2>1, <3>1, TransferWriteOrderly
  <2>2. CASE ~(p.xfer # << >> /\ p.beginTransfer = None)
    BY <1>2, <1>4, <1>6, <1>7, <1>8, <2>2 DEF WritesOrderly, Begins, FrontFits, None
  <2> QED BY <2>1, <2>2
<1>10. TransferWriteDoneNext(q, d).q = InsertNextWrite(r)
  BY DEF TransferWriteDoneNext, p, e
<1> HIDE DEF r
<1> QED
  BY <1>9, <1>10, InsertNextWriteOrderly

LEMMA TransferWriteDoneOrderly ==
  ASSUME NEW q, WritesOrderly(q), q.upstream = 0 \/ q.submitCompletion = 0,
         NEW d \in Nat
  PROVE  /\ q.upstream = 0 => WritesOrderly(TransferWriteDone(q, d).q)
         /\ q.submitCompletion = 0 => WritesOrderly(TransferWriteDoneNext(q, d).q)
<1>1. /\ q \in Queue /\ q.transferPending /\ Begins(q, TRUE)
      /\ q.xfer # << >> /\ q.xfer \in Seq(Entries) /\ Head(q.xfer) \in Entries
  <2>1. q \in Queue /\ q.transferPending
    BY DEF WritesOrderly, None
  <2>2. Begins(q, TRUE) /\ q.xfer # << >>
    BY <2>1 DEF WritesOrderly, Begins
  <2>3. q.xfer \in Seq(Entries)
    BY <2>1 DEF Queue
  <2>4. Head(q.xfer) \in Entries
    BY <2>2, <2>3
  <2> QED BY <2>1, <2>2, <2>3, <2>4
<1>2. ASSUME q.submitCompletion = 0
      PROVE  WritesOrderly(TransferWriteDoneNext(q, d).q)
  <2> DEFINE p == [q EXCEPT !.submitCompletion = None]
  <2>1. p \in Queue
    BY <1>1 DEF Queue, Due
  <2>2. /\ p.wait = q.wait /\ p.xfer = q.xfer /\ p.usage = q.usage
        /\ p.insertPending = q.insertPending /\ p.insertDone = q.insertDone
        /\ p.upstream = q.upstream /\ p.submitCompletion = None
    BY <1>1 DEF Queue
  <2> HIDE DEF p
  <2>3. q.upstream = None
    BY <1>2 DEF WritesOrderly, None
  <2>4. WritesHandled(p)
    BY <2>1, <2>2, <2>3 DEF WritesOrderly, WritesHandled, FrontFits
  <2> QED
    BY <1>1, <2>4, TransferWriteDoneNextOrderly DEF p
<1>3. ASSUME q.upstream = 0
      PROVE  WritesOrderly(TransferWriteDone(q, d).q)
  <2> DEFINE e == Head(q.xfer)
             p == [q EXCEPT !.upstream = None]
             w == e.end + TailLatency(e)
  <2>1. p \in Queue
    BY <1>1 DEF Queue, Due
  <2>2. /\ p.wait = q.wait /\ p.xfer = q.xfer /\ p.usage = q.usage
        /\ p.insertPending = q.insertPending /\ p.insertDone = q.insertDone
        /\ p.upstream = None /\ p.submitCompletion = q.submitCompletion
        /\ p.beginTransfer = q.beginTransfer
        /\ p.transferPending = q.transferPending
    BY <1>1 DEF Queue
  <2>3. w \in Int
    <3>1. e.end \in Int
      BY <1>1 DEF Entries
    <3>2. TailLatency(e) \in Nat
      BY <1>1, Latencies
    <3> HIDE DEF e
    <3> QED BY <3>1, <3>2
  <2>4. TransferWriteDone(q, d) =
           IF w <= 0 THEN TransferWriteDoneNext(p, d)
           ELSE [q |-> [p EXCEPT !.submitCompletion = w], calls |-> Nobody]
    BY DEF TransferWriteDone
  <2> HIDE DEF p, w
  <2>5. q.submitCompletion = None
    BY <1>3 DEF WritesOrderly, None
  <2>6. CASE w <= 0
    <3> DEFINE v == [p EXCEPT !.submitCompletion = None]
    <3>1. v = p
      BY <2>1, <2>2, <2>5 DEF Queue
    <3>2. WritesHandled(p)
      BY <2>1, <2>2, <2>5 DEF WritesOrderly, WritesHandled, FrontFits
    <3>3. Begins(p, TRUE)
      BY <1>1, <2>2 DEF Begins
    <3> QED
      BY <1>1, <2>1, <2>2, <2>4, <2>6, <3>1, <3>2, <3>3,
         TransferWriteDoneNextOrderly
  <2>7. CASE ~(w <= 0)
    <3> DEFINE v == [p EXCEPT !.submitCompletion = w]
    <3>1. w \in Due /\ w # None
      BY <2>3, <2>7 DEF Due, None
    <3>2. v \in Queue
      BY <2>1, <3>1 DEF Queue
    <3>3. /\ v.wait = q.wait /\ v.xfer = q.xfer /\ v.usage = q.usage
          /\ v.insertPending = q.insertPending /\ v.insertDone = q.insertDone
          /\ v.upstream = None /\ v.submitCompletion = w
          /\ v.beginTransfer = q.beginTransfer
          /\ v.transferPending = q.transferPending
      BY <2>1, <2>2 DEF Queue
    <3>4. TransferWriteDone(q, d).q = v
      BY <2>4, <2>7
    <3> HIDE DEF v
    <3>5. WritesOrderly(v)
      BY <1>1, <3>1, <3>2, <3>3 DEF WritesOrderly, Begins, FrontFits
    <3> QED BY <3>4, <3>5
  <2> QED BY <2>6, <2>7
<1> QED
  BY <1>2, <1>3

\* What is left of the n values of w when only some indices are kept.
LEMMA KeptOnly ==
  ASSUME NEW n \in Nat, NEW keep \in SUBSET (1 .. n), NEW w, NEW E,
         \A i \in keep : w[i] \in E
  PROVE  LET body(f) == [s \in SUBSET (1 .. n) |->
                           IF s = {} THEN << >>
                           ELSE IF Max(s) \in keep
                                THEN Append(f[s \ {Max(s)}], w[Max(s)])
                                ELSE f[s \ {Max(s)}]]
         IN  (CHOOSE f : f = body(f))[1 .. n] \in Seq(E)
<1> DEFINE body(f) == [s \in SUBSET (1 .. n) |->
                         IF s = {} THEN << >>
                         ELSE IF Max(s) \in keep
                              THEN Append(f[s \ {Max(s)}], w[Max(s)])
                              ELSE f[s \ {Max(s)}]]
           g == CHOOSE f : f = body(f)
           X == Seq(E)
           G == [p \in X \X (1 .. n) |->
                   IF p[2] \in keep THEN Append(p[1], w[p[2]]) ELSE p[1]]
<1>0. << >> \in X
  OBVIOUS
<1>g. ASSUME NEW a \in X, NEW i \in 1 .. n
      PROVE  /\ G[<<a, i>>] = IF i \in keep THEN Append(a, w[i]) ELSE a
             /\ G[<<a, i>>] \in X
  <2>1. G[<<a, i>>] = IF i \in keep THEN Append(a, w[i]) ELSE a
    OBVIOUS
  <2>2. i \in keep => Append(a, w[i]) \in X
    OBVIOUS
  <2> HIDE DEF G, X
  <2> QED BY <2>1, <2>2
<1>1. PICK f \in [SUBSET (1 .. n) -> X] : Folded(f, G, << >>, n)
  <2>1. G \in [X \X (1 .. n) -> X]
    <3>1. \A p \in X \X (1 .. n) : G[p] \in X
      <4> SUFFICES ASSUME NEW p \in X \X (1 .. n) PROVE G[p] \in X
        OBVIOUS
      <4>1. p[1] \in X /\ p[2] \in 1 .. n /\ p = <<p[1], p[2]>>
        OBVIOUS
      <4> HIDE DEF G, X
      <4> QED BY <1>g, <4>1
    <3>2. \E h : G = [p \in X \X (1 .. n) |-> h[p]]
      <4>1. G = [p \in X \X (1 .. n) |-> G[p]]
        OBVIOUS
      <4> QED BY <4>1
    <3> HIDE DEF G, X
    <3> QED BY <3>1, <3>2
  <2> HIDE DEF G, X
  <2> QED BY <1>0, <2>1, FoldExists
<1>2. \A s \in SUBSET (1 .. n) : s # {} => Max(s) \in 1 .. n /\ s \ {Max(s)} \in SUBSET (1 .. n)
  BY MaxOfIndices
<1>3. \A s \in SUBSET (1 .. n) :
         f[s] = IF s = {} THEN << >>
                ELSE IF Max(s) \in keep THEN Append(f[s \ {Max(s)}], w[Max(s)])
                ELSE f[s \ {Max(s)}]
  <2> SUFFICES ASSUME NEW s \in SUBSET (1 .. n)
      PROVE  f[s] = IF s = {} THEN << >>
                    ELSE IF Max(s) \in keep THEN Append(f[s \ {Max(s)}], w[Max(s)])
                    ELSE f[s \ {Max(s)}]
    OBVIOUS
  <2>1. f[s] = IF s = {} THEN << >> ELSE G[<<f[s \ {Max(s)}], Max(s)>>]
    BY <1>1 DEF Folded
  <2>2. CASE s # {}
    <3>1. Max(s) \in 1 .. n /\ f[s \ {Max(s)}] \in X
      <4> HIDE DEF G, X
      <4> QED BY <1>1, <1>2, <2>2
    <3> HIDE DEF G, X
    <3> QED BY <1>g, <2>1, <2>2, <3>1
  <2>3. CASE s = {}
    BY <2>1, <2>3
  <2> QED BY <2>2, <2>3
<1>4. f = body(f)
  <2> HIDE DEF G, X
  <2> QED BY <1>1, <1>3
<1>5. g = body(g)
  BY <1>4
<1> HIDE DEF g
<1>6. \A s \in SUBSET (1 .. n) :
         g[s] = IF s = {} THEN << >>
                ELSE IF Max(s) \in keep THEN Append(g[s \ {Max(s)}], w[Max(s)])
                ELSE g[s \ {Max(s)}]
  BY <1>5
<1> DEFINE T == {k \in 0 .. n : g[1 .. k] \notin X}
<1>7. T = {}
  <2> SUFFICES ASSUME T # {} PROVE FALSE
    OBVIOUS
  <2>1. T \in SUBSET Nat /\ \A k \in T : k \in 0 .. n /\ g[1 .. k] \notin X
    OBVIOUS
  <2>2. PICK k \in T : \A i \in T : k <= i
    <3> HIDE DEF T
    <3> QED BY <2>1, LeastNat
  <2>3. CASE k = 0
    <3>1. 1 .. k = {} /\ {} \in SUBSET (1 .. n)
      BY <2>3
    <3>2. g[1 .. k] = << >>
      BY <1>6, <3>1
    <3> QED BY <1>0, <2>1, <2>2, <3>2
  <2>4. CASE k # 0
    <3>1. k \in Nat \ {0} /\ k \in 1 .. n /\ k - 1 \in 0 .. n
      BY <2>1, <2>2, <2>4
    <3>2. g[1 .. k - 1] \in X
      BY <2>2, <3>1
    <3>3. Max(1 .. k) = k /\ (1 .. k) \ {k} = 1 .. k - 1 /\ 1 .. k # {}
      BY <3>1, LastIndex
    <3>4. 1 .. k \in SUBSET (1 .. n)
      BY <3>1
    <3>5. g[1 .. k] = IF k \in keep THEN Append(g[1 .. k - 1], w[k]) ELSE g[1 .. k - 1]
      BY <1>6, <3>3, <3>4
    <3>6. k \in keep => Append(g[1 .. k - 1], w[k]) \in X
      BY <3>2
    <3>7. g[1 .. k] \in X
      BY <3>2, <3>5, <3>6
    <3> QED BY <2>1, <2>2, <3>7
  <2> QED BY <2>3, <2>4
<1>8. n \in 0 .. n
  OBVIOUS
<1> QED
  BY <1>7, <1>8 DEF g

\* A request: an entry of any size.
Offered == [t : Nat, at : Int, to : Int, size : Int, last : BOOLEAN,
            id : Nat, end : Int]

LEMMA OfferedEntry ==
  ASSUME NEW e \in Offered, e.size > 0
  PROVE  e \in Entries
<1>1. e.size \in Int
  BY DEF Offered
<1>2. e.size \in Nat \ {0}
  BY <1>1
<1> QED
  BY <1>2 DEF Offered, Entries

LEMMA AcceptedEntries ==
  ASSUME NEW es \in Seq(Offered)
  PROVE  Accepted(es) \in Seq(Entries)
<1> DEFINE n == Len(es)
           keep == {i \in 1 .. n : es[i].size > 0}
           body(f) == [s \in SUBSET (1 .. n) |->
                         IF s = {} THEN << >>
                         ELSE IF Max(s) \in keep
                              THEN Append(f[s \ {Max(s)}], es[Max(s)])
                              ELSE f[s \ {Max(s)}]]
           body1(f) == [s \in SUBSET (1 .. n) |->
                          IF s = {} THEN << >>
                          ELSE IF es[Max(s)].size > 0
                               THEN Append(f[s \ {Max(s)}], es[Max(s)])
                               ELSE f[s \ {Max(s)}]]
<1>1. n \in Nat /\ DOMAIN es = 1 .. n /\ \A i \in 1 .. n : es[i] \in Offered
  OBVIOUS
<1>2. Accepted(es) = (CHOOSE f : f = body1(f))[1 .. n]
  BY <1>1 DEF Accepted, FoldLeft, MapThenFoldSet
<1>3. \A s \in SUBSET (1 .. n) : s # {} => (Max(s) \in keep <=> es[Max(s)].size > 0)
  <2>1. \A s \in SUBSET (1 .. n) : s # {} => Max(s) \in 1 .. n
    BY <1>1, MaxOfIndices
  <2> QED BY <2>1
<1>4. ASSUME NEW f PROVE body(f) = body1(f)
  BY <1>3
<1>5. (CHOOSE f : f = body(f)) = (CHOOSE f : f = body1(f))
  BY <1>4
<1>6. \A i \in keep : es[i] \in Entries
  BY <1>1, OfferedEntry
<1>7. keep \in SUBSET (1 .. n)
  OBVIOUS
<1> HIDE DEF keep
<1>8. (CHOOSE f : f = body(f))[1 .. n] \in Seq(Entries)
  <2> HIDE DEF n
  <2> QED BY <1>1, <1>6, <1>7, KeptOnly
<1> QED
  BY <1>2, <1>5, <1>8

\* More entries wait behind those that do.
LEMMA WaitBehind ==
  ASSUME NEW q \in Queue, NEW es \in Seq(Entries), es # << >>
  PROVE  LET p == [q EXCEPT !.wait = @ \o es]
         IN  /\ p \in Queue /\ p.wait = q.wait \o es /\ p.wait # << >>
             /\ q.wait # << >> => Head(p.wait) = Head(q.wait)
             /\ \A f \in {"xfer", "usage", "insertPending", "transferPending",
                          "insertDone", "beginTransfer", "submitCompletion",
                          "upstream", "ids", "completion"} : p[f] = q[f]
<1>1. q.wait \in Seq(Entries)
  BY DEF Queue
<1> DEFINE w == q.wait \o es
           p == [q EXCEPT !.wait = w]
<1>2. w \in Seq(Entries) /\ w # << >> /\ (q.wait # << >> => Head(w) = Head(q.wait))
  BY <1>1
<1> HIDE DEF w
<1>3. p \in Queue /\ p.wait = w
  BY <1>2 DEF Queue
<1>4. \A f \in {"xfer", "usage", "insertPending", "transferPending",
                "insertDone", "beginTransfer", "submitCompletion",
                "upstream", "ids", "completion"} : p[f] = q[f]
  BY DEF Queue
<1> QED
  BY <1>2, <1>3, <1>4 DEF w

LEMMA DmaWriteOrderly ==
  ASSUME NEW q, WritesOrderly(q), NEW es, Accepted(es) \in Seq(Entries)
  PROVE  WritesOrderly(DmaWrite(q, es))
<1>1. CASE Accepted(es) = << >>
  BY <1>1 DEF DmaWrite
<1>2. CASE Accepted(es) # << >>
  <2> DEFINE a == Accepted(es)
             p == [q EXCEPT !.wait = @ \o a]
  <2>1. q \in Queue
    BY DEF WritesOrderly
  <2>2. DmaWrite(q, es) = InsertWrite(p)
    BY <1>2 DEF DmaWrite
  <2>3. /\ p \in Queue /\ p.wait # << >>
        /\ q.wait # << >> => Head(p.wait) = Head(q.wait)
        /\ \A f \in {"xfer", "usage", "insertPending", "transferPending",
                     "insertDone", "beginTransfer", "submitCompletion",
                     "upstream", "ids", "completion"} : p[f] = q[f]
    <3> HIDE DEF a
    <3>1. a \in Seq(Entries) /\ a # << >>
      BY <1>2 DEF a
    <3> QED BY <2>1, <3>1, WaitBehind
  <2> HIDE DEF p
  <2>4. WritesOrderly(p)
    BY <2>3 DEF WritesOrderly, Begins, FrontFits
  <2> QED
    BY <2>2, <2>3, <2>4, InsertWriteOrderly
<1> QED
  BY <1>1, <1>2

-----------------------------------------------------------------------------
(* Reads keep their accounts *)

LEMMA TransferReadOrderly ==
  ASSUME NEW q, ReadsOrderly(q), q.wait # << >>, NEW d \in Nat
  PROVE  ReadsOrderly(TransferRead(q, d))
<1>1. CASE Blocked(q, q.transferPending)
  BY <1>1 DEF TransferRead
<1>2. CASE ~Blocked(q, q.transferPending)
  <2>0. /\ q \in Queue /\ q.wait \in Seq(Entries) /\ q.xfer \in Seq(Entries)
        /\ q.usage \in Int /\ q.transferPending \in BOOLEAN
        /\ q.insertPending \in BOOLEAN /\ q.ids \in Nat
        /\ Len(q.xfer) \in Nat /\ DOMAIN q.xfer = 1 .. Len(q.xfer)
    BY DEF ReadsOrderly, Queue
  <2>1. ~q.transferPending
    BY <1>2, <2>0 DEF Blocked, ReadsOrderly, FrontFits
  <2> DEFINE wait == Splitted(q.wait)
             e == [Head(wait) EXCEPT !.id = q.ids]
             n == CalcSize(e.size)
             b == Begin(q, e)
             xfer == Append(q.xfer, e)
             w == <<e>> \o Tail(wait)
             u == d * e.size
             r == TransferRead(q, d)
  <2>2. wait \in Seq(Entries) /\ wait # << >> /\ ~Oversized(Head(wait))
    BY <2>0, SplittedFits
  <2>3. Head(wait) \in Entries /\ Tail(wait) \in Seq(Entries)
    <3> HIDE DEF wait
    <3> QED BY <2>2
  <2>4. e \in Entries /\ e.size = Head(wait).size /\ e.id = q.ids /\ ~Oversized(e)
    <3>1. e \in Entries /\ e.size = Head(wait).size /\ e.id = q.ids
      BY <2>0, <2>3 DEF Entries
    <3> QED BY <2>2, <3>1 DEF Oversized
  <2>5. b \in Due /\ b # None /\ n \in Nat /\ u \in Nat
    <3> HIDE DEF e
    <3>1. b \in Due /\ b # None /\ n \in Nat
      BY <2>0, <2>4, Beginning, Latencies
    <3>2. <<e>> \in Seq(Entries) /\ <<e>> # << >> /\ Head(<<e>>) = e
      BY <2>4
    <3>3. u \in Nat
      BY <3>2, UpstreamTime
    <3> QED BY <3>1, <3>3
  <2>6. /\ xfer \in Seq(Entries) /\ Len(xfer) = Len(q.xfer) + 1 /\ xfer # << >>
        /\ DOMAIN xfer = 1 .. Len(q.xfer) + 1
        /\ \A i \in 1 .. Len(q.xfer) : xfer[i] = q.xfer[i]
        /\ xfer[Len(q.xfer) + 1] = e /\ Space(xfer) = q.usage + n
    <3>1. Space(q.xfer) = q.usage
      BY DEF ReadsOrderly
    <3> HIDE DEF e
    <3>2. Space(xfer) = q.usage + n
      BY <2>0, <2>4, <3>1, SpaceAppend
    <3> QED BY <2>0, <2>4, <3>2
  <2>7. w \in Seq(Entries) /\ w # << >> /\ Head(w) = e
    <3> HIDE DEF e, wait
    <3> QED BY <2>3, <2>4
  <2>8. r = [q EXCEPT !.wait = w, !.transferPending = TRUE, !.ids = @ + 1,
                      !.usage = @ + n, !.upstream = u, !.beginTransfer = b,
                      !.xfer = xfer]
    BY <1>2 DEF TransferRead
  <2> HIDE DEF wait, n, e, b, xfer, w, u, r
  <2>9. r \in Queue
    <3>1. q.usage + n \in Int /\ u \in Due /\ q.ids + 1 \in Nat
      BY <2>0, <2>5 DEF Due
    <3> QED BY <2>0, <2>5, <2>6, <2>7, <2>8, <3>1 DEF Queue
  <2>10. /\ r.wait = w /\ r.xfer = xfer /\ r.usage = q.usage + n
         /\ r.transferPending = TRUE /\ r.upstream = u /\ r.ids = q.ids + 1
         /\ r.beginTransfer = b /\ r.insertPending = q.insertPending
         /\ r.insertDone = q.insertDone /\ r.completion = q.completion
         /\ r.submitCompletion = q.submitCompletion
    BY <2>0, <2>8 DEF Queue
  <2>11. FirstId(r) = FirstId(q) /\ FirstId(q) \in Int
    BY <2>0, <2>6, <2>10 DEF FirstId
  <2>12. Begins(r, r.insertPending)
    <3>1. q.insertPending => Len(q.xfer) > 0
      BY <2>0 DEF ReadsOrderly, Begins
    <3> QED BY <2>0, <2>5, <2>6, <2>10, <3>1 DEF Begins
  <2>13. \A i \in DOMAIN r.xfer : r.xfer[i].id = FirstId(r) + i - 1
    <3> SUFFICES ASSUME NEW i \in 1 .. Len(q.xfer) + 1
                 PROVE  xfer[i].id = FirstId(q) + i - 1
      BY <2>6, <2>10, <2>11
    <3>1. CASE i = Len(q.xfer) + 1
      BY <2>0, <2>4, <2>6, <3>1 DEF FirstId
    <3>2. CASE i \in 1 .. Len(q.xfer)
      BY <2>0, <2>6, <3>2 DEF ReadsOrderly
    <3> QED BY <2>0, <3>1, <3>2
  <2>14. /\ \A c \in r.completion : c.id \in Nat /\ c.id \in FirstId(r) .. r.ids - 1
         /\ \A c \in r.completion : c.id # q.ids
    <3> SUFFICES ASSUME NEW c \in q.completion
                 PROVE  c.id \in Nat /\ c.id \in FirstId(q) .. q.ids /\ c.id # q.ids
      BY <2>0, <2>10, <2>11
    <3>1. c.id \in FirstId(q) .. q.ids - 1
      BY DEF ReadsOrderly
    <3>2. c.id \in Nat
      <4>1. c \in Completed
        BY <2>0 DEF Queue
      <4> QED BY <4>1 DEF Completed
    <3> QED BY <2>0, <2>11, <3>1, <3>2
  <2>15. ~Finished(r, r.ids - 1)
    <3>1. r.ids - 1 = q.ids
      BY <2>0, <2>10
    <3> QED BY <2>14, <3>1 DEF Finished
  <2>16. r.submitCompletion # None => ~Finished(r, FirstId(r)) /\ ~OnlyInTransfer(r)
    <3> SUFFICES ASSUME q.submitCompletion # None
                 PROVE  ~Finished(q, FirstId(q)) /\ Len(r.xfer) # 1
      BY <2>10, <2>11 DEF Finished, OnlyInTransfer
    <3>1. q.insertPending /\ ~Finished(q, FirstId(q))
      BY DEF ReadsOrderly
    <3>2. q.xfer # << >>
      BY <3>1 DEF ReadsOrderly, Begins
    <3> QED BY <2>0, <2>6, <2>10, <3>1, <3>2
  <2>17. /\ r.insertDone # None \/ r.submitCompletion # None => r.insertPending
         /\ r.insertDone = None \/ r.submitCompletion = None
         /\ \A c, k \in r.completion : c.id = k.id => c = k
    BY <2>10 DEF ReadsOrderly
  <2>18. r.usage = Space(r.xfer) /\ r.upstream # None /\ FrontFits(r) /\ r.xfer # << >>
         /\ Head(r.wait).id = r.ids - 1
    <3>1. r.usage = Space(r.xfer) /\ r.xfer # << >>
      BY <2>6, <2>10
    <3>2. FrontFits(r) /\ Head(r.wait) = e
      BY <2>4, <2>7, <2>10 DEF FrontFits
    <3>3. r.upstream # None
      BY <2>5, <2>10 DEF None
    <3>4. r.ids - 1 = q.ids
      BY <2>0, <2>10
    <3> QED BY <2>4, <3>1, <3>2, <3>3, <3>4
  <2> QED
    BY <2>9, <2>10, <2>12, <2>13, <2>14, <2>15, <2>16, <2>17, <2>18
    DEF ReadsOrderly, r
<1> QED
  BY <1>1, <1>2

LEMMA TransferNextReadOrderly ==
  ASSUME NEW q, ReadsOrderly(q), NEW d \in Nat
  PROVE  ReadsOrderly(TransferNextRead(q, d))
BY TransferReadOrderly DEF TransferNextRead

LEMMA DmaReadOrderly ==
  ASSUME NEW q, ReadsOrderly(q), NEW es, Accepted(es) \in Seq(Entries), NEW d \in Nat
  PROVE  ReadsOrderly(DmaRead(q, es, d))
<1>1. CASE Accepted(es) = << >>
  BY <1>1 DEF DmaRead
<1>2. CASE Accepted(es) # << >>
  <2> DEFINE a == Accepted(es)
             p == [q EXCEPT !.wait = @ \o a]
  <2>1. q \in Queue
    BY DEF ReadsOrderly
  <2>2. DmaRead(q, es, d) = TransferRead(p, d)
    BY <1>2 DEF DmaRead
  <2>3. /\ p \in Queue /\ p.wait # << >>
        /\ q.wait # << >> => Head(p.wait) = Head(q.wait)
        /\ \A f \in {"xfer", "usage", "insertPending", "transferPending",
                     "insertDone", "beginTransfer", "submitCompletion",
                     "upstream", "ids", "completion"} : p[f] = q[f]
    <3> HIDE DEF a
    <3>1. a \in Seq(Entries) /\ a # << >>
      BY <1>2 DEF a
    <3> QED BY <2>1, <3>1, WaitBehind
  <2> HIDE DEF p
  <2>4. ReadsOrderly(p)
    BY <2>3 DEF ReadsOrderly, Begins, FrontFits, FirstId, Finished, OnlyInTransfer
  <2> QED
    BY <2>2, <2>3, <2>4, TransferReadOrderly
<1> QED
  BY <1>1, <1>2

\* What a queue of reads keeps while the event of the second phase of its
\* first entry is being handled.
ReadsListed(q) ==
    /\ q \in Queue
    /\ q.usage = Space(q.xfer)
    /\ \A i \in DOMAIN q.xfer : q.xfer[i].id = FirstId(q) + i - 1
    /\ \A c \in q.completion : c.id \in FirstId(q) .. q.ids - 1
    /\ \A c, k \in q.completion : c.id = k.id => c = k
    /\ q.transferPending <=> q.upstream # None
    /\ q.transferPending => FrontFits(q) /\ Head(q.wait).id = q.ids - 1

ReadsHandled(q) ==
    /\ ReadsListed(q)
    /\ q.transferPending => q.xfer # << >> /\ ~Finished(q, q.ids - 1)
    /\ q.insertPending = FALSE /\ q.insertDone = None /\ q.submitCompletion = None

LEMMA InsertReadOrderly ==
  ASSUME NEW q, ReadsHandled(q), q.xfer # << >>, q.beginTransfer = None
  PROVE  ReadsOrderly(InsertRead(q))
<1> DEFINE n == Latency(CalcSize(Head(q.xfer).size))
           r == InsertRead(q)
<1>1. q \in Queue /\ q.xfer \in Seq(Entries)
  BY DEF ReadsHandled, ReadsListed, Queue
<1>2. n \in Nat
  <2>1. Head(q.xfer) \in Entries
    BY <1>1
  <2> QED BY <2>1, Latencies
<1>3. r = [q EXCEPT !.insertPending = TRUE, !.insertDone = n]
  BY <1>1 DEF InsertRead, ReadsHandled, Queue
<1> HIDE DEF n, r
<1>4. r \in Queue
  BY <1>1, <1>2, <1>3 DEF Queue, Due
<1>5. /\ r.wait = q.wait /\ r.xfer = q.xfer /\ r.usage = q.usage
      /\ r.transferPending = q.transferPending /\ r.upstream = q.upstream
      /\ r.ids = q.ids /\ r.beginTransfer = None /\ r.insertPending = TRUE
      /\ r.insertDone = n /\ r.completion = q.completion
      /\ r.submitCompletion = None
  BY <1>1, <1>3 DEF Queue, ReadsHandled
<1>6. FirstId(r) = FirstId(q) /\ \A i : Finished(r, i) = Finished(q, i)
  BY <1>5 DEF FirstId, Finished
<1>7. ReadsOrderly(r)
  BY <1>4, <1>5, <1>6
  DEF ReadsHandled, ReadsListed, ReadsOrderly, Begins, FrontFits
<1> QED
  BY <1>7 DEF r

LEMMA DoInsertReadOrderly ==
  ASSUME NEW q, ReadsOrderly(q), q.beginTransfer = 0
  PROVE  ReadsOrderly(InsertRead([q EXCEPT !.beginTransfer = None]))
<1> DEFINE p == [q EXCEPT !.beginTransfer = None]
<1>1. q \in Queue
  BY DEF ReadsOrderly
<1>2. p \in Queue
  BY <1>1 DEF Queue, Due
<1>3. /\ p.wait = q.wait /\ p.xfer = q.xfer /\ p.usage = q.usage
      /\ p.transferPending = q.transferPending /\ p.upstream = q.upstream
      /\ p.ids = q.ids /\ p.beginTransfer = None
      /\ p.insertPending = q.insertPending
      /\ p.insertDone = q.insertDone /\ p.completion = q.completion
      /\ p.submitCompletion = q.submitCompletion
  BY <1>1 DEF Queue
<1> HIDE DEF p
<1>4. q.xfer # << >> /\ q.insertPending \in BOOLEAN
  BY <1>1 DEF ReadsOrderly, Begins, Queue, None
<1>5. /\ FirstId(p) = FirstId(q) /\ \A i : Finished(p, i) = Finished(q, i)
      /\ OnlyInTransfer(p) = OnlyInTransfer(q)
  BY <1>3 DEF FirstId, Finished, OnlyInTransfer
<1>6. CASE q.insertPending
  <2>1. ReadsOrderly(p)
    BY <1>2, <1>3, <1>4, <1>5, <1>6 DEF ReadsOrderly, Begins, FrontFits
  <2> QED
    BY <1>3, <1>6, <2>1 DEF InsertRead, p
<1>7. CASE ~q.insertPending
  <2>1. ReadsHandled(p)
    BY <1>2, <1>3, <1>4, <1>5, <1>7
    DEF ReadsOrderly, ReadsHandled, ReadsListed, FrontFits
  <2>2. ReadsOrderly(InsertRead(p))
    BY <1>3, <1>4, <2>1, InsertReadOrderly
  <2> QED
    BY <2>2 DEF p
<1> QED
  BY <1>6, <1>7

LEMMA InsertReadDoneNextOrderly ==
  ASSUME NEW q, ReadsListed(q), Begins(q, TRUE), q.insertDone = None,
         ~Finished(q, FirstId(q)), ~OnlyInTransfer(q),
         q.transferPending => ~Finished(q, q.ids - 1), NEW d \in Nat
  PROVE  ReadsOrderly(InsertReadDoneNext(q, d).q)
<1> DEFINE e == Head(q.xfer)
           n == CalcSize(e.size)
           t == Tail(q.xfer)
           p == [q EXCEPT !.submitCompletion = None,
                          !.usage = @ - CalcSize(e.size),
                          !.insertPending = FALSE,
                          !.xfer = Tail(@)]
<1>1. /\ q \in Queue /\ q.xfer \in Seq(Entries) /\ q.xfer # << >>
      /\ q.usage \in Int /\ q.ids \in Nat /\ q.usage = Space(q.xfer)
      /\ q.transferPending \in BOOLEAN
      /\ q.beginTransfer # None => Len(q.xfer) > 1
  BY DEF ReadsListed, Queue, Begins
<1>2. /\ e \in Entries /\ t \in Seq(Entries) /\ Len(t) = Len(q.xfer) - 1
      /\ Len(q.xfer) \in Nat \ {0} /\ DOMAIN q.xfer = 1 .. Len(q.xfer)
      /\ DOMAIN t = 1 .. Len(q.xfer) - 1
      /\ \A i \in 1 .. Len(q.xfer) - 1 : t[i] = q.xfer[i + 1]
      /\ Len(q.xfer) > 1 => t # << >>
  <2>1. /\ e \in Entries /\ t \in Seq(Entries) /\ Len(t) = Len(q.xfer) - 1
        /\ Len(q.xfer) \in Nat \ {0} /\ DOMAIN q.xfer = 1 .. Len(q.xfer)
        /\ \A i \in 1 .. Len(q.xfer) - 1 : t[i] = q.xfer[i + 1]
    BY <1>1
  <2> HIDE DEF t
  <2> QED BY <2>1
<1>3. n \in Nat /\ Space(t) = q.usage - n
  BY <1>1, <1>2, Latencies, SpaceTail
<1>4. p = [q EXCEPT !.submitCompletion = None, !.usage = @ - n,
                    !.insertPending = FALSE, !.xfer = t]
  OBVIOUS
<1> HIDE DEF p, n, e, t
<1>5. p \in Queue
  <2>1. q.usage - n \in Int
    BY <1>1, <1>3
  <2> QED BY <1>1, <1>2, <1>4, <2>1 DEF Queue, Due
<1>6. /\ p.wait = q.wait /\ p.xfer = t /\ p.usage = q.usage - n
      /\ p.transferPending = q.transferPending /\ p.upstream = q.upstream
      /\ p.ids = q.ids /\ p.beginTransfer = q.beginTransfer
      /\ p.insertPending = FALSE /\ p.insertDone = None
      /\ p.completion = q.completion /\ p.submitCompletion = None
  BY <1>1, <1>4 DEF Queue
<1>7. FirstId(p) = FirstId(q) + 1 /\ FirstId(q) \in Int
  <2> DEFINE l == Len(q.xfer)
             i == q.ids
  <2>1. l \in Int /\ i \in Int
    BY <1>1, <1>2
  <2>2. FirstId(p) = i - (l - 1) /\ FirstId(q) = i - l
    BY <1>2, <1>6 DEF FirstId
  <2> HIDE DEF l, i
  <2> QED BY <2>1, <2>2
<1>8. \A i \in DOMAIN p.xfer : p.xfer[i].id = FirstId(p) + i - 1
  <2> SUFFICES ASSUME NEW i \in 1 .. Len(q.xfer) - 1
               PROVE  q.xfer[i + 1].id = FirstId(q) + 1 + i - 1
    BY <1>2, <1>6, <1>7
  <2>1. i + 1 \in DOMAIN q.xfer
    BY <1>2
  <2>2. q.xfer[i + 1].id = FirstId(q) + (i + 1) - 1
    BY <2>1 DEF ReadsListed
  <2> QED BY <1>2, <1>7, <2>2
<1>9. \A c \in p.completion : c.id \in FirstId(p) .. p.ids - 1
  <2> SUFFICES ASSUME NEW c \in q.completion
               PROVE  c.id \in FirstId(q) + 1 .. q.ids - 1
    BY <1>6, <1>7
  <2>1. c.id \in FirstId(q) .. q.ids - 1 /\ c.id # FirstId(q)
    BY DEF ReadsListed, Finished
  <2> QED BY <1>1, <1>7, <2>1
<1>10. p.transferPending => p.xfer # << >> /\ ~Finished(p, p.ids - 1)
  <2>1. q.transferPending => Len(q.xfer) # 1
    BY DEF OnlyInTransfer
  <2>2. q.transferPending => Len(q.xfer) > 1
    <3> DEFINE l == Len(q.xfer)
    <3>1. l \in Nat \ {0}
      BY <1>2
    <3> HIDE DEF l
    <3>2. l # 1 => l > 1
      BY <3>1
    <3> QED BY <2>1, <3>2 DEF l
  <2> QED BY <1>2, <1>6, <2>2 DEF Finished
<1>11. ReadsHandled(p)
  BY <1>3, <1>5, <1>6, <1>8, <1>9, <1>10
  DEF ReadsHandled, ReadsListed, FrontFits
<1> DEFINE r == IF p.xfer # << >> /\ p.beginTransfer = None
                THEN InsertRead(p) ELSE p
<1>12. ReadsOrderly(r)
  <2>1. CASE p.xfer # << >> /\ p.beginTransfer = None
    BY <1>11, <2>1, InsertReadOrderly
  <2>2. CASE ~(p.xfer # << >> /\ p.beginTransfer = None)
    <3>1. Begins(p, FALSE)
      BY <1>1, <1>2, <1>6, <2>2 DEF Begins
    <3> QED
      BY <1>11, <2>2, <3>1 DEF ReadsHandled, ReadsListed, ReadsOrderly
  <2> QED BY <2>1, <2>2
<1>13. InsertReadDoneNext(q, d).q = TransferNextRead(r, d)
  BY DEF InsertReadDoneNext, p, e
<1> HIDE DEF r
<1> QED
  BY <1>12, <1>13, TransferNextReadOrderly

\* The completion of the entry c.id is taken out.
Without(q, id) == [q EXCEPT !.completion = {d \in @ : d.id # id}]

LEMMA WithoutIt ==
  ASSUME NEW q \in Queue, NEW id
  PROVE  LET p == Without(q, id)
         IN  /\ p \in Queue /\ ~Finished(p, id) /\ FirstId(p) = FirstId(q)
             /\ p.completion = {d \in q.completion : d.id # id}
             /\ \A k : Finished(p, k) => Finished(q, k)
             /\ \A f \in {"wait", "xfer", "usage", "insertPending",
                          "transferPending", "insertDone", "beginTransfer",
                          "submitCompletion", "upstream", "ids"} : p[f] = q[f]
<1> DEFINE p == Without(q, id)
           C == {d \in q.completion : d.id # id}
<1>1. p = [q EXCEPT !.completion = C]
  BY DEF Without
<1>2. C \in SUBSET Completed
  BY DEF Queue
<1> HIDE DEF p
<1>3. p \in Queue /\ p.completion = C
  <2> HIDE DEF C
  <2> QED BY <1>1, <1>2 DEF Queue
<1>4. \A f \in {"wait", "xfer", "usage", "insertPending",
                "transferPending", "insertDone", "beginTransfer",
                "submitCompletion", "upstream", "ids"} : p[f] = q[f]
  <2> HIDE DEF C
  <2> QED BY <1>1 DEF Queue
<1>5. ~Finished(p, id) /\ \A k : Finished(p, k) => Finished(q, k)
  BY <1>3 DEF Finished
<1>6. FirstId(p) = FirstId(q)
  BY <1>4 DEF FirstId
<1> QED
  BY <1>3, <1>4, <1>5, <1>6 DEF p

\* Both phases of the first entry are over.
LEMMA MergeOrderly ==
  ASSUME NEW q, ReadsListed(q), Begins(q, TRUE), q.insertPending,
         q.insertDone = None, q.submitCompletion = None, ~OnlyInTransfer(q),
         q.transferPending => ~Finished(q, q.ids - 1),
         NEW c \in Completed, c.id = FirstId(q), NEW d \in Nat
  PROVE  ReadsOrderly(InsertReadDoneMerge(q, c, d).q)
<1> DEFINE p == Without(q, c.id)
           w == c.dmaEnd + c.latency
<1>1. q \in Queue
  BY DEF ReadsListed
<1>2. /\ p \in Queue /\ ~Finished(p, c.id) /\ FirstId(p) = FirstId(q)
      /\ p.completion = {k \in q.completion : k.id # c.id}
      /\ \A k : Finished(p, k) => Finished(q, k)
      /\ \A f \in {"wait", "xfer", "usage", "insertPending",
                   "transferPending", "insertDone", "beginTransfer",
                   "submitCompletion", "upstream", "ids"} : p[f] = q[f]
  BY <1>1, WithoutIt
<1>3. InsertReadDoneMerge(q, c, d) =
         IF w <= 0 THEN InsertReadDoneNext(p, d)
         ELSE [q |-> [p EXCEPT !.submitCompletion = w], calls |-> Nobody]
  BY DEF InsertReadDoneMerge, Without
<1>4. w \in Int
  BY DEF Completed
<1> HIDE DEF p, w
<1>5. ReadsListed(p)
  <2>1. \A k \in p.completion : k \in q.completion
    BY <1>2
  <2> QED BY <1>2, <2>1 DEF ReadsListed, FrontFits
<1>6. /\ Begins(p, TRUE) /\ ~OnlyInTransfer(p)
      /\ p.transferPending => ~Finished(p, p.ids - 1)
  BY <1>2 DEF Begins, OnlyInTransfer
<1>7. CASE w <= 0
  BY <1>2, <1>3, <1>5, <1>6, <1>7, InsertReadDoneNextOrderly
<1>8. CASE ~(w <= 0)
  <2> DEFINE v == [p EXCEPT !.submitCompletion = w]
  <2>1. w \in Due /\ w # None
    BY <1>4, <1>8 DEF Due, None
  <2>2. v \in Queue
    BY <1>2, <2>1 DEF Queue
  <2>3. /\ v.submitCompletion = w /\ v.completion = p.completion
        /\ \A f \in {"wait", "xfer", "usage", "insertPending",
                     "transferPending", "insertDone", "beginTransfer",
                     "upstream", "ids"} : v[f] = p[f]
    BY <1>2 DEF Queue
  <2>4. InsertReadDoneMerge(q, c, d).q = v
    BY <1>3, <1>8
  <2> HIDE DEF v
  <2>5. /\ FirstId(v) = FirstId(p) /\ \A k : Finished(v, k) = Finished(p, k)
        /\ OnlyInTransfer(v) = OnlyInTransfer(p) /\ Begins(v, TRUE)
    BY <1>6, <2>3 DEF FirstId, Finished, OnlyInTransfer, Begins
  <2>6. v.insertPending = TRUE /\ v.insertDone = None
    BY <1>1, <1>2, <2>3 DEF Queue
  <2>7. ReadsOrderly(v)
    <3>1. v.transferPending => v.xfer # << >> /\ ~Finished(v, v.ids - 1)
      BY <1>6, <2>3, <2>5 DEF Begins
    <3>2. ~Finished(v, FirstId(v)) /\ ~OnlyInTransfer(v)
      BY <1>2, <1>6, <2>5
    <3>3. ReadsListed(v)
      BY <1>5, <2>2, <2>3, <2>5 DEF ReadsListed, FrontFits
    <3> QED BY <2>5, <2>6, <3>1, <3>2, <3>3 DEF ReadsOrderly, ReadsListed
  <2> QED BY <2>4, <2>7
<1> QED
  BY <1>7, <1>8

\* One phase of the entry id is over, the other is not.
LEMMA OneMore ==
  ASSUME NEW q \in Queue, NEW c \in Completed,
         c.id \in FirstId(q) .. q.ids - 1, ~Finished(q, c.id),
         \A k \in q.completion : k.id \in FirstId(q) .. q.ids - 1,
         \A k, l \in q.completion : k.id = l.id => k = l,
         NEW C, C = q.completion \cup {c}
  PROVE  /\ C \in SUBSET Completed
         /\ \A k \in C : k.id \in FirstId(q) .. q.ids - 1
         /\ \A k, l \in C : k.id = l.id => k = l
         /\ \A i : (\E k \in C : k.id = i) <=> Finished(q, i) \/ i = c.id
BY DEF Queue, Finished

LEMMA FirstIds ==
  ASSUME NEW q \in Queue
  PROVE  /\ FirstId(q) \in Int /\ q.ids \in Int /\ Len(q.xfer) \in Nat
         /\ q.xfer \in Seq(Entries)
         /\ q.xfer # << >> => FirstId(q) \in FirstId(q) .. q.ids - 1
         /\ q.xfer # << >> => q.ids - 1 \in FirstId(q) .. q.ids - 1
         /\ FirstId(q) = q.ids - 1 <=> Len(q.xfer) = 1
<1> DEFINE l == Len(q.xfer)
           i == q.ids
<1>1. q.xfer \in Seq(Entries) /\ i \in Int
  BY DEF Queue
<1>2. l \in Nat /\ (q.xfer # << >> => l > 0)
  BY <1>1
<1>3. FirstId(q) = i - l
  BY DEF FirstId
<1> HIDE DEF l, i
<1>4. /\ i - l \in Int /\ (l > 0 => i - l \in i - l .. i - 1)
      /\ (l > 0 => i - 1 \in i - l .. i - 1) /\ (i - l = i - 1 <=> l = 1)
  BY <1>1, <1>2
<1> QED
  BY <1>1, <1>2, <1>3, <1>4 DEF l, i

LEMMA InsertReadDoneOrderly ==
  ASSUME NEW q, ReadsOrderly(q), q.insertDone = 0, NEW d \in Nat
  PROVE  ReadsOrderly(InsertReadDone(q, d).q)
<1> DEFINE e == Head(q.xfer)
           p == [q EXCEPT !.insertDone = None]
<1>1. /\ q \in Queue /\ q.insertPending = TRUE /\ Begins(q, TRUE) /\ q.xfer # << >>
      /\ q.submitCompletion = None
  <2>1. q \in Queue /\ q.insertPending = TRUE /\ q.submitCompletion = None
    BY DEF ReadsOrderly, None, Queue
  <2> QED BY <2>1 DEF ReadsOrderly, Begins
<1>2. /\ e \in Entries /\ e.id = FirstId(q)
      /\ FirstId(q) \in FirstId(q) .. q.ids - 1
  <2>1. q.xfer \in Seq(Entries) /\ 1 \in DOMAIN q.xfer /\ e = q.xfer[1]
    BY <1>1 DEF Queue
  <2>2. q.xfer[1].id = FirstId(q) + 1 - 1
    BY <2>1 DEF ReadsOrderly
  <2> HIDE DEF e
  <2> QED BY <1>1, <2>1, <2>2, FirstIds
<1>3. /\ p \in Queue /\ p.insertDone = None
      /\ \A f \in {"wait", "xfer", "usage", "insertPending", "completion",
                   "transferPending", "beginTransfer",
                   "submitCompletion", "upstream", "ids"} : p[f] = q[f]
  BY <1>1 DEF Queue, Due
<1>4. q.transferPending => ~Finished(q, q.ids - 1)
  BY DEF ReadsOrderly, None
<1>5. /\ FirstId(p) = FirstId(q) /\ \A k : Finished(p, k) = Finished(q, k)
      /\ OnlyInTransfer(p) = OnlyInTransfer(q) /\ Begins(p, TRUE)
  BY <1>1, <1>3 DEF FirstId, Finished, OnlyInTransfer, Begins
<1>6. CASE Completions(q, e.id) = {}
  <2> DEFINE c == [id |-> e.id, dmaEnd |-> 0, latency |-> TailLatency(e)]
             C == q.completion \cup {c}
             v == [p EXCEPT !.completion = C]
  <2>1. InsertReadDone(q, d).q = v
    BY <1>3, <1>6 DEF InsertReadDone
  <2>2. c \in Completed /\ c.id = FirstId(q)
    <3>1. e.id \in Nat /\ TailLatency(e) \in Nat
      BY <1>2, Latencies DEF Entries
    <3> HIDE DEF e
    <3> QED BY <1>2, <3>1 DEF Completed
  <2>3. ~Finished(q, FirstId(q))
    BY <1>2, <1>6 DEF Completions, Finished
  <2>4. /\ C \in SUBSET Completed
        /\ \A k \in C : k.id \in FirstId(q) .. q.ids - 1
        /\ \A k, l \in C : k.id = l.id => k = l
        /\ \A i : (\E k \in C : k.id = i) <=> Finished(q, i) \/ i = c.id
    <3> HIDE DEF c
    <3>1. /\ \A k \in q.completion : k.id \in FirstId(q) .. q.ids - 1
          /\ \A k, l \in q.completion : k.id = l.id => k = l
      BY DEF ReadsOrderly
    <3>2. C = q.completion \cup {c} /\ c.id \in FirstId(q) .. q.ids - 1
      BY <1>2, <2>2
    <3>3. ~Finished(q, c.id)
      BY <2>2, <2>3
    <3> HIDE DEF C
    <3> QED BY <1>1, <2>2, <3>1, <3>2, <3>3, OneMore
  <2> HIDE DEF c, C, e, p
  <2>5. /\ v \in Queue /\ v.completion = C
        /\ \A f \in {"wait", "xfer", "usage", "insertPending", "insertDone",
                     "transferPending", "beginTransfer",
                     "submitCompletion", "upstream", "ids"} : v[f] = p[f]
    BY <1>3, <2>4 DEF Queue
  <2> HIDE DEF v
  <2>6. /\ FirstId(v) = FirstId(q) /\ Begins(v, TRUE)
        /\ \A i : Finished(v, i) <=> Finished(q, i) \/ i = FirstId(q)
    <3>1. FirstId(v) = FirstId(q)
      BY <1>3, <2>5 DEF FirstId
    <3>2. Begins(v, TRUE)
      BY <1>5, <2>5 DEF Begins
    <3>3. \A i : Finished(v, i) <=> \E k \in C : k.id = i
      BY <2>5 DEF Finished
    <3> QED BY <2>2, <2>4, <3>1, <3>2, <3>3
  <2>7. v.transferPending /\ Finished(v, v.ids - 1) => Len(v.xfer) = 1
    BY <1>1, <1>3, <1>4, <2>5, <2>6, FirstIds
  <2>8. ReadsOrderly(v)
    <3>1. v.insertPending = TRUE /\ v.insertDone = None /\ v.submitCompletion = None
      BY <1>1, <1>3, <2>5
    <3>2. /\ v.usage = Space(v.xfer)
          /\ v.transferPending <=> v.upstream # None
          /\ v.transferPending =>
                FrontFits(v) /\ v.xfer # << >> /\ Head(v.wait).id = v.ids - 1
      BY <1>3, <2>5 DEF ReadsOrderly, FrontFits
    <3>3. \A i \in DOMAIN v.xfer : v.xfer[i].id = FirstId(v) + i - 1
      BY <1>3, <2>5, <2>6 DEF ReadsOrderly
    <3>4. /\ \A k \in v.completion : k.id \in FirstId(v) .. v.ids - 1
          /\ \A k, l \in v.completion : k.id = l.id => k = l
      BY <1>3, <2>4, <2>5, <2>6
    <3> QED BY <2>5, <2>6, <2>7, <3>1, <3>2, <3>3, <3>4 DEF ReadsOrderly
  <2> QED BY <2>1, <2>8
<1>7. CASE Completions(q, e.id) # {}
  <2> DEFINE c == CHOOSE k \in Completions(q, e.id) : TRUE
  <2>1. c \in Completions(q, e.id)
    BY <1>7
  <2>2. c \in Completed /\ c.id = FirstId(q) /\ Finished(q, FirstId(q))
    <3> HIDE DEF c
    <3>1. c \in q.completion /\ c.id = e.id
      BY <2>1 DEF Completions
    <3> QED BY <1>1, <1>2, <3>1 DEF Queue, Finished
  <2>3. InsertReadDone(q, d).q = InsertReadDoneMerge(p, c, d).q
    BY <1>7 DEF InsertReadDone
  <2> HIDE DEF c, p
  <2>4. ~OnlyInTransfer(q)
    BY <1>1, <1>4, <2>2, FirstIds DEF OnlyInTransfer
  <2>5. ReadsListed(p)
    BY <1>3, <1>5 DEF ReadsOrderly, ReadsListed, FrontFits
  <2>6. /\ p.insertPending /\ p.submitCompletion = None
        /\ p.transferPending => ~Finished(p, p.ids - 1)
    BY <1>1, <1>3, <1>4, <1>5
  <2>7. ReadsOrderly(InsertReadDoneMerge(p, c, d).q)
    BY <1>3, <1>5, <2>2, <2>4, <2>5, <2>6, MergeOrderly
  <2> QED BY <2>3, <2>7
<1> QED
  BY <1>6, <1>7

LEMMA DoInsertReadDoneNextOrderly ==
  ASSUME NEW q, ReadsOrderly(q), q.submitCompletion = 0, NEW d \in Nat
  PROVE  ReadsOrderly(InsertReadDoneNext(q, d).q)
<1>1. /\ ReadsListed(q) /\ Begins(q, TRUE) /\ q.insertDone = None
      /\ ~Finished(q, FirstId(q)) /\ ~OnlyInTransfer(q)
      /\ q.transferPending => ~Finished(q, q.ids - 1)
  BY DEF ReadsOrderly, ReadsListed, Begins, None
<1> QED
  BY <1>1, InsertReadDoneNextOrderly

\* The transfer of the entry in front is over, its insertion is not.
LEMMA TransferredFirst ==
  ASSUME NEW q, ReadsOrderly(q), q.transferPending, ~Finished(q, q.ids - 1),
         NEW c \in Completed, c.id = q.ids - 1, NEW y \in Queue,
         y.wait \in Seq(Entries), y.transferPending = FALSE, y.upstream = None,
         y.completion = q.completion \cup {c},
         \A f \in {"xfer", "usage", "insertPending", "insertDone",
                   "beginTransfer", "submitCompletion", "ids"} : y[f] = q[f]
  PROVE  ReadsOrderly(y)
<1> DEFINE C == y.completion
<1>1. q \in Queue /\ q.xfer # << >>
  BY DEF ReadsOrderly
<1>2. /\ FirstId(q) \in Int /\ q.ids \in Int
      /\ q.ids - 1 \in FirstId(q) .. q.ids - 1
      /\ FirstId(q) = q.ids - 1 <=> Len(q.xfer) = 1
  BY <1>1, FirstIds
<1>3. /\ C \in SUBSET Completed
      /\ \A k \in C : k.id \in FirstId(q) .. q.ids - 1
      /\ \A k, l \in C : k.id = l.id => k = l
      /\ \A i : (\E k \in C : k.id = i) <=> Finished(q, i) \/ i = c.id
  <2>1. /\ \A k \in q.completion : k.id \in FirstId(q) .. q.ids - 1
        /\ \A k, l \in q.completion : k.id = l.id => k = l
    BY DEF ReadsOrderly
  <2>2. C = q.completion \cup {c} /\ c.id \in FirstId(q) .. q.ids - 1
    BY <1>2
  <2>3. ~Finished(q, c.id)
    OBVIOUS
  <2> HIDE DEF C
  <2>4. q \in Queue /\ c \in Completed
    BY <1>1
  <2> QED BY ONLY <2>1, <2>2, <2>3, <2>4, OneMore
<1>4. FirstId(y) = FirstId(q)
  BY DEF FirstId
<1>5. \A i : Finished(y, i) <=> Finished(q, i) \/ i = q.ids - 1
  BY <1>3 DEF Finished
<1>6. y.submitCompletion # None => ~Finished(y, FirstId(y)) /\ ~OnlyInTransfer(y)
  <2> SUFFICES ASSUME q.submitCompletion # None
               PROVE  ~Finished(y, FirstId(q)) /\ ~OnlyInTransfer(y)
    BY <1>4
  <2>1. ~Finished(q, FirstId(q)) /\ ~OnlyInTransfer(q)
    BY DEF ReadsOrderly
  <2>2. FirstId(q) # q.ids - 1
    BY <1>2, <2>1 DEF OnlyInTransfer
  <2> QED BY <1>5, <2>1, <2>2 DEF OnlyInTransfer
<1>7. /\ y.usage = Space(y.xfer)
      /\ \A i \in DOMAIN y.xfer : y.xfer[i].id = FirstId(y) + i - 1
      /\ Begins(y, y.insertPending)
      /\ y.insertDone # None \/ y.submitCompletion # None => y.insertPending
      /\ y.insertDone = None \/ y.submitCompletion = None
  BY <1>4 DEF ReadsOrderly, Begins
<1> QED
  BY <1>3, <1>4, <1>6, <1>7 DEF ReadsOrderly

LEMMA TransferReadDoneOrderly ==
  ASSUME NEW q, ReadsOrderly(q), q.upstream = 0, NEW d \in Nat
  PROVE  ReadsOrderly(TransferReadDone(q, d).q)
<1> DEFINE e == Head(q.wait)
           p == [q EXCEPT !.upstream = None]
           Last1(v) == [v EXCEPT !.wait = Tail(@), !.transferPending = FALSE]
           m == IF Completions(q, e.id) = {}
                THEN [q |-> [p EXCEPT !.completion =
                                @ \cup {[id |-> e.id, dmaEnd |-> 0,
                                         latency |-> TailLatency(e)]}],
                      calls |-> Nobody]
                ELSE InsertReadDoneMerge(
                       p, [CHOOSE c \in Completions(q, e.id) : TRUE
                             EXCEPT !.dmaEnd = 0], d)
<1>1. /\ q \in Queue /\ q.transferPending /\ q.xfer # << >> /\ FrontFits(q)
      /\ e.id = q.ids - 1
  BY DEF ReadsOrderly, None
<1>2. /\ q.wait \in Seq(Entries) /\ q.wait # << >> /\ Tail(q.wait) \in Seq(Entries)
      /\ e \in Entries /\ ~Oversized(e)
  <2>1. q.wait \in Seq(Entries) /\ q.wait # << >> /\ ~Oversized(e)
    BY <1>1 DEF FrontFits, Queue
  <2>2. Tail(q.wait) \in Seq(Entries) /\ e \in Entries
    BY <2>1
  <2> QED BY <2>1, <2>2
<1>3. /\ p \in Queue /\ p.upstream = None
      /\ \A f \in {"wait", "xfer", "usage", "insertPending", "completion",
                   "transferPending", "beginTransfer", "insertDone",
                   "submitCompletion", "ids"} : p[f] = q[f]
  BY <1>1 DEF Queue, Due
<1>4. TransferReadDone(q, d) =
         [m EXCEPT !.q = TransferNextRead([m.q EXCEPT !.wait = Tail(@),
                                                      !.transferPending = FALSE], d)]
  BY DEF TransferReadDone
<1>5. ASSUME NEW v, NEW k, m = [q |-> v, calls |-> k], ReadsOrderly(Last1(v))
      PROVE  ReadsOrderly(TransferReadDone(q, d).q)
  <2>1. TransferReadDone(q, d).q = TransferNextRead(Last1(v), d)
    <3> HIDE DEF m
    <3>1. m.q = v
      BY <1>5
    <3>2. [m EXCEPT !.q = TransferNextRead(Last1(m.q), d)].q
             = TransferNextRead(Last1(m.q), d)
      <4> HIDE DEF Last1
      <4> QED BY <1>5
    <3> QED BY <1>4, <3>1, <3>2
  <2> HIDE DEF Last1
  <2> QED BY <1>5, <2>1, TransferNextReadOrderly
<1>6. CASE Completions(q, e.id) = {}
  <2> DEFINE c == [id |-> e.id, dmaEnd |-> 0, latency |-> TailLatency(e)]
             C == q.completion \cup {c}
             v == [p EXCEPT !.completion = C]
             y == Last1(v)
  <2>1. m = [q |-> v, calls |-> Nobody]
    BY <1>3, <1>6
  <2>2. c \in Completed /\ c.id = q.ids - 1
    <3>1. e.id \in Nat /\ TailLatency(e) \in Nat
      BY <1>2, Latencies DEF Entries
    <3> HIDE DEF e
    <3> QED BY <1>1, <3>1 DEF Completed
  <2>3. ~Finished(q, q.ids - 1)
    BY <1>1, <1>6 DEF Completions, Finished
  <2>4. C \in SUBSET Completed
    <3> HIDE DEF c
    <3> QED BY <1>1, <2>2 DEF Queue
  <2>5. y = [p EXCEPT !.completion = C, !.wait = Tail(q.wait),
                      !.transferPending = FALSE]
    BY <1>3 DEF Queue
  <2>6. C = q.completion \cup {c}
    OBVIOUS
  <2> HIDE DEF c, C, e, p, y
  <2>7. /\ y \in Queue /\ y.wait = Tail(q.wait) /\ y.completion = C
        /\ y.transferPending = FALSE
        /\ \A f \in {"xfer", "usage", "insertPending", "insertDone", "upstream",
                     "beginTransfer", "submitCompletion", "ids"} : y[f] = p[f]
    BY <1>2, <1>3, <2>4, <2>5 DEF Queue
  <2>8. ReadsOrderly(y)
    <3>1. \A f \in {"xfer", "usage", "insertPending", "insertDone",
                    "beginTransfer", "submitCompletion", "ids"} : y[f] = q[f]
      BY <1>3, <2>7
    <3>2. y.upstream = None /\ y.wait \in Seq(Entries)
      BY <1>2, <1>3, <2>7
    <3> QED BY <1>1, <2>2, <2>3, <2>6, <2>7, <3>1, <3>2, TransferredFirst
  <2> QED
    BY <1>5, <2>1, <2>8 DEF y, p
<1>7. CASE Completions(q, e.id) # {}
  <2> DEFINE c0 == CHOOSE c \in Completions(q, e.id) : TRUE
             c == [c0 EXCEPT !.dmaEnd = 0]
             w == c.dmaEnd + c.latency
             o == Without(p, c.id)
             y == Last1([o EXCEPT !.submitCompletion = w])
  <2>1. c0 \in Completed /\ c0.id = q.ids - 1 /\ Finished(q, q.ids - 1)
    <3>1. c0 \in Completions(q, e.id)
      BY <1>7
    <3> HIDE DEF c0
    <3>2. c0 \in q.completion /\ c0.id = e.id
      BY <3>1 DEF Completions
    <3> QED BY <1>1, <3>2 DEF Queue, Finished
  <2>2. m = InsertReadDoneMerge(p, c, d)
    BY <1>7
  <2> HIDE DEF c0, m
  <2>3. c \in Completed /\ c.id = q.ids - 1
    BY <2>1 DEF Completed
  <2>4. w \in Int
    <3> HIDE DEF c
    <3> QED BY <2>3 DEF Completed
  <2>5. /\ Len(q.xfer) = 1 /\ q.insertPending /\ q.insertDone = None
        /\ q.submitCompletion = None /\ q.beginTransfer = None
    <3>1. /\ Len(q.xfer) = 1 /\ q.insertPending /\ q.insertDone = None
          /\ q.submitCompletion = None
      BY <1>1, <2>1 DEF ReadsOrderly
    <3>2. q.insertPending /\ q.beginTransfer # None => Len(q.xfer) > 1
      BY DEF ReadsOrderly, Begins
    <3>3. ~(1 > 1)
      OBVIOUS
    <3> QED BY <3>1, <3>2, <3>3
  <2> HIDE DEF c, p, e
  <2>6. /\ o \in Queue /\ FirstId(o) = FirstId(p)
        /\ o.completion = {k \in p.completion : k.id # c.id}
        /\ \A f \in {"wait", "xfer", "usage", "insertPending",
                     "transferPending", "insertDone", "beginTransfer",
                     "submitCompletion", "upstream", "ids"} : o[f] = p[f]
    BY <1>3, WithoutIt
  <2>7. o.completion = {}
    <3> SUFFICES ASSUME NEW k \in q.completion PROVE k.id = q.ids - 1
      BY <1>3, <2>3, <2>6
    <3>1. k.id \in FirstId(q) .. q.ids - 1
      BY DEF ReadsOrderly
    <3>2. FirstId(q) = q.ids - 1 /\ q.ids \in Int
      BY <1>1, <2>5, FirstIds
    <3> QED BY <3>1, <3>2
  <2>8. m = IF w <= 0 THEN InsertReadDoneNext(o, d)
            ELSE [q |-> [o EXCEPT !.submitCompletion = w], calls |-> Nobody]
    BY <2>2 DEF InsertReadDoneMerge, Without
  <2> HIDE DEF o, w, y
  <2>9. CASE ~(w <= 0)
    <3>1. w \in Due
      BY <2>4, <2>9 DEF Due
    <3>2. y = [o EXCEPT !.submitCompletion = w, !.wait = Tail(q.wait),
                        !.transferPending = FALSE]
      BY <1>3, <2>6 DEF y, Queue
    <3>3. y \in Queue
      BY <1>2, <2>6, <3>1, <3>2 DEF Queue
    <3>4. /\ y.wait = Tail(q.wait) /\ y.transferPending = FALSE
          /\ y.submitCompletion = w /\ y.completion = {} /\ y.upstream = None
          /\ \A f \in {"xfer", "usage", "insertPending", "insertDone",
                       "beginTransfer", "ids"} : y[f] = q[f]
      BY <1>3, <2>6, <2>7, <3>2 DEF Queue
    <3>5. ReadsOrderly(y)
      <4>1. FirstId(y) = FirstId(q) /\ \A k : ~Finished(y, k)
        BY <3>4 DEF FirstId, Finished
      <4>2. Begins(y, y.insertPending) /\ ~OnlyInTransfer(y)
        BY <3>4 DEF ReadsOrderly, Begins, OnlyInTransfer
      <4>3. /\ y.usage = Space(y.xfer)
            /\ \A i \in DOMAIN y.xfer : y.xfer[i].id = FirstId(y) + i - 1
        BY <3>4, <4>1 DEF ReadsOrderly
      <4> QED BY <2>5, <3>3, <3>4, <4>1, <4>2, <4>3 DEF ReadsOrderly
    <3> QED BY <1>5, <2>8, <2>9, <3>5 DEF y
  <2>10. CASE w <= 0
    <3> DEFINE f == Head(o.xfer)
               n == CalcSize(f.size)
               v == [o EXCEPT !.submitCompletion = None, !.usage = @ - n,
                              !.insertPending = FALSE, !.xfer = Tail(@)]
               k == IF f.last THEN f.t ELSE Nobody
               z == Last1(v)
    <3>1. /\ o.xfer = q.xfer /\ q.xfer \in Seq(Entries) /\ Tail(q.xfer) = << >>
          /\ f \in Entries /\ n \in Nat /\ q.usage \in Int
      <4>1. o.xfer = q.xfer /\ q.xfer \in Seq(Entries) /\ q.usage \in Int
        BY <1>1, <1>3, <2>6 DEF Queue
      <4>2. Head(q.xfer) \in Entries
        BY <1>1, <4>1
      <4>3. Tail(q.xfer) = << >>
        <5> DEFINE t == Tail(q.xfer)
        <5>1. t \in Seq(Entries) /\ Len(t) = 0
          BY <1>1, <2>5, <4>1
        <5> HIDE DEF t
        <5>2. t = << >>
          BY <5>1
        <5> QED BY <5>2 DEF t
      <4> QED BY <4>1, <4>2, <4>3, Latencies
    <3>2. Space(<< >>) = q.usage - n
      <4>1. q.usage = Space(q.xfer)
        BY DEF ReadsOrderly
      <4> QED BY <1>1, <3>1, <4>1, SpaceTail
    <3> HIDE DEF n, f
    <3>3. v \in Queue
      <4>1. o.usage = q.usage
        BY <1>3, <2>6
      <4>2. o.usage - n \in Int /\ << >> \in Seq(Entries) /\ Tail(o.xfer) = << >>
        BY <3>1, <4>1
      <4> QED BY <2>6, <4>2 DEF Queue, Due
    <3>4. /\ v.wait = q.wait /\ v.xfer = << >> /\ v.usage = q.usage - n
          /\ v.transferPending = q.transferPending /\ v.upstream = None
          /\ v.insertPending = FALSE /\ v.insertDone = None
          /\ v.submitCompletion = None /\ v.beginTransfer = None
          /\ v.completion = {} /\ v.ids = q.ids
      BY <1>3, <2>5, <2>6, <2>7, <3>1 DEF Queue
    <3>5. TransferNextRead(v, d) = v
      <4>1. Blocked(v, v.transferPending) /\ v.wait # << >>
        BY <1>1, <1>2, <3>4 DEF Blocked, e
      <4> HIDE DEF v
      <4> QED BY <4>1 DEF TransferNextRead, TransferRead
    <3>6. InsertReadDoneNext(o, d) = [q |-> v, calls |-> k]
      <4>1. InsertReadDoneNext(o, d) =
               [q |-> TransferNextRead(IF v.xfer # << >> /\ v.beginTransfer = None
                                       THEN InsertRead(v) ELSE v, d),
                calls |-> k]
        BY DEF InsertReadDoneNext, n, f
      <4> HIDE DEF v, k
      <4> QED BY <3>4, <3>5, <4>1
    <3>7. z = [v EXCEPT !.wait = Tail(q.wait), !.transferPending = FALSE]
      <4> HIDE DEF v
      <4> QED BY <3>3, <3>4 DEF Queue
    <3> HIDE DEF v, z, k
    <3>8. /\ z \in Queue /\ z.wait = Tail(q.wait) /\ z.transferPending = FALSE
          /\ \A g \in {"xfer", "usage", "insertPending", "insertDone", "upstream",
                       "beginTransfer", "submitCompletion", "completion",
                       "ids"} : z[g] = v[g]
      BY <1>2, <3>3, <3>7 DEF Queue
    <3>9. ReadsOrderly(z)
      <4>1. z.xfer = << >> /\ z.completion = {} /\ DOMAIN << >> = {}
        BY <3>4, <3>8
      <4>2. z.usage = Space(z.xfer)
        BY <3>2, <3>4, <3>8
      <4>3. Begins(z, z.insertPending)
        BY <3>4, <3>8 DEF Begins
      <4> QED BY <3>4, <3>8, <4>1, <4>2, <4>3 DEF ReadsOrderly
    <3> QED BY <1>5, <2>8, <2>10, <3>6, <3>9 DEF z
  <2> QED BY <2>9, <2>10
<1> QED
  BY <1>6, <1>7

-----------------------------------------------------------------------------
(* Time goes on *)

LEMMA SoonerNotDue ==
  ASSUME NEW n \in Due, n # 0
  PROVE  Sooner(n) \in Due /\ (Sooner(n) = None <=> n = None)
BY DEF Sooner, Due, None

\* No event of q is due now.
Calm(q) == /\ q.insertDone # 0 /\ q.beginTransfer # 0
           /\ q.submitCompletion # 0 /\ q.upstream # 0

LEMMA ElapseKeeps ==
  ASSUME NEW q \in Queue, Calm(q)
  PROVE  LET r == Elapse(q)
         IN  /\ r \in Queue
             /\ \A f \in {"wait", "usage", "insertPending", "transferPending",
                          "ids"} : r[f] = q[f]
             /\ \A f \in {"insertDone", "beginTransfer", "submitCompletion",
                          "upstream"} : r[f] = None <=> q[f] = None
             /\ r.xfer \in Seq(Entries) /\ Len(r.xfer) = Len(q.xfer)
             /\ r.xfer = << >> <=> q.xfer = << >>
             /\ DOMAIN r.xfer = DOMAIN q.xfer
             /\ \A i \in DOMAIN q.xfer : r.xfer[i].id = q.xfer[i].id
             /\ Space(r.xfer) = Space(q.xfer)
             /\ \A k : Finished(r, k) = Finished(q, k)
             /\ \A c \in r.completion : \E k \in q.completion : c.id = k.id
             /\ (\A c, k \in q.completion : c.id = k.id => c = k)
                  => \A c, k \in r.completion : c.id = k.id => c = k
<1> DEFINE r == Elapse(q)
           X == [i \in DOMAIN q.xfer |-> Passed(q.xfer[i])]
           C == {[c EXCEPT !.dmaEnd = Older(c.dmaEnd)] : c \in q.completion}
<1>1. q.xfer \in Seq(Entries) /\ q.completion \in SUBSET Completed
  BY DEF Queue
<1>2. ASSUME NEW n \in Int PROVE Older(n) \in Int
  BY <1>2 DEF Older
<1>3. /\ X \in Seq(Entries) /\ Len(X) = Len(q.xfer)
      /\ DOMAIN X = 1 .. Len(q.xfer) /\ DOMAIN q.xfer = 1 .. Len(q.xfer)
      /\ Len(q.xfer) \in Nat
      /\ \A i \in 1 .. Len(q.xfer) :
            X[i].id = q.xfer[i].id /\ X[i].size = q.xfer[i].size
  <2>1. ASSUME NEW e \in Entries
        PROVE  LET f == Passed(e)
               IN  f \in Entries /\ f.id = e.id /\ f.size = e.size
    <3>1. Older(e.end) \in Int
      BY <1>2 DEF Entries
    <3> QED BY <3>1 DEF Entries, Passed
  <2>2. /\ DOMAIN q.xfer = 1 .. Len(q.xfer) /\ Len(q.xfer) \in Nat
        /\ \A i \in 1 .. Len(q.xfer) : q.xfer[i] \in Entries
    BY <1>1
  <2>3. \A i \in 1 .. Len(q.xfer) :
           X[i] \in Entries /\ X[i].id = q.xfer[i].id /\ X[i].size = q.xfer[i].size
    BY <2>1, <2>2
  <2>4. X = [i \in 1 .. Len(q.xfer) |-> X[i]]
    BY <2>2
  <2> DEFINE l == Len(q.xfer)
  <2> HIDE DEF X, l
  <2>5. l \in Nat /\ X = [i \in 1 .. l |-> X[i]] /\ \A i \in 1 .. l : X[i] \in Entries
    BY <2>2, <2>3, <2>4 DEF l
  <2>6. X \in Seq(Entries) /\ Len(X) = l /\ DOMAIN X = 1 .. l
    BY ONLY <2>5
  <2> QED BY <2>2, <2>3, <2>6 DEF l
<1>4. C \in SUBSET Completed
  <2> SUFFICES ASSUME NEW c \in q.completion
               PROVE  [c EXCEPT !.dmaEnd = Older(c.dmaEnd)] \in Completed
    OBVIOUS
  <2>1. c \in Completed /\ Older(c.dmaEnd) \in Int
    BY <1>1, <1>2 DEF Completed
  <2> QED BY <2>1 DEF Completed
<1>5. \A c \in C : \E k \in q.completion :
         c.id = k.id /\ c = [k EXCEPT !.dmaEnd = Older(k.dmaEnd)]
  <2> SUFFICES ASSUME NEW k \in q.completion
               PROVE  [k EXCEPT !.dmaEnd = Older(k.dmaEnd)].id = k.id
    OBVIOUS
  <2>1. k \in Completed
    BY <1>1
  <2> QED BY <2>1 DEF Completed
<1>6. \A k \in q.completion : \E c \in C : c.id = k.id
  <2> SUFFICES ASSUME NEW k \in q.completion
               PROVE  [k EXCEPT !.dmaEnd = Older(k.dmaEnd)].id = k.id
    OBVIOUS
  <2>1. k \in Completed
    BY <1>1
  <2> QED BY <2>1 DEF Completed
<1>7. r = [q EXCEPT !.insertDone = Sooner(@), !.beginTransfer = Sooner(@),
                    !.submitCompletion = Sooner(@), !.upstream = Sooner(@),
                    !.xfer = X, !.completion = C]
  BY DEF Elapse
<1> HIDE DEF X, C, r
<1>8. \A f \in {"insertDone", "beginTransfer", "submitCompletion", "upstream"} :
         Sooner(q[f]) \in Due /\ (Sooner(q[f]) = None <=> q[f] = None)
  <2>1. /\ q.insertDone \in Due /\ q.beginTransfer \in Due
        /\ q.submitCompletion \in Due /\ q.upstream \in Due
    BY DEF Queue
  <2> QED BY <2>1, SoonerNotDue DEF Calm
<1>9. r \in Queue
  BY <1>3, <1>4, <1>7, <1>8 DEF Queue
<1>10. /\ r.xfer = X /\ r.completion = C
       /\ \A f \in {"insertDone", "beginTransfer", "submitCompletion",
                    "upstream"} : r[f] = Sooner(q[f])
       /\ \A f \in {"wait", "usage", "insertPending", "transferPending",
                    "ids"} : r[f] = q[f]
  BY <1>7 DEF Queue
<1>11. Space(X) = Space(q.xfer)
  BY <1>1, <1>3, SpaceSame
<1>12. \A k : Finished(r, k) = Finished(q, k)
  BY <1>5, <1>6, <1>10 DEF Finished
<1>13. X = << >> <=> q.xfer = << >>
  BY <1>1, <1>3
<1>14. ASSUME \A c, k \in q.completion : c.id = k.id => c = k
       PROVE  \A c, k \in C : c.id = k.id => c = k
  BY <1>5, <1>14
<1> QED
  BY <1>3, <1>5, <1>8, <1>9, <1>10, <1>11, <1>12, <1>13, <1>14 DEF r

LEMMA ElapseWritesOrderly ==
  ASSUME NEW q, WritesOrderly(q), Calm(q)
  PROVE  WritesOrderly(Elapse(q))
<1> DEFINE r == Elapse(q)
<1>1. q \in Queue
  BY DEF WritesOrderly
<1>2. /\ r \in Queue
      /\ \A f \in {"wait", "usage", "insertPending", "transferPending",
                   "ids"} : r[f] = q[f]
      /\ \A f \in {"insertDone", "beginTransfer", "submitCompletion",
                   "upstream"} : r[f] = None <=> q[f] = None
      /\ Len(r.xfer) = Len(q.xfer) /\ (r.xfer = << >> <=> q.xfer = << >>)
      /\ Space(r.xfer) = Space(q.xfer)
  BY <1>1, ElapseKeeps
<1> HIDE DEF r
<1>3. WritesOrderly(r)
  BY <1>2 DEF WritesOrderly, FrontFits, Begins
<1> QED
  BY <1>3 DEF r

LEMMA ElapseReadsOrderly ==
  ASSUME NEW q, ReadsOrderly(q), Calm(q)
  PROVE  ReadsOrderly(Elapse(q))
<1> DEFINE r == Elapse(q)
<1>1. q \in Queue
  BY DEF ReadsOrderly
<1>2. /\ r \in Queue
      /\ \A f \in {"wait", "usage", "insertPending", "transferPending",
                   "ids"} : r[f] = q[f]
      /\ \A f \in {"insertDone", "beginTransfer", "submitCompletion",
                   "upstream"} : r[f] = None <=> q[f] = None
      /\ Len(r.xfer) = Len(q.xfer) /\ (r.xfer = << >> <=> q.xfer = << >>)
      /\ DOMAIN r.xfer = DOMAIN q.xfer
      /\ \A i \in DOMAIN q.xfer : r.xfer[i].id = q.xfer[i].id
      /\ Space(r.xfer) = Space(q.xfer)
      /\ \A k : Finished(r, k) = Finished(q, k)
      /\ \A c \in r.completion : \E k \in q.completion : c.id = k.id
  BY <1>1, ElapseKeeps
<1>3. \A c, k \in r.completion : c.id = k.id => c = k
  <2>1. \A c, k \in q.completion : c.id = k.id => c = k
    BY DEF ReadsOrderly
  <2> QED BY <1>1, <2>1, ElapseKeeps
<1> HIDE DEF r
<1>4. FirstId(r) = FirstId(q) /\ OnlyInTransfer(r) = OnlyInTransfer(q)
  BY <1>2 DEF FirstId, OnlyInTransfer
<1>5. ReadsOrderly(r)
  BY <1>2, <1>3, <1>4 DEF ReadsOrderly, FrontFits, Begins
<1> QED
  BY <1>5 DEF r

-----------------------------------------------------------------------------
(* Lists and the requests made of them *)

\* Requests, before the FIFO sees them.
Asked == [at : Int, to : Int, size : Int, ignore : BOOLEAN]

LEMMA SizesBefore ==
  ASSUME NEW list \in Seq(Parts), NEW i \in 1 .. Len(list) + 1
  PROVE  SizeBefore(list, i) \in Int
<1> DEFINE s == SubSeq(list, 1, i - 1)
           n == Len(s)
           w == [k \in 1 .. n |-> s[k].size]
           body(f) == [t \in SUBSET (1 .. n) |->
                         IF t = {} THEN 0 ELSE f[t \ {Max(t)}] + w[Max(t)]]
           body1(f) == [t \in SUBSET (1 .. n) |->
                          IF t = {} THEN 0 ELSE f[t \ {Max(t)}] + s[Max(t)].size]
<1>1. s \in Seq(Parts)
  BY Len(list) \in Nat
<1> HIDE DEF s
<1>2. n \in Nat /\ DOMAIN s = 1 .. n /\ \A k \in 1 .. n : s[k] \in Parts
  BY <1>1
<1>3. SizeBefore(list, i) = (CHOOSE f : f = body1(f))[1 .. n]
  BY <1>2 DEF SizeBefore, FoldLeft, MapThenFoldSet, s
<1>4. \A t \in SUBSET (1 .. n) : t # {} => w[Max(t)] = s[Max(t)].size
  <2>1. \A t \in SUBSET (1 .. n) : t # {} => Max(t) \in 1 .. n
    BY <1>2, MaxOfIndices
  <2> QED BY <2>1
<1>5. ASSUME NEW f PROVE body(f) = body1(f)
  BY <1>4
<1>6. (CHOOSE f : f = body(f)) = (CHOOSE f : f = body1(f))
  BY <1>5
<1>7. w \in [1 .. n -> Int]
  <2>1. \A k \in 1 .. n : s[k].size \in Int
    BY <1>2 DEF Parts
  <2> QED BY <2>1
<1> HIDE DEF w, n
<1>8. \E S \in [0 .. n -> Int] :
         Running(S, w, n) /\ (CHOOSE f : f = body(f))[1 .. n] = S[n]
  BY <1>2, <1>7, SumRuns
<1>9. n \in 0 .. n
  BY <1>2
<1> QED
  BY <1>3, <1>6, <1>8, <1>9

LEMMA PiecesAsked ==
  ASSUME NEW list \in Seq(Parts), NEW offset \in Int, NEW length \in Int
  PROVE  Pieces(list, offset, length) \in Seq(Asked)
<1> DEFINE n == Len(list)
           begins == {i \in DOMAIN list :
                        SizeBefore(list, i) + list[i].size > offset}
           first == Min(begins)
           ends == {i \in DOMAIN list :
                      i > first /\ SizeBefore(list, i + 1) >= offset + length}
           last == Min(ends \cup {Len(list)})
           skip(i) == IF i = first THEN offset - SizeBefore(list, i) ELSE 0
           to(i) == IF i = first THEN 0
                    ELSE Lesser(SizeBefore(list, i) - offset, length)
           piece(i) == [at |-> list[i].at + skip(i), to |-> to(i),
                        size |-> Lesser(list[i].size - skip(i), length - to(i)),
                        ignore |-> list[i].ignore]
<1>1. n \in Nat /\ DOMAIN list = 1 .. n /\ \A i \in 1 .. n : list[i] \in Parts
  OBVIOUS
<1>2. \A i \in 1 .. n : SizeBefore(list, i) \in Int
  <2>1. \A i \in 1 .. n : i \in 1 .. Len(list) + 1
    BY <1>1
  <2> QED BY <2>1, SizesBefore
<1>3. Pieces(list, offset, length) =
         IF begins = {} THEN << >>
         ELSE [k \in 1 .. last - first + 1 |-> piece(first + k - 1)]
  BY DEF Pieces
<1>4. ASSUME NEW i \in 1 .. n PROVE piece(i) \in Asked
  <2>1. list[i].at \in Int /\ list[i].size \in Int /\ list[i].ignore \in BOOLEAN
    BY <1>1 DEF Parts
  <2>2. skip(i) \in Int /\ to(i) \in Int
    <3>1. SizeBefore(list, i) \in Int
      BY <1>2
    <3> HIDE DEF first
    <3> QED BY <3>1 DEF Lesser
  <2> HIDE DEF skip, to
  <2>3. Lesser(list[i].size - skip(i), length - to(i)) \in Int
    BY <2>1, <2>2 DEF Lesser
  <2> QED BY <2>1, <2>2, <2>3 DEF Asked
<1> HIDE DEF piece
<1>5. CASE begins # {}
  <2>1. first \in 1 .. n
    <3>1. begins \in SUBSET Nat /\ begins \subseteq 1 .. n
      BY <1>1
    <3> HIDE DEF begins
    <3> QED BY <1>5, <3>1, MinOfNats
  <2>2. last \in first .. n
    <3> DEFINE E == ends \cup {Len(list)}
    <3>1. E \in SUBSET Nat /\ E # {} /\ E \subseteq first .. n
      <4> HIDE DEF first
      <4> QED BY <1>1, <2>1
    <3> HIDE DEF E, ends
    <3>2. Min(E) \in E
      BY <3>1, MinOfNats
    <3>3. last = Min(E)
      BY DEF E
    <3> QED BY <3>1, <3>2, <3>3
  <2> HIDE DEF first, last, begins, n
  <2> DEFINE l == last - first + 1
             s == [k \in 1 .. l |-> piece(first + k - 1)]
  <2>3. s \in Seq(Asked)
    <3>1. l \in Int /\ \A k \in 1 .. l : first + k - 1 \in 1 .. n
      BY <1>1, <2>1, <2>2
    <3>2. \A k \in 1 .. l : piece(first + k - 1) \in Asked
      BY <1>4, <3>1
    <3>3. l \in Nat
      BY <2>1, <2>2
    <3> HIDE DEF l
    <3> QED BY <3>2, <3>3
  <2> QED BY <1>3, <1>5, <2>3
<1>6. CASE begins = {}
  BY <1>3, <1>6
<1> QED
  BY <1>5, <1>6

LEMMA SGLPiecesAsked ==
  ASSUME NEW list \in Seq(Parts), NEW offset \in Int, NEW length \in Int
  PROVE  SGLPieces(list, offset, length) \in Seq(Asked)
<1> DEFINE ps == Pieces(list, offset, length)
           n == Len(ps)
           keep == {i \in 1 .. n : ~ps[i].ignore}
           body(f) == [s \in SUBSET (1 .. n) |->
                         IF s = {} THEN << >>
                         ELSE IF Max(s) \in keep
                              THEN Append(f[s \ {Max(s)}], ps[Max(s)])
                              ELSE f[s \ {Max(s)}]]
           body1(f) == [s \in SUBSET (1 .. n) |->
                          IF s = {} THEN << >>
                          ELSE IF ps[Max(s)].ignore THEN f[s \ {Max(s)}]
                               ELSE Append(f[s \ {Max(s)}], ps[Max(s)])]
<1>0. ps \in Seq(Asked)
  BY PiecesAsked
<1>a. SGLPieces(list, offset, length) =
         FoldLeft(LAMBDA a, p : IF p.ignore THEN a ELSE Append(a, p), << >>, ps)
  BY DEF SGLPieces
<1> HIDE DEF ps
<1>1. n \in Nat /\ DOMAIN ps = 1 .. n /\ \A i \in 1 .. n : ps[i] \in Asked
  BY <1>0
<1>2. SGLPieces(list, offset, length) = (CHOOSE f : f = body1(f))[1 .. n]
  BY <1>1, <1>a DEF FoldLeft, MapThenFoldSet
<1>3. \A s \in SUBSET (1 .. n) : s # {} => (Max(s) \in keep <=> ~ps[Max(s)].ignore)
  <2>1. \A s \in SUBSET (1 .. n) : s # {} => Max(s) \in 1 .. n
    BY <1>1, MaxOfIndices
  <2> QED BY <2>1
<1>4. ASSUME NEW f PROVE body(f) = body1(f)
  BY <1>3
<1>5. (CHOOSE f : f = body(f)) = (CHOOSE f : f = body1(f))
  BY <1>4
<1>6. keep \in SUBSET (1 .. n) /\ \A i \in keep : ps[i] \in Asked
  BY <1>1
<1> HIDE DEF keep
<1>7. (CHOOSE f : f = body(f))[1 .. n] \in Seq(Asked)
  <2> HIDE DEF n
  <2> QED BY <1>1, <1>6, KeptOnly
<1> QED
  BY <1>2, <1>5, <1>7

\* The requests of Move reach the FIFO as entries.
LEMMA EntriesOf ==
  ASSUME NEW ps \in Seq(Asked), NEW t \in Nat
  PROVE  Accepted([i \in DOMAIN ps |-> Entry(t, ps[i].at, ps[i].to, ps[i].size)])
            \in Seq(Entries)
<1> DEFINE n == Len(ps)
           es == [i \in DOMAIN ps |-> Entry(t, ps[i].at, ps[i].to, ps[i].size)]
<1>1. n \in Nat /\ DOMAIN ps = 1 .. n /\ \A i \in 1 .. n : ps[i] \in Asked
  OBVIOUS
<1>2. \A i \in 1 .. n : Entry(t, ps[i].at, ps[i].to, ps[i].size) \in Offered
  BY <1>1 DEF Asked, Entry, Offered
<1>3. es \in Seq(Offered)
  <2> HIDE DEF n
  <2>1. es = [i \in 1 .. n |-> Entry(t, ps[i].at, ps[i].to, ps[i].size)]
    BY <1>1
  <2> QED BY <1>1, <1>2, <2>1
<1> HIDE DEF es
<1>4. Accepted(es) \in Seq(Entries)
  BY <1>3, AcceptedEntries
<1> QED
  BY <1>4 DEF es

LEMMA ChunkParts ==
  ASSUME NEW at \in Nat
  PROVE  PRPSize(at) \in Int /\ \A size \in Int : Chunk(at, size) \in Parts
<1>1. PageSize \in Nat \ {0}
  BY DMAAssumption
<1>2. at % PageSize \in Nat
  <2> DEFINE p == PageSize
  <2>1. p \in Nat \ {0}
    BY <1>1
  <2> HIDE DEF p
  <2>2. at % p \in Nat
    BY <2>1
  <2> QED BY <2>2 DEF p
<1> QED
  BY <1>1, <1>2 DEF PRPSize, Chunk, Parts

LEMMA PRPStartParts ==
  ASSUME NEW j \in Jobs, j.via = "prp"
  PROVE  /\ PRPStart(j).list \in Seq(Parts)
         /\ PRPStart(j).next \in {0} \cup DOMAIN j.lists
<1>1. /\ j.size \in Nat /\ j.prp1 \in Nat /\ j.prp2 \in Nat
      /\ PRPStart(j).next \in {0} \cup DOMAIN j.lists
  BY JobAssumption
<1> DEFINE a == Chunk(j.prp1, PRPSize(j.prp1))
           b == Chunk(j.prp2, PRPSize(j.prp2))
           c == Chunk(j.prp1, j.size)
<1>2. a \in Parts /\ b \in Parts /\ c \in Parts
  BY <1>1, ChunkParts
<1>3. \/ PRPStart(j).list = <<c>>
      \/ PRPStart(j).list = <<a, b>>
      \/ PRPStart(j).list = <<a>>
  BY DEF PRPStart, Walk
<1> HIDE DEF a, b, c
<1>4. <<c>> \in Seq(Parts) /\ <<a, b>> \in Seq(Parts) /\ <<a>> \in Seq(Parts)
  BY <1>2
<1> QED
  BY <1>1, <1>3, <1>4

LEMMA PRPPageParts ==
  ASSUME NEW w, w.list \in Seq(Parts), NEW l \in Seq(Nat), l # << >>
  PROVE  /\ PRPPage(w, l).list \in Seq(Parts)
         /\ PRPPage(w, l).next \in {0, Last(l)}
<1> DEFINE n == Used(w, l)
           s == [i \in 1 .. n |-> Chunk(l[i], PRPSize(l[i]))]
           found == w.list \o s
<1>1. Len(l) \in Nat \ {0} /\ DOMAIN l = 1 .. Len(l) /\ \A i \in 1 .. Len(l) : l[i] \in Nat
  OBVIOUS
<1>2. n \in 1 .. Len(l) /\ (Enough(w, l) = {} => n = Len(l))
  <2>1. CASE Enough(w, l) = {}
    BY <1>1, <2>1 DEF Used
  <2>2. CASE Enough(w, l) # {}
    <3>1. Enough(w, l) \in SUBSET Nat /\ Enough(w, l) \subseteq 1 .. Len(l)
      BY <1>1 DEF Enough
    <3>2. Min(Enough(w, l)) \in Enough(w, l)
      BY <2>2, <3>1, MinOfNats
    <3>3. n = Min(Enough(w, l))
      BY <2>2 DEF Used
    <3> QED BY <2>2, <3>1, <3>2, <3>3
  <2> QED BY <2>1, <2>2
<1>3. PRPPage(w, l) = IF Enough(w, l) # {} THEN Walk(found, 0, 0)
                      ELSE Walk(Front(found), l[n], w.left - Named(l, n))
  BY DEF PRPPage
<1> HIDE DEF n
<1>b. n \in Nat \ {0} /\ n <= Len(l) /\ Len(l) \in Nat
  <2>1. n \in 1 .. Len(l) /\ Len(l) \in Nat
    BY <1>1, <1>2
  <2> QED BY ONLY <2>1
<1>4. s \in Seq(Parts) /\ Len(s) = n
  <2>1. \A i \in 1 .. n : Chunk(l[i], PRPSize(l[i])) \in Parts
    <3>1. \A i \in 1 .. n : i \in 1 .. Len(l)
      BY <1>b
    <3> QED BY <1>1, <3>1, ChunkParts
  <2> QED BY <1>b, <2>1
<1>c. w.list \in Seq(Parts)
  OBVIOUS
<1> HIDE DEF s
<1>5. found \in Seq(Parts) /\ Len(found) \in Nat /\ Len(found) >= 1
  BY ONLY <1>b, <1>c, <1>4
<1> HIDE DEF found
<1>6. Front(found) \in Seq(Parts)
  BY <1>5 DEF Front
<1>7. Enough(w, l) = {} => l[n] = Last(l)
  BY <1>2 DEF Last
<1> QED
  BY <1>3, <1>5, <1>6, <1>7 DEF Walk

LEMMA SGLChunksParts ==
  ASSUME NEW l \in Seq(Descriptors), l # << >>
  PROVE  SGLChunks(l) \in Seq(Parts)
<1> DEFINE p == IF Last(l).type = "segment" THEN Front(l) ELSE l
           s == [i \in DOMAIN p |-> [at |-> p[i].at, size |-> p[i].size,
                                     ignore |-> p[i].type = "bucket"]]
<1>1. p \in Seq(Descriptors)
  <2>1. Front(l) \in Seq(Descriptors)
    BY Len(l) \in Nat \ {0} DEF Front
  <2> QED BY <2>1
<1>2. SGLChunks(l) = s
  BY DEF SGLChunks
<1> HIDE DEF p
<1>3. Len(p) \in Nat /\ DOMAIN p = 1 .. Len(p) /\ \A i \in 1 .. Len(p) : p[i] \in Descriptors
  BY <1>1
<1>4. \A i \in 1 .. Len(p) : [at |-> p[i].at, size |-> p[i].size,
                              ignore |-> p[i].type = "bucket"] \in Parts
  BY <1>3 DEF Descriptors, Parts
<1>5. s = [i \in 1 .. Len(p) |-> [at |-> p[i].at, size |-> p[i].size,
                                  ignore |-> p[i].type = "bucket"]]
  BY <1>3
<1>6. s \in Seq(Parts)
  <2> DEFINE n == Len(p)
  <2> HIDE DEF n, s
  <2>1. n \in Nat /\ s = [i \in 1 .. n |-> s[i]] /\ \A i \in 1 .. n : s[i] \in Parts
    BY <1>3, <1>4, <1>5 DEF n
  <2> QED BY ONLY <2>1
<1> QED
  BY <1>2, <1>6

-----------------------------------------------------------------------------
(* The steps of a transfer *)

LEMMA InitIInv ==
  Init => IInv
<1> SUFFICES ASSUME Init PROVE IInv
  OBVIOUS
<1>1. << >> \in Seq(Entries) /\ Len(<< >>) = 0 /\ DOMAIN << >> = {}
  OBVIOUS
<1>2. QueueInit \in Queue
  BY <1>1 DEF QueueInit, Queue, Due
<1>3. WritesOrderly(QueueInit) /\ ReadsOrderly(QueueInit)
  BY <1>1, <1>2, SpaceEmpty
  DEF QueueInit, WritesOrderly, ReadsOrderly, Begins, None, Nobody
<1>4. DOMAIN x = Transfers /\ \A t \in Transfers : Listing(x[t])
  BY DEF Init, Idle, Listing, Fields
<1>5. delay \in Nat \ {0}
  BY TransferAssumption DEF Init
<1> QED
  BY <1>3, <1>4, <1>5 DEF IInv, Init

\* A command that knows or asks for a part of its list.
LEMMA ListedIInv ==
  ASSUME IInv, NEW t \in Transfers, NEW y, DOMAIN y = Fields, y.job \in Jobs,
         NEW w, w.list \in Seq(Parts), w.next = 0 \/ w.next \in DOMAIN y.job.lists,
         w.next # 0 => /\ y.job.via # "ring"
                       /\ y.job.via = "sgl" => y.job.first.type = "segment",
         Listed(t, y, w)
  PROVE  IInv'
<1> DEFINE z == [y EXCEPT !.walk = w,
                          !.stage = IF w.next = 0 THEN "ready" ELSE "list"]
<1>1. Listing(z)
  BY DEF Listing, Fields
<1>2. x' = [x EXCEPT ![t] = z] /\ writes' = writes /\ delay' = delay
  BY DEF Listed
<1> HIDE DEF z
<1>3. DOMAIN x' = Transfers /\ \A u \in Transfers : Listing(x'[u])
  BY <1>1, <1>2 DEF IInv
<1>4. ReadsOrderly(reads')
  <2>1. CASE w.next = 0
    BY <2>1 DEF Listed, IInv
  <2>2. CASE w.next # 0
    <3> DEFINE size == IF y.job.via = "prp" THEN PRPSize(w.next)
                       ELSE Len(y.job.lists[w.next])
               e == Entry(t, w.next, 0, size)
    <3>1. reads' = DmaRead(reads, <<e>>, delay)
      BY <2>2 DEF Listed
    <3>2. y.job.via \in {"prp", "sgl"} /\ w.next \in DOMAIN y.job.lists
      BY <2>2, JobAssumption
    <3>3. w.next \in Nat /\ (y.job.via = "sgl" => y.job.lists[w.next] \in Seq(Descriptors))
      BY <2>2, <3>2, JobAssumption
    <3>4. size \in Int
      <4>1. CASE y.job.via = "prp"
        BY <3>3, <4>1, ChunkParts
      <4>2. CASE y.job.via = "sgl"
        <5>1. Len(y.job.lists[w.next]) \in Nat
          BY <3>3, <4>2
        <5> QED BY <4>2, <5>1
      <4> QED BY <3>2, <4>1, <4>2
    <3> HIDE DEF size
    <3>5. e \in Offered
      BY <3>3, <3>4, TransferAssumption DEF Entry, Offered, Transfers
    <3> HIDE DEF e
    <3>6. Accepted(<<e>>) \in Seq(Entries)
      <4>1. <<e>> \in Seq(Offered)
        BY <3>5
      <4> QED BY <4>1, AcceptedEntries
    <3> QED BY <3>1, <3>6, DmaReadOrderly DEF IInv
  <2> QED BY <2>1, <2>2
<1> QED
  BY <1>2, <1>3, <1>4 DEF IInv

LEMMA PanicIInv ==
  ASSUME IInv, NEW t \in Transfers, Panic(t)
  PROVE  IInv'
BY DEF Panic, IInv, Listing, Fields

LEMMA StartIInv ==
  ASSUME IInv, NEW t \in Transfers, Start(t)
  PROVE  IInv'
<1> PICK j \in Jobs :
          CASE j.via = "prp" /\ PRPShort(j) -> Panic(t)
            [] j.via = "prp" /\ ~PRPShort(j) ->
                 Listed(t, [Idle EXCEPT !.job = j], PRPStart(j))
            [] j.via = "ring" ->
                 Listed(t, [Idle EXCEPT !.job = j],
                        Walk(<<Chunk(j.prp1, j.ring)>>, 0, 0))
            [] j.via = "sgl" /\ SGLUnknown(j) -> Stuck(t, j)
            [] j.via = "sgl" /\ ~SGLUnknown(j) ->
                 Listed(t, [Idle EXCEPT !.job = j], SGLStart(j))
  BY DEF Start
<1> DEFINE y == [Idle EXCEPT !.job = j]
<1>1. DOMAIN y = Fields /\ y.job = j
  BY DEF Idle, Fields
<1>2. j.via \in {"prp", "ring", "sgl"}
  BY JobAssumption
<1> HIDE DEF y
<1>3. CASE j.via = "prp" /\ PRPShort(j)
  BY <1>3, PanicIInv
<1>4. CASE j.via = "prp" /\ ~PRPShort(j)
  <2>1. Listed(t, y, PRPStart(j))
    BY <1>4 DEF y
  <2>2. PRPStart(j).list \in Seq(Parts) /\ PRPStart(j).next \in {0} \cup DOMAIN j.lists
    BY <1>4, PRPStartParts
  <2> QED BY <1>1, <1>4, <2>1, <2>2, ListedIInv
<1>5. CASE j.via = "ring"
  <2> DEFINE w == Walk(<<Chunk(j.prp1, j.ring)>>, 0, 0)
  <2>1. Listed(t, y, w)
    BY <1>5 DEF y
  <2>2. Chunk(j.prp1, j.ring) \in Parts
    BY <1>5, JobAssumption, ChunkParts
  <2>3. w.list \in Seq(Parts) /\ w.next = 0
    BY <2>2 DEF Walk
  <2> HIDE DEF w
  <2> QED BY <1>1, <2>1, <2>3, ListedIInv
<1>7. CASE j.via = "sgl" /\ SGLUnknown(j)
  <2>1. Stuck(t, j)
    BY <1>7
  <2> DEFINE z == [Idle EXCEPT !.job = j, !.stage = "stuck"]
  <2>2. x' = [x EXCEPT ![t] = z] /\ UNCHANGED <<reads, writes, delay>>
    BY <2>1 DEF Stuck
  <2>3. Listing(z)
    BY DEF Listing, Idle, Fields
  <2> HIDE DEF z
  <2> QED BY <2>2, <2>3 DEF IInv
<1>6. CASE j.via = "sgl" /\ ~SGLUnknown(j)
  <2> DEFINE w == SGLStart(j)
  <2>1. Listed(t, y, w)
    BY <1>6 DEF y
  <2>2. j.first \in Descriptors /\ (j.first.type = "segment" => j.first.at \in DOMAIN j.lists)
    BY <1>6, JobAssumption
  <2>3. CASE j.first.type = "segment"
    <3>1. w.list \in Seq(Parts) /\ w.next = j.first.at
      BY <2>3 DEF SGLStart, Walk
    <3> HIDE DEF w
    <3> QED BY <1>1, <1>6, <2>1, <2>2, <2>3, <3>1, ListedIInv
  <2>4. CASE j.first.type # "segment"
    <3>1. <<j.first>> \in Seq(Descriptors) /\ <<j.first>> # << >>
      BY <2>2
    <3>2. SGLChunks(<<j.first>>) \in Seq(Parts)
      BY <3>1, SGLChunksParts
    <3>3. w.list \in Seq(Parts) /\ w.next = 0
      BY <2>4, <3>2 DEF SGLStart, Walk
    <3> HIDE DEF w
    <3> QED BY <1>1, <2>1, <3>3, ListedIInv
  <2> QED BY <2>3, <2>4
<1> QED
  BY <1>2, <1>3, <1>4, <1>5, <1>6, <1>7

LEMMA ParseIInv ==
  ASSUME IInv, NEW t \in Transfers, Parse(t)
  PROVE  IInv'
<1> DEFINE y == x[t]
           l == y.job.lists[y.walk.next]
<1>1. Listing(y) /\ y.stage = "parse"
  BY DEF IInv, Parse
<1>2. /\ DOMAIN y = Fields /\ y.job \in Jobs /\ y.walk.list \in Seq(Parts)
      /\ y.walk.next \in DOMAIN y.job.lists /\ y.job.via # "ring"
      /\ y.job.via = "sgl" => y.job.first.type = "segment"
  BY <1>1 DEF Listing
<1>3. IF y.job.via = "prp"
      THEN IF PRPInvalid(y.walk, l) THEN Panic(t)
           ELSE Listed(t, y, PRPPage(y.walk, l))
      ELSE IF SGLInvalid(l) THEN Panic(t)
           ELSE Listed(t, y, SGLSegment(y.walk, l))
  BY DEF Parse
<1> HIDE DEF y
<1>4. CASE Panic(t)
  BY <1>4, PanicIInv
<1>5. CASE y.job.via = "prp" /\ ~Panic(t)
  <2> DEFINE w == PRPPage(y.walk, l)
  <2>1. Listed(t, y, w)
    BY <1>3, <1>5
  <2>2. l \in Seq(Nat) /\ l # << >> /\ Last(l) \in {0} \cup DOMAIN y.job.lists
    BY <1>2, <1>5, JobAssumption
  <2>3. w.list \in Seq(Parts) /\ w.next \in {0, Last(l)}
    <3> HIDE DEF l
    <3> QED BY <1>2, <2>2, PRPPageParts
  <2> HIDE DEF w
  <2> QED BY <1>2, <1>5, <2>1, <2>2, <2>3, ListedIInv
<1>6. CASE y.job.via # "prp" /\ ~Panic(t)
  <2> DEFINE w == SGLSegment(y.walk, l)
  <2>1. Listed(t, y, w)
    BY <1>3, <1>6
  <2>2. y.job.via = "sgl"
    BY <1>2, <1>6, JobAssumption
  <2>3. /\ l \in Seq(Descriptors) /\ l # << >>
        /\ Last(l).type = "segment" => Last(l).at \in DOMAIN y.job.lists
    BY <1>2, <2>2, JobAssumption
  <2>4. SGLChunks(l) \in Seq(Parts)
    <3> HIDE DEF l
    <3> QED BY <2>3, SGLChunksParts
  <2>5. y.walk.list \o SGLChunks(l) \in Seq(Parts)
    BY <1>2, <2>4
  <2>6. /\ w.list \in Seq(Parts)
        /\ w.next = IF Last(l).type = "segment" THEN Last(l).at ELSE 0
    <3> HIDE DEF l
    <3> QED BY <2>5 DEF SGLSegment, Walk
  <2> HIDE DEF w, l
  <2> QED BY <1>2, <2>1, <2>2, <2>3, <2>6, ListedIInv
<1> QED
  BY <1>3, <1>4, <1>5, <1>6

LEMMA MoveIInv ==
  ASSUME IInv, NEW t \in Transfers, Move(t)
  PROVE  IInv'
<1> DEFINE y  == x[t]
           ps == IF y.job.via = "sgl"
                 THEN SGLPieces(y.walk.list, y.job.offset, y.job.size)
                 ELSE Pieces(y.walk.list, y.job.offset, y.job.size)
           es == [i \in DOMAIN ps |-> Entry(t, ps[i].at, ps[i].to, ps[i].size)]
<1>1. /\ y.stage = "ready"
      /\ x' = [x EXCEPT ![t].counter = Len(es),
                        ![t].stage = IF es = << >> THEN "done" ELSE "moving"]
      /\ IF y.job.dir = "read"
         THEN reads' = DmaRead(reads, es, delay) /\ UNCHANGED writes
         ELSE writes' = DmaWrite(writes, es) /\ UNCHANGED reads
      /\ delay' = delay
  BY DEF Move
<1>2. Listing(y) /\ y.job \in Jobs /\ y.walk.list \in Seq(Parts)
  BY <1>1 DEF IInv, Listing
<1>3. y.job.offset \in Int /\ y.job.size \in Int /\ t \in Nat
  BY <1>2, JobAssumption, TransferAssumption DEF Transfers
<1>4. ps \in Seq(Asked)
  <2> HIDE DEF y
  <2> QED BY <1>2, <1>3, PiecesAsked, SGLPiecesAsked
<1>5. Accepted(es) \in Seq(Entries)
  <2> HIDE DEF ps
  <2> QED BY <1>3, <1>4, EntriesOf
<1> HIDE DEF es
<1>6. WritesOrderly(writes') /\ ReadsOrderly(reads')
  <2>1. WritesOrderly(writes) /\ ReadsOrderly(reads) /\ delay \in Nat
    BY DEF IInv
  <2>2. CASE y.job.dir = "read"
    BY <1>1, <1>5, <2>1, <2>2, DmaReadOrderly
  <2>3. CASE y.job.dir # "read"
    BY <1>1, <1>5, <2>1, <2>3, DmaWriteOrderly
  <2> QED BY <2>2, <2>3
<1>7. DOMAIN x' = Transfers /\ \A u \in Transfers : Listing(x'[u])
  <2> DEFINE n == Len(es)
             s == IF es = << >> THEN "done" ELSE "moving"
  <2>1. x' = [x EXCEPT ![t].counter = n, ![t].stage = s]
    BY <1>1
  <2>2. s \in {"done", "moving"}
    OBVIOUS
  <2> HIDE DEF n, s
  <2>3. DOMAIN x = Transfers /\ \A u \in Transfers : Listing(x[u])
    BY DEF IInv
  <2>4. DOMAIN x' = Transfers /\ \A u \in Transfers : u # t => x'[u] = x[u]
    BY <2>1, <2>3
  <2>5. x'[t] = [y EXCEPT !.counter = n, !.stage = s]
    BY <2>1, <2>3
  <2>6. DOMAIN x'[t] = Fields /\ x'[t].stage = s
    BY <1>2, <2>5 DEF Listing, Fields
  <2>7. Listing(x'[t])
    BY <2>2, <2>6 DEF Listing
  <2> QED BY <2>3, <2>4, <2>7
<1> QED
  BY <1>1, <1>6, <1>7 DEF IInv

\* The handler of a request leaves what is known of each transfer's list.
LEMMA HandlerListing ==
  ASSUME NEW y, DOMAIN y = Transfers, \A u \in Transfers : Listing(y[u]), NEW t
  PROVE  LET z == Handler(y, t)
         IN  DOMAIN z = Transfers /\ \A u \in Transfers : Listing(z[u])
<1> DEFINE z == Handler(y, t)
<1>1. CASE t = Nobody \/ t \notin Transfers
  BY <1>1 DEF Handler
<1>2. CASE t # Nobody /\ t \in Transfers
  <2> DEFINE v == IF y[t].stage = "list" THEN [y[t] EXCEPT !.stage = "parse"]
                  ELSE CommonDMAHandler(y[t])
  <2>1. z = [y EXCEPT ![t] = v]
    BY <1>2 DEF Handler
  <2>2. Listing(y[t])
    BY <1>2
  <2>3. Listing(v)
    <3>1. CASE y[t].stage = "list"
      BY <2>2, <3>1 DEF Listing, Fields
    <3>2. CASE y[t].stage # "list"
      <4> DEFINE c == y[t].counter - 1
                 s == IF y[t].counter = 1 THEN "done" ELSE y[t].stage
      <4>1. v = [y[t] EXCEPT !.counter = c, !.stage = s]
        BY <3>2 DEF CommonDMAHandler
      <4>2. s \in {"done", y[t].stage}
        OBVIOUS
      <4> HIDE DEF c, s, v
      <4>3. DOMAIN v = Fields /\ v.stage = s /\ v.job = y[t].job /\ v.walk = y[t].walk
        BY <2>2, <4>1 DEF Listing, Fields
      <4> QED BY <2>2, <4>2, <4>3 DEF Listing
    <3> QED BY <3>1, <3>2
  <2> HIDE DEF v, z
  <2> QED BY <2>1, <2>3 DEF z
<1> QED
  BY <1>1, <1>2

LEMMA CopiedListing ==
  ASSUME NEW y, DOMAIN y = Transfers, \A u \in Transfers : Listing(y[u]), NEW e
  PROVE  LET z == Copied(y, e)
         IN  DOMAIN z = Transfers /\ \A u \in Transfers : Listing(z[u])
<1> DEFINE z == Copied(y, e)
           new == y[e.t].moved \cup {<<e.to + k, e.at + k>> : k \in 0 .. e.size - 1}
<1>1. z = y \/ z = [y EXCEPT ![e.t].moved = new]
  BY DEF Copied
<1> HIDE DEF new, z
<1>2. DOMAIN z = Transfers /\ \A u \in Transfers : u # e.t => z[u] = y[u]
  BY <1>1
<1>3. ASSUME e.t \in Transfers, z = [y EXCEPT ![e.t].moved = new]
      PROVE  Listing(z[e.t])
  <2> DEFINE v == y[e.t]
  <2>1. Listing(v)
    BY <1>3
  <2>2. z[e.t] = [v EXCEPT !.moved = new]
    BY <1>3
  <2> HIDE DEF v
  <2>3. /\ DOMAIN z[e.t] = Fields /\ z[e.t].stage = v.stage
        /\ z[e.t].job = v.job /\ z[e.t].walk = v.walk
    BY <2>1, <2>2 DEF Listing, Fields
  <2> QED BY <2>1, <2>3 DEF Listing
<1> QED
  BY <1>1, <1>2, <1>3 DEF z

\* An event of the reads or of the writes.
LEMMA EventIInv ==
  ASSUME IInv, NEW r, NEW y,
         DOMAIN y = Transfers, \A u \in Transfers : Listing(y[u]),
         \/ Reads(r, y) /\ ReadsOrderly(r.q)
         \/ Writes(r, y) /\ WritesOrderly(r.q)
  PROVE  IInv'
<1>1. x' = Handler(y, r.calls) /\ delay' = delay
  BY DEF Reads, Writes
<1>2. DOMAIN x' = Transfers /\ \A u \in Transfers : Listing(x'[u])
  BY <1>1, HandlerListing
<1>3. WritesOrderly(writes') /\ ReadsOrderly(reads')
  BY DEF Reads, Writes, IInv
<1> QED
  BY <1>1, <1>2, <1>3 DEF IInv

LEMMA EventsIInv ==
  ASSUME IInv,
         \/ DoInsertWriteDone \/ DoTransferWrite \/ DoTransferWriteDone
         \/ DoTransferWriteDoneNext
         \/ DoTransferReadDone \/ DoInsertRead \/ DoInsertReadDone
         \/ DoInsertReadDoneNext
  PROVE  IInv'
<1>1. /\ WritesOrderly(writes) /\ ReadsOrderly(reads) /\ delay \in Nat
      /\ DOMAIN x = Transfers /\ \A u \in Transfers : Listing(x[u])
  BY DEF IInv
<1>2. \A e : LET z == Copied(x, e)
             IN  DOMAIN z = Transfers /\ \A u \in Transfers : Listing(z[u])
  BY <1>1, CopiedListing
<1>3. \A q : Quiet(q).q = q
  BY DEF Quiet
<1>a. CASE DoInsertWriteDone
  <2> DEFINE r == Quiet(InsertWriteDone(writes))
  <2>1. Writes(r, x) /\ WritesOrderly(r.q)
    BY <1>1, <1>3, <1>a, InsertWriteDoneOrderly DEF DoInsertWriteDone
  <2> HIDE DEF r
  <2> QED BY <1>1, <2>1, EventIInv
<1>b. CASE DoTransferWrite
  <2> DEFINE r == Quiet(TransferWrite([writes EXCEPT !.beginTransfer = None], delay))
  <2>1. WritesOrderly(TransferWrite([writes EXCEPT !.beginTransfer = None], delay))
    BY <1>1, <1>b, DoTransferWriteOrderly DEF DoTransferWrite
  <2>2. Writes(r, x) /\ WritesOrderly(r.q)
    BY <1>3, <1>b, <2>1 DEF DoTransferWrite
  <2> HIDE DEF r
  <2> QED BY <1>1, <2>2, EventIInv
<1>c. CASE DoTransferWriteDone
  <2> DEFINE r == TransferWriteDone(writes, delay)
             y == Copied(x, Head(writes.xfer))
  <2>1. Writes(r, y) /\ WritesOrderly(r.q)
    BY <1>1, <1>c, TransferWriteDoneOrderly DEF DoTransferWriteDone
  <2>2. DOMAIN y = Transfers /\ \A u \in Transfers : Listing(y[u])
    BY <1>2
  <2> HIDE DEF r, y
  <2> QED BY <2>1, <2>2, EventIInv
<1>d. CASE DoTransferWriteDoneNext
  <2> DEFINE r == TransferWriteDoneNext(writes, delay)
  <2>1. Writes(r, x) /\ WritesOrderly(r.q)
    BY <1>1, <1>d, TransferWriteDoneOrderly DEF DoTransferWriteDoneNext
  <2> HIDE DEF r
  <2> QED BY <1>1, <2>1, EventIInv
<1>e. CASE DoTransferReadDone
  <2> DEFINE r == TransferReadDone(reads, delay)
             y == Copied(x, Head(reads.wait))
  <2>1. Reads(r, y) /\ ReadsOrderly(r.q)
    BY <1>1, <1>e, TransferReadDoneOrderly DEF DoTransferReadDone
  <2>2. DOMAIN y = Transfers /\ \A u \in Transfers : Listing(y[u])
    BY <1>2
  <2> HIDE DEF r, y
  <2> QED BY <2>1, <2>2, EventIInv
<1>f. CASE DoInsertRead
  <2> DEFINE r == Quiet(InsertRead([reads EXCEPT !.beginTransfer = None]))
  <2>1. ReadsOrderly(InsertRead([reads EXCEPT !.beginTransfer = None]))
    BY <1>1, <1>f, DoInsertReadOrderly DEF DoInsertRead
  <2>2. Reads(r, x) /\ ReadsOrderly(r.q)
    BY <1>3, <1>f, <2>1 DEF DoInsertRead
  <2> HIDE DEF r
  <2> QED BY <1>1, <2>2, EventIInv
<1>g. CASE DoInsertReadDone
  <2> DEFINE r == InsertReadDone(reads, delay)
  <2>1. Reads(r, x) /\ ReadsOrderly(r.q)
    BY <1>1, <1>g, InsertReadDoneOrderly DEF DoInsertReadDone
  <2> HIDE DEF r
  <2> QED BY <1>1, <2>1, EventIInv
<1>h. CASE DoInsertReadDoneNext
  <2> DEFINE r == InsertReadDoneNext(reads, delay)
  <2>1. Reads(r, x) /\ ReadsOrderly(r.q)
    BY <1>1, <1>h, DoInsertReadDoneNextOrderly DEF DoInsertReadDoneNext
  <2> HIDE DEF r
  <2> QED BY <1>1, <2>1, EventIInv
<1> QED
  BY <1>a, <1>b, <1>c, <1>d, <1>e, <1>f, <1>g, <1>h

\* Time passes only when no event is due.
LEMMA TickIInv ==
  ASSUME IInv, Tick
  PROVE  IInv'
<1> DEFINE E == Events(reads) \o Events(writes)
<1>1. \A n : n \in ToSet(E) /\ n # None => n \in Pending
  BY DEF Pending
<1>2. 0 \notin ToSet(E)
  BY <1>1 DEF Tick, None
<1>3. /\ E[1] = reads.insertDone /\ E[2] = reads.beginTransfer
      /\ E[3] = reads.submitCompletion /\ E[4] = reads.upstream
      /\ E[5] = writes.insertDone /\ E[6] = writes.beginTransfer
      /\ E[7] = writes.submitCompletion /\ E[8] = writes.upstream
      /\ DOMAIN E = 1 .. 8
  BY DEF Events
<1> HIDE DEF E
<1>4. \A i \in 1 .. 8 : E[i] # 0
  BY <1>2, <1>3 DEF ToSet
<1>5. Calm(reads) /\ Calm(writes)
  BY <1>3, <1>4 DEF Calm
<1>6. reads' = Elapse(reads) /\ writes' = Elapse(writes) /\ x' = x /\ delay' = delay
  BY DEF Tick
<1>7. WritesOrderly(writes') /\ ReadsOrderly(reads')
  BY <1>5, <1>6, ElapseWritesOrderly, ElapseReadsOrderly DEF IInv
<1> QED
  BY <1>6, <1>7 DEF IInv

LEMMA NextIInv ==
  ASSUME IInv, [Next]_vars
  PROVE  IInv'
<1>1. ASSUME UNCHANGED vars PROVE IInv'
  BY <1>1 DEF vars, IInv
<1>2. ASSUME NEW t \in Transfers, Parse(t) \/ Move(t) \/ Start(t) PROVE IInv'
  BY <1>2, ParseIInv, MoveIInv, StartIInv
<1>3. ASSUME Run PROVE IInv'
  BY <1>2, <1>3, EventsIInv, TickIInv DEF Run
<1> QED
  BY <1>1, <1>2, <1>3 DEF Next, Rest

\* readCompletion holds at most one completion for each queued entry.
LEMMA FewCompletions ==
  ASSUME NEW q, ReadsOrderly(q)
  PROVE  Cardinality(q.completion) <= Len(q.xfer)
<1>1. /\ q.ids \in Nat /\ Len(q.xfer) \in Nat
      /\ \A c \in q.completion : c.id \in FirstId(q) .. q.ids - 1
      /\ \A c, k \in q.completion : c.id = k.id => c = k
  BY DEF ReadsOrderly, Queue
<1> DEFINE a == FirstId(q)
           b == q.ids - 1
           f == [c \in q.completion |-> c.id]
           n == Len(q.xfer)
<1>2. a \in Int /\ b \in Int /\ b - a + 1 = n /\ n \in Nat
  BY <1>1 DEF FirstId
<1>3. f \in [q.completion -> a .. b] /\ \A c, k \in q.completion : f[c] = f[k] => c = k
  BY <1>1
<1> HIDE DEF a, b, f, n
<1>4. f \in Injection(q.completion, a .. b)
  BY <1>3 DEF Injection, IsInjective
<1>5. IsFiniteSet(a .. b) /\ Cardinality(a .. b) = IF a > b THEN 0 ELSE b - a + 1
  BY <1>2, FS_Interval
<1>6. Cardinality(a .. b) = n
  BY <1>2, <1>5
<1>7. Cardinality(q.completion) <= n
  BY <1>4, <1>5, <1>6, FS_Injection
<1> QED
  BY <1>7 DEF n

\* What is queued for the two phases of the FIFO, and what is scheduled and
\* counted for it, agree at every step, whatever lists the transfers name.
THEOREM TransferInvariant == Spec => []IInv
<1>1. Init => IInv
  BY InitIInv
<1>2. IInv /\ [Next]_vars => IInv'
  BY NextIInv
<1> QED
  BY <1>1, <1>2, PTL DEF Spec

\* fifo.cc counts the space of what is queued, never takes the front of an
\* empty queue, and keeps completions only of entries that are queued: for
\* every capacity and unit, every speed of the bus and every list.
THEOREM FifoAccountsHold == Spec => []FifoAccounts
<1>1. IInv => FifoAccounts
  <2> SUFFICES ASSUME IInv PROVE FifoAccounts
    OBVIOUS
  <2>1. WritesOrderly(writes) /\ ReadsOrderly(reads)
    BY DEF IInv
  <2>2. /\ writes.usage = Space(writes.xfer)
        /\ writes.insertPending <=> writes.insertDone # None
        /\ writes.insertPending => writes.wait # << >>
        /\ writes.transferPending <=>
              (writes.upstream # None \/ writes.submitCompletion # None)
        /\ writes.transferPending \/ writes.beginTransfer # None <=> writes.xfer # << >>
    BY <2>1 DEF WritesOrderly, Begins, FrontFits
  <2>3. /\ reads.usage = Space(reads.xfer)
        /\ reads.transferPending <=> reads.upstream # None
        /\ reads.transferPending => reads.wait # << >>
        /\ reads.insertPending \/ reads.beginTransfer # None <=> reads.xfer # << >>
        /\ reads.insertDone # None \/ reads.submitCompletion # None
              => reads.insertPending
    BY <2>1 DEF ReadsOrderly, Begins, FrontFits
  <2>4. Cardinality(reads.completion) <= Len(reads.xfer)
    BY <2>1, FewCompletions
  <2> QED BY <2>2, <2>3, <2>4 DEF FifoAccounts
<1> QED
  BY <1>1, TransferInvariant, PTL

=============================================================================
