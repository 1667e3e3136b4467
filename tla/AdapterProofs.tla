---------------------------- MODULE AdapterProofs ----------------------------
(***************************************************************************)
(* Proofs about the SATA, UFS and open-channel devices, for every set of   *)
(* slots and requests and every workload.                                  *)
(*                                                                         *)
(* Accounted counts where a command is; the inductive invariants say it    *)
(* with quantifiers instead: whatever stands for a command (an entry of    *)
(* the queue, a context, a frame) names a slot the driver holds for it,    *)
(* and no two of them name the same one.                                   *)
(***************************************************************************)
EXTENDS HostAdapters, SeqLemmas, TLAPS

-----------------------------------------------------------------------------
(* Slots *)

\* A request is in one slot from its issue until it is answered.
Holding ==
    /\ held \in [Slots -> Requests \cup {0}]
    /\ status \in [Requests -> {"idle", "issued", "executed", "answered"}]
    /\ \A s, t \in Slots : held[s] = held[t] /\ held[s] # 0 => s = t
    /\ \A s \in Slots : held[s] # 0 => status[held[s]] \in {"issued", "executed"}

Has(s, x) == held[s] # 0 /\ status[held[s]] = x

LEMMA HoldingInit ==
  ASSUME CommonInit
  PROVE  Holding
BY SlotsAssumption DEF CommonInit, Holding

\* The driver issues a request: the slot was free and the others stay.
LEMMA PutHolds ==
  ASSUME Holding, NEW r \in Requests, NEW s \in Slots, Put(r, s)
  PROVE  /\ Holding'
         /\ held[s] = 0 /\ held'[s] = r /\ r # 0
         /\ status[r] = "idle" /\ status'[r] = "issued"
         /\ \A t \in Slots \ {s} :
               /\ held'[t] = held[t]
               /\ held[t] # 0 => status'[held[t]] = status[held[t]] /\ held[t] # r
         /\ \A q \in Requests \ {r} : status'[q] = status[q]
BY SlotsAssumption DEF Put, Holding

\* The driver takes back slots whose requests are executed.
LEMMA TakeBackHolds ==
  ASSUME Holding, NEW done \in SUBSET Slots, TakeBack(done),
         \A s \in done : Has(s, "executed")
  PROVE  /\ Holding'
         /\ \A s \in done : held'[s] = 0 /\ status'[held[s]] = "answered"
         /\ \A t \in Slots \ done :
               /\ held'[t] = held[t]
               /\ held[t] # 0 => status'[held[t]] = status[held[t]]
         /\ \A q \in Requests :
               \/ status'[q] = status[q]
               \/ status[q] = "executed" /\ status'[q] = "answered"
BY SlotsAssumption DEF TakeBack, Holding, Has

\* A command is executed.
LEMMA ExecuteHolds ==
  ASSUME Holding, NEW r \in Requests, status[r] = "issued", UNCHANGED held,
         status' = [status EXCEPT ![r] = "executed"]
  PROVE  /\ Holding'
         /\ status'[r] = "executed"
         /\ \A q \in Requests \ {r} : status'[q] = status[q]
BY SlotsAssumption DEF Holding

\* What these three are to the service.
LEMMA PutServes ==
  ASSUME Holding, NEW r \in Requests, NEW s \in Slots, Put(r, s)
  PROVE  Service!Next
<1>1. Service!Issue(r)
  BY DEF Holding, Put, Service!Issue, Service!Move
<1> QED BY <1>1 DEF Service!Next

LEMMA ExecuteServes ==
  ASSUME Holding, NEW r \in Requests, status[r] = "issued",
         status' = [status EXCEPT ![r] = "executed"]
  PROVE  Service!Next
<1>1. Service!Execute(r)
  BY DEF Holding, Service!Execute, Service!Move
<1> QED BY <1>1 DEF Service!Next

LEMMA TakeBackServes ==
  ASSUME Holding, NEW done \in SUBSET Slots, TakeBack(done),
         \A s \in done : Has(s, "executed")
  PROVE  status' = status \/ Service!Next
<1> DEFINE R == {held[s] : s \in done}
<1>1. R \in SUBSET Requests /\ \A r \in R : status[r] = "executed"
  BY DEF Holding, Has
<1>2. status' = [r \in Requests |-> IF r \in R THEN "answered" ELSE status[r]]
  BY DEF TakeBack
<1>3. CASE R = {}
  BY <1>2, <1>3 DEF Holding
<1>4. CASE R # {}
  <2> HIDE DEF R
  <2>1. Service!Answer(R)
    BY <1>1, <1>2, <1>4 DEF Service!Answer, Service!Move
  <2> QED BY <1>1, <2>1 DEF Service!Next
<1> QED BY <1>3, <1>4

\* A set whose elements are all the same has at most one.
LEMMA AtMostOne ==
  ASSUME NEW Z, \A x, y \in Z : x = y
  PROVE  /\ Z = {} => Cardinality(Z) = 0
         /\ Z # {} => Cardinality(Z) = 1
<1>1. CASE Z = {}
  BY <1>1, FS_EmptySet
<1>2. CASE Z # {}
  <2>1. PICK x : Z = {x}
    BY <1>2
  <2> QED BY <1>2, <2>1, FS_Singleton
<1> QED BY <1>1, <1>2

\* Only the empty sequence has no elements.
LEMMA EmptyLen ==
  ASSUME NEW Z, NEW q \in Seq(Z)
  PROVE  q = << >> <=> Len(q) = 0
BY EmptySeq

-----------------------------------------------------------------------------
(* UFS *)

UStages == {"nand", "data", "cpu", "response", "descriptor"}

\* What is left of a command: the descriptor is its last stage, and only that.
UEnds(stage, rest) ==
    /\ stage \in UStages /\ rest \in Seq(UStages)
    /\ rest = << >> <=> stage = "descriptor"
    /\ rest # << >> => rest[Len(rest)] = "descriptor"
    /\ \A i \in 1 .. Len(rest) - 1 : rest[i] # "descriptor"

UContext(c) ==
    /\ c \in [slot : Slots, req : Requests,
              stage : {"header", "fetch"} \cup UStages, rest : Seq(UStages),
              need : SUBSET {"request", "prdt"}]
    /\ held[c.slot] = c.req /\ status[c.req] = "issued"
    /\ c.stage \in UStages => UEnds(c.stage, c.rest)

URegisters == [utrldbr : SUBSET Slots, pending : SUBSET Slots,
               is : SUBSET {"utp", "uic"}, seen : SUBSET {"utp", "uic"},
               counter : Nat, uic : Nat]

UType ==
    /\ boot \in {"off", "linking", "ready"}
    /\ requestQueue \in Seq(Slots) /\ responses \in Seq(Slots)
    /\ reg \in URegisters
    /\ line \in BOOLEAN /\ irq \in {"idle", "seen", "collect"}
    /\ cmd \in [Requests -> U!Kinds]

\* The queue, the contexts and the completions: each names a slot in use, and
\* none names the slot of another.
UQueue ==
    \A i \in DOMAIN requestQueue :
        /\ Has(requestQueue[i], "issued")
        /\ \A j \in DOMAIN requestQueue : requestQueue[i] = requestQueue[j] => i = j
        /\ \A c \in contexts : c.slot # requestQueue[i]
UContexts ==
    \A c \in contexts : UContext(c) /\ \A d \in contexts : c.slot = d.slot => c = d
UIssued ==
    \A s \in Slots : Has(s, "issued") =>
        \/ \E i \in DOMAIN requestQueue : requestQueue[i] = s
        \/ \E c \in contexts : c.slot = s
UResponses ==
    \A i \in DOMAIN responses :
        /\ Has(responses[i], "executed")
        /\ \A j \in DOMAIN responses : responses[i] = responses[j] => i = j
UDoorbell ==
    /\ reg.pending = reg.utrldbr
    /\ \A s \in Slots : s \in reg.utrldbr <=>
          Has(s, "issued") \/ \E i \in DOMAIN responses : responses[i] = s

UCommands == UType /\ Holding /\ UQueue /\ UContexts /\ UIssued /\ UResponses /\ UDoorbell

\* The events and the interrupt.
UCalls ==
    /\ events \subseteq {"work", "request", "completion"}
    /\ ~("work" \in events /\ "request" \in events)
    /\ boot = "off" => "work" \notin events /\ "request" \notin events
    /\ boot # "off" => "work" \in events \/ "request" \in events
    /\ responses # << >> => "completion" \in events
    /\ reg.is # {} => line \/ irq # "idle"
    /\ boot = "off" => "uic" \notin reg.is \cup reg.seen

UInv == UCommands /\ UCalls

\* What UFS and CommandSlots call by the same name is the same.
LEMMA USame ==
    /\ U!CommonInit <=> CommonInit
    /\ U!Outstanding = Outstanding
    /\ \A r, s : U!Put(r, s) <=> Put(r, s)
    /\ \A done : U!TakeBack(done) <=> TakeBack(done)
    /\ \A s, r, stage, rest, need :
          U!Context(s, r, stage, rest, need) = Context(s, r, stage, rest, need)
    /\ \A s, r, path : U!Enter(s, r, path) = Enter(s, r, path)
    /\ \A e, n : U!TakeRequest(e, n) <=> TakeRequest(e, n)
BY DEF U!CommonInit, CommonInit, U!Outstanding, Outstanding, U!Put, Put, U!TakeBack,
       TakeBack, U!Context, Context, U!Enter, Enter, U!TakeRequest, TakeRequest

LEMMA UInitHolds ==
  ASSUME U!UFSInit
  PROVE  UInv
<1>1. CommonInit /\ Holding
  BY USame, HoldingInit DEF U!UFSInit
<1>2. cmd \in [Requests -> U!Kinds]
  BY AdapterAssumption DEF U!UFSInit
<1>3. \A s \in Slots : held[s] = 0
  BY <1>1 DEF CommonInit
<1>4. UType
  <2>1. requestQueue = << >> /\ responses = << >> /\ << >> \in Seq(Slots)
    BY <1>1 DEF CommonInit
  <2>2. reg \in URegisters
    BY DEF U!UFSInit, URegisters
  <2> QED BY <1>1, <1>2, <2>1, <2>2 DEF UType, CommonInit
<1>5. UCalls
  BY <1>1 DEF U!UFSInit, UCalls, CommonInit
<1>6. UQueue /\ UContexts /\ UIssued /\ UResponses /\ UDoorbell
  BY <1>1, <1>3 DEF U!UFSInit, UQueue, UContexts, UIssued, UResponses, UDoorbell, CommonInit, Has
<1> QED BY <1>1, <1>4, <1>5, <1>6 DEF UInv, UCommands

\* Stages to go: they end with the descriptor, and only there.
UPath(p) ==
    /\ p \in Seq(UStages) /\ p # << >>
    /\ p[Len(p)] = "descriptor"
    /\ \A i \in 1 .. Len(p) - 1 : p[i] # "descriptor"

LEMMA UEnter ==
  ASSUME NEW p, UPath(p)
  PROVE  UEnds(Head(p), Tail(p))
<1>1. /\ Head(p) = p[1] /\ Head(p) \in UStages
      /\ Tail(p) \in Seq(UStages) /\ Len(Tail(p)) = Len(p) - 1
      /\ Len(p) \in Nat \ {0}
      /\ \A i \in 1 .. Len(p) - 1 : Tail(p)[i] = p[i + 1]
  BY DEF UPath
<1>2. Tail(p) = << >> <=> Len(p) = 1
  <2> DEFINE t == Tail(p)
  <2>1. t \in Seq(UStages) /\ Len(t) = Len(p) - 1
    BY <1>1
  <2> HIDE DEF t
  <2>2. t = << >> <=> Len(t) = 0
    BY <2>1, EmptyLen
  <2>3. t = << >> <=> Len(p) = 1
    BY <1>1, <2>1, <2>2
  <2> QED BY <2>3 DEF t
<1>3. Tail(p) # << >> => Tail(p)[Len(Tail(p))] = "descriptor"
  BY <1>1, <1>2 DEF UPath
<1>4. \A i \in 1 .. Len(Tail(p)) - 1 : Tail(p)[i] # "descriptor"
  <2> TAKE i \in 1 .. Len(Tail(p)) - 1
  <2>1. i + 1 \in 1 .. Len(p) - 1 /\ i \in 1 .. Len(p) - 1
    BY <1>1
  <2> QED BY <1>1, <2>1 DEF UPath
<1>5. Tail(p) = << >> <=> Head(p) = "descriptor"
  <2>1. CASE Len(p) = 1
    BY <2>1, <1>1, <1>2 DEF UPath
  <2>2. CASE Len(p) # 1
    <3>1. 1 \in 1 .. Len(p) - 1
      BY <1>1, <2>2
    <3> QED BY <1>1, <1>2, <2>2, <3>1 DEF UPath
  <2> QED BY <2>1, <2>2
<1> QED BY <1>1, <1>3, <1>4, <1>5 DEF UEnds

LEMMA URest ==
  ASSUME NEW stage, NEW rest, UEnds(stage, rest), rest # << >>
  PROVE  UPath(rest)
BY DEF UEnds, UPath

LEMMA UPathOf ==
  ASSUME NEW k \in U!Kinds
  PROVE  UPath(U!Path(k))
<1> DEFINE w == U!Work(k)
           e == <<"response", "descriptor">>
<1>1. w \in Seq({"nand", "data", "cpu"})
  <2>1. w \in {<< >>, <<"cpu">>, <<"data", "cpu">>, <<"nand", "cpu">>,
               <<"nand", "data", "cpu">>, <<"data", "nand", "cpu">>}
    <3> USE DEF U!Work, U!ProcessNOP, U!ProcessQueryCommand, U!Inquiry, U!ModeSense,
                U!Parameters, U!ReadCapacity, U!ReportLUNs, U!JustResponse, U!Verify,
                U!SynchronizeCache, U!Read, U!Write
    <3>1. CASE k \in {"nop", "query", "status", "verify"}
      BY <3>1
    <3>2. CASE k \in {"inquiry", "modeSense", "capacity", "luns"}
      BY <3>2
    <3>3. CASE k \in {"flush", "read", "write"}
      BY <3>3
    <3> QED BY <3>1, <3>2, <3>3 DEF U!Kinds
  <2>2. \A x, y, z \in {"nand", "data", "cpu"} :
           /\ << >> \in Seq({"nand", "data", "cpu"})
           /\ <<x>> \in Seq({"nand", "data", "cpu"})
           /\ <<x, y>> \in Seq({"nand", "data", "cpu"})
           /\ <<x, y, z>> \in Seq({"nand", "data", "cpu"})
    OBVIOUS
  <2> HIDE DEF w
  <2> QED BY <2>1, <2>2
<1> HIDE DEF w
<1>2. /\ w \o e \in Seq(UStages) /\ Len(w \o e) = Len(w) + 2 /\ Len(w) \in Nat
      /\ \A i \in 1 .. Len(w) : (w \o e)[i] = w[i]
      /\ (w \o e)[Len(w) + 1] = "response" /\ (w \o e)[Len(w) + 2] = "descriptor"
  <2>1. w \in Seq(UStages) /\ e \in Seq(UStages) /\ Len(e) = 2
    BY <1>1 DEF UStages
  <2> QED BY <2>1
<1>3. \A i \in 1 .. Len(w) : w[i] # "descriptor"
  BY <1>1
<1>4. UPath(w \o e)
  BY <1>2, <1>3 DEF UPath
<1> QED BY <1>4 DEF U!Path, w

\* The loop over the bits of the doorbell queues the one bit that is new.
LEMMA EnqueueOne ==
  ASSUME NEW s \in Slots, requestQueue \in Seq(Slots)
  PROVE  U!Enqueue({s}) = Append(requestQueue, s)
<1> DEFINE bits == {s}
           N == 32
           sq == [i \in 1 .. N |-> i]
           op(q, i) == IF i - 1 \in bits THEN Append(q, i - 1) ELSE q
           X == Seq(Slots)
           late == Append(requestQueue, s)
           base == requestQueue
           G == [z \in X \X (1 .. N) |-> op(z[1], z[2])]
           P == [k \in 0 .. N |-> IF k <= s THEN {base} ELSE {late}]
           body(f) == [Z \in SUBSET (1 .. N) |->
                          IF Z = {} THEN base
                          ELSE op(f[Z \ {Max(Z)}], sq[Max(Z)])]
           F == CHOOSE f : f = body(f)
<1>0. /\ s \in 0 .. 31 /\ base \in X /\ late \in X /\ N \in Nat /\ N = 32
      /\ late = Append(base, s)
  BY SlotsAssumption
<1>1. U!Enqueue({s}) = F[1 .. N]
  BY DEF U!Enqueue, U!FoldLeft, U!MapThenFoldSet, U!Max, Max
<1>2. ASSUME NEW q \in X, NEW i \in 1 .. N PROVE op(q, i) \in X
  OBVIOUS
<1>13. ASSUME NEW q, NEW i PROVE op(q, i) = IF i - 1 = s THEN Append(q, s) ELSE q
  OBVIOUS
<1> HIDE DEF op, X, N, late, base
<1>3. G \in [X \X (1 .. N) -> X]
  BY <1>2
<1>4. PICK f \in [SUBSET (1 .. N) -> X] : Folded(f, G, base, N)
  <2> HIDE DEF G
  <2> QED BY <1>0, <1>3, FoldExists
<1>5. f = body(f)
  <2> SUFFICES ASSUME NEW Z \in SUBSET (1 .. N)
               PROVE  f[Z] = IF Z = {} THEN base
                             ELSE op(f[Z \ {Max(Z)}], sq[Max(Z)])
    OBVIOUS
  <2>1. f[Z] = IF Z = {} THEN base ELSE G[<<f[Z \ {Max(Z)}], Max(Z)>>]
    BY <1>4 DEF Folded
  <2>2. CASE Z # {}
    <3>1. Max(Z) \in 1 .. N /\ f[Z \ {Max(Z)}] \in X
      BY <1>0, <2>2, MaxOfIndices
    <3> QED
      BY <2>1, <2>2, <3>1
  <2> QED
    BY <2>1, <2>2
<1>6. F = body(F)
  BY <1>5
<1> HIDE DEF F
<1>7. F[{}] = base
  BY <1>6
<1>8. ASSUME NEW k \in 1 .. N, F[1 .. k - 1] \in X
      PROVE  F[1 .. k] = G[<<F[1 .. k - 1], k>>]
  <2>1. /\ Max(1 .. k) = k /\ (1 .. k) \ {k} = 1 .. k - 1 /\ 1 .. k # {}
        /\ 1 .. k \in SUBSET (1 .. N)
    <3>1. k \in Nat \ {0} /\ 1 .. k \in SUBSET (1 .. N)
      BY <1>0
    <3> QED
      BY <3>1, LastIndex
  <2>2. F[1 .. k] = op(F[1 .. k - 1], k)
    BY <1>6, <2>1
  <2> QED
    BY <1>8, <2>2
<1>9. base \in P[0]
  BY <1>0
<1>10. ASSUME NEW k \in 1 .. N, NEW y \in P[k - 1] PROVE G[<<y, k>>] \in P[k]
  <2>1. k - 1 \in 0 .. N /\ k \in 0 .. N
    BY <1>0
  <2>5. y \in X /\ y = IF k - 1 <= s THEN base ELSE late
    BY <1>0, <1>10, <2>1
  <2>2. G[<<y, k>>] = op(y, k)
    BY <2>1, <2>5
  <2>3. CASE k - 1 = s
    <3>2. k - 1 <= s /\ ~(k <= s)
      BY <1>0, <2>1, <2>3
    <3>3. op(y, k) = Append(y, s) /\ y = base
      BY <1>13, <2>3, <2>5, <3>2
    <3>1. op(y, k) = late /\ ~(k <= s)
      BY <1>0, <3>2, <3>3
    <3> QED BY <2>1, <2>2, <3>1
  <2>4. CASE k - 1 # s
    <3>1. op(y, k) = y
      BY <2>4, <1>13
    <3>2. k - 1 <= s <=> k <= s
      BY <1>0, <2>4
    <3> QED BY <2>1, <2>2, <2>5, <3>1, <3>2
  <2> QED BY <2>3, <2>4
<1>11. P \in [0 .. N -> SUBSET X]
  BY <1>0
<1> HIDE DEF G
<1>12. F[1 .. N] \in P[N]
  <2>1. Steps(F, G, X, N)
    BY <1>8 DEF Steps
  <2> HIDE DEF P
  <2>2. Leads(G, P, N)
    BY <1>10 DEF Leads
  <2> QED
    BY <1>0, <1>7, <1>9, <1>11, <2>1, <2>2, FoldReaches
<1>14. F[1 .. N] = late
  BY <1>0, <1>12
<1> QED BY <1>1, <1>14 DEF late

\* A command goes from one stage to the next.
LEMMA UMoves ==
  ASSUME UCommands, NEW c \in contexts, NEW d, UContext(d), d.slot = c.slot,
         contexts' = (contexts \ {c}) \cup {d},
         UNCHANGED <<boot, requestQueue, responses, reg, line, irq, held, cmd, status>>
  PROVE  UCommands'
<1>1. UType' /\ Holding' /\ UResponses' /\ UDoorbell'
  BY DEF UCommands, UType, Holding, UResponses, UDoorbell, Has
<1>2. \A e : UContext(e)' <=> UContext(e)
  BY DEF UContext
<1>3. UContexts'
  BY <1>2 DEF UCommands, UContexts
<1>4. UQueue' /\ UIssued'
  BY DEF UCommands, UQueue, UIssued, Has
<1> QED BY <1>1, <1>3, <1>4 DEF UCommands

\* A command whose descriptor is written is executed and has its completion
\* queued.
LEMMA UFinishes ==
  ASSUME UCommands, NEW c \in contexts, contexts' = contexts \ {c},
         status' = [status EXCEPT ![c.req] = "executed"],
         responses' = Append(responses, c.slot),
         UNCHANGED <<boot, requestQueue, reg, line, irq, held, cmd>>
  PROVE  UCommands'
<1> DEFINE s == c.slot
           r == c.req
<1>0. /\ UType /\ Holding /\ UQueue /\ UContexts /\ UIssued /\ UResponses /\ UDoorbell
  BY DEF UCommands
<1>1. /\ s \in Slots /\ r \in Requests /\ held[s] = r /\ r # 0 /\ status[r] = "issued"
  BY <1>0, SlotsAssumption DEF UContexts, UContext
<1>2. /\ Holding' /\ status'[r] = "executed"
      /\ \A q \in Requests \ {r} : status'[q] = status[q]
  BY <1>0, <1>1, ExecuteHolds
<1>3. /\ Has(s, "executed")' /\ ~Has(s, "issued")' /\ Has(s, "issued") /\ ~Has(s, "executed")
      /\ \A x : \A t \in Slots \ {s} : Has(t, x)' <=> Has(t, x)
  <2>1. \A t \in Slots \ {s} : held[t] # 0 => held[t] \in Requests \ {r}
    BY <1>0, <1>1 DEF Holding
  <2> QED BY <1>1, <1>2, <2>1 DEF Has
<1>4. /\ responses \in Seq(Slots) /\ requestQueue \in Seq(Slots)
      /\ responses' \in Seq(Slots) /\ Len(responses') = Len(responses) + 1
      /\ Len(responses) \in Nat
      /\ responses'[Len(responses) + 1] = s
      /\ \A i \in 1 .. Len(responses) : responses'[i] = responses[i]
      /\ DOMAIN responses = 1 .. Len(responses)
      /\ DOMAIN responses' = 1 .. Len(responses) + 1
  BY <1>0, <1>1 DEF UType
<1>5. \A i \in DOMAIN responses : responses[i] # s /\ responses[i] \in Slots
  BY <1>0, <1>3, <1>4 DEF UResponses
<1>6. UResponses'
  <2>1. \A i \in DOMAIN responses' : i \in DOMAIN responses \/ i = Len(responses) + 1
    BY <1>4
  <2>2. ASSUME NEW i \in DOMAIN responses'
        PROVE  Has(responses[i], "executed")'
    <3>1. CASE i \in DOMAIN responses
      BY <1>0, <1>3, <1>4, <1>5, <3>1 DEF UResponses
    <3>2. CASE i = Len(responses) + 1
      BY <1>3, <1>4, <3>2
    <3> QED BY <2>1, <3>1, <3>2
  <2>3. ASSUME NEW i \in DOMAIN responses', NEW j \in DOMAIN responses',
               responses'[i] = responses'[j]
        PROVE  i = j
    BY <1>0, <1>4, <1>5, <2>1, <2>3 DEF UResponses
  <2> QED BY <2>2, <2>3 DEF UResponses
<1>7. UType'
  BY <1>0, <1>4 DEF UType
<1>8. UQueue'
  <2>1. \A i \in DOMAIN requestQueue : requestQueue[i] # s /\ requestQueue[i] \in Slots
    BY <1>0, <1>4 DEF UQueue
  <2> QED BY <1>0, <1>3, <2>1 DEF UQueue
<1>9. UContexts'
  <2>1. \A d \in contexts \ {c} : d.slot # s /\ UContext(d)
    BY <1>0 DEF UContexts
  <2>2. \A d \in contexts \ {c} : UContext(d)'
    <3> TAKE d \in contexts \ {c}
    <3>1. UContext(d) /\ d.slot # s /\ d.slot \in Slots /\ d.req \in Requests /\ held[d.slot] = d.req
      BY <2>1 DEF UContext
    <3>2. d.req # r
      BY <1>0, <1>1, <3>1 DEF Holding
    <3> QED BY <1>2, <3>1, <3>2 DEF UContext
  <2> QED BY <1>0, <2>2 DEF UContexts
<1>10. UIssued'
  BY <1>0, <1>3 DEF UIssued
<1>11. UDoorbell'
  <2>1. \A t \in Slots :
           (\E i \in DOMAIN responses' : responses'[i] = t)
             <=> t = s \/ \E i \in DOMAIN responses : responses[i] = t
    BY <1>4
  <2> QED BY <1>0, <1>3, <2>1 DEF UDoorbell
<1> QED BY <1>2, <1>6, <1>7, <1>8, <1>9, <1>10, <1>11 DEF UCommands

\* What Tail leaves of a queue.
LEMMA TailOf ==
  ASSUME NEW Z, NEW q \in Seq(Z), q # << >>
  PROVE  /\ Tail(q) \in Seq(Z) /\ Head(q) = q[1] /\ Head(q) \in Z
         /\ DOMAIN q = 1 .. Len(q) /\ Len(q) \in Nat \ {0} /\ 1 \in DOMAIN q
         /\ DOMAIN Tail(q) = 1 .. Len(q) - 1
         /\ \A i \in DOMAIN Tail(q) :
               i + 1 \in DOMAIN q /\ i + 1 # 1 /\ Tail(q)[i] = q[i + 1]
         /\ \A i \in DOMAIN q : i # 1 => i - 1 \in DOMAIN Tail(q) /\ Tail(q)[i - 1] = q[i]
<1>1. Len(q) \in Nat \ {0} /\ Tail(q) \in Seq(Z) /\ Len(Tail(q)) = Len(q) - 1
  BY EmptySeq
<1>2. \A i \in 1 .. Len(q) - 1 : Tail(q)[i] = q[i + 1]
  OBVIOUS
<1>3. DOMAIN Tail(q) = 1 .. Len(q) - 1
  BY <1>1
<1>4. Head(q) = q[1] /\ q[1] \in Z /\ DOMAIN q = 1 .. Len(q) /\ 1 \in DOMAIN q
  BY <1>1
<1>5. ASSUME NEW i \in DOMAIN Tail(q)
      PROVE  i + 1 \in DOMAIN q /\ i + 1 # 1 /\ Tail(q)[i] = q[i + 1]
  BY <1>1, <1>2, <1>3, <1>4
<1>6. ASSUME NEW i \in DOMAIN q, i # 1
      PROVE  i - 1 \in DOMAIN Tail(q) /\ Tail(q)[i - 1] = q[i]
  <2>1. i - 1 \in 1 .. Len(q) - 1 /\ (i - 1) + 1 = i
    BY <1>1, <1>4, <1>6
  <2> QED BY <1>2, <1>3, <2>1
<1> QED BY <1>1, <1>3, <1>4, <1>5, <1>6

\* What Append adds to a queue.
LEMMA AppendTo ==
  ASSUME NEW Z, NEW q \in Seq(Z), NEW e \in Z
  PROVE  /\ Append(q, e) \in Seq(Z)
         /\ Len(q) + 1 \in DOMAIN Append(q, e) /\ Append(q, e)[Len(q) + 1] = e
         /\ \A i \in DOMAIN Append(q, e) : i \in DOMAIN q \/ i = Len(q) + 1
         /\ \A i \in DOMAIN q :
               /\ i \in DOMAIN Append(q, e) /\ i # Len(q) + 1
               /\ Append(q, e)[i] = q[i] /\ q[i] \in Z
         /\ DOMAIN q = 1 .. Len(q) /\ Len(q) \in Nat
<1>1. /\ Append(q, e) \in Seq(Z) /\ Len(Append(q, e)) = Len(q) + 1 /\ Len(q) \in Nat
      /\ DOMAIN q = 1 .. Len(q) /\ DOMAIN Append(q, e) = 1 .. Len(q) + 1
      /\ Append(q, e)[Len(q) + 1] = e
      /\ \A i \in 1 .. Len(q) : Append(q, e)[i] = q[i] /\ q[i] \in Z
  OBVIOUS
<1> QED BY <1>1

\* The queue of a poll: its first slot becomes a context.
Fetches(q, d) ==
    IF requestQueue = << >> THEN q = << >> /\ d = {}
    ELSE /\ q = Tail(requestQueue)
         /\ d = {Context(Head(requestQueue), held[Head(requestQueue)], "header", << >>, {})}

\* A poll takes one slot of the queue.
LEMMA UTakes ==
  ASSUME UCommands, NEW d, Fetches(requestQueue', d), contexts' = contexts \cup d,
         reg' = [reg EXCEPT !.counter = reg'.counter], reg'.counter \in Nat,
         UNCHANGED <<boot, responses, line, irq, held, cmd, status>>
  PROVE  UCommands'
<1>0. /\ UType /\ Holding /\ UQueue /\ UContexts /\ UIssued /\ UResponses /\ UDoorbell
  BY DEF UCommands
<1>1. /\ reg' \in URegisters
      /\ reg'.utrldbr = reg.utrldbr /\ reg'.pending = reg.pending
  <2> DEFINE n == reg'.counter
             new == [reg EXCEPT !.counter = n]
  <2>1. n \in Nat /\ reg' = new
    OBVIOUS
  <2> HIDE DEF n
  <2>2. /\ new \in URegisters
        /\ new.utrldbr = reg.utrldbr /\ new.pending = reg.pending
    BY <1>0, <2>1 DEF UType, URegisters
  <2> QED BY <2>1, <2>2
<1>2. Holding' /\ UResponses' /\ UDoorbell'
  BY <1>0, <1>1 DEF Holding, UResponses, UDoorbell, Has
<1>3. \A e : UContext(e)' <=> UContext(e)
  BY DEF UContext
<1>4. CASE requestQueue = << >>
  <2>1. requestQueue' = requestQueue /\ contexts' = contexts
    BY <1>4 DEF Fetches
  <2>2. UType' /\ UQueue' /\ UContexts' /\ UIssued'
    BY <1>0, <1>1, <1>3, <2>1 DEF UType, UQueue, UContexts, UIssued, Has
  <2> QED BY <1>2, <2>2 DEF UCommands
<1>5. CASE requestQueue # << >>
  <2> DEFINE q == requestQueue
             s == Head(q)
             c == Context(s, held[s], "header", << >>, {})
  <2>1. /\ Tail(q) \in Seq(Slots) /\ s = q[1] /\ s \in Slots
        /\ DOMAIN q = 1 .. Len(q) /\ 1 \in DOMAIN q
        /\ \A i \in DOMAIN Tail(q) :
              i + 1 \in DOMAIN q /\ i + 1 # 1 /\ Tail(q)[i] = q[i + 1]
        /\ \A i \in DOMAIN q : i # 1 => i - 1 \in DOMAIN Tail(q) /\ Tail(q)[i - 1] = q[i]
    <3>1. q \in Seq(Slots)
      BY <1>0 DEF UType
    <3> HIDE DEF q
    <3> QED BY <1>5, <3>1, TailOf DEF q
  <2>2. q' = Tail(q) /\ contexts' = contexts \cup {c}
    BY <1>5 DEF Fetches
  <2>3. Has(s, "issued") /\ held[s] \in Requests /\ \A d1 \in contexts : d1.slot # s
    BY <1>0, <2>1 DEF UQueue, Has, Holding
  <2>4. UContext(c) /\ c.slot = s
    BY <2>1, <2>3 DEF UContext, Context, Has, UStages
  <2>5. \A i \in DOMAIN q' : i + 1 \in DOMAIN q /\ q'[i] = q[i + 1] /\ q'[i] # s
    BY <1>0, <2>1, <2>2 DEF UQueue
  <2> HIDE DEF c, s
  <2>6. UQueue'
    <3>1. ASSUME NEW i \in DOMAIN q', NEW j \in DOMAIN q', q'[i] = q'[j] PROVE i = j
      <4>1. i + 1 = j + 1
        BY <1>0, <2>5, <3>1 DEF UQueue
      <4>2. i \in Int /\ j \in Int
        BY <2>1, <2>2
      <4> QED BY <4>1, <4>2
    <3>2. \A i \in DOMAIN q' : \A d1 \in contexts' : d1.slot # q'[i]
      BY <1>0, <2>2, <2>4, <2>5 DEF UQueue
    <3>3. \A i \in DOMAIN q' : Has(q'[i], "issued")
      BY <1>0, <2>5 DEF UQueue
    <3> QED BY <3>1, <3>2, <3>3 DEF UQueue, Has
  <2>7. UContexts'
    BY <1>0, <1>3, <2>2, <2>3, <2>4 DEF UContexts
  <2>8. UIssued'
    <3> SUFFICES ASSUME NEW t \in Slots, Has(t, "issued")
                 PROVE  \/ \E i \in DOMAIN q' : q'[i] = t
                        \/ \E d1 \in contexts' : d1.slot = t
      BY DEF UIssued, Has
    <3>1. CASE \E d1 \in contexts : d1.slot = t
      BY <2>2, <3>1
    <3>2. CASE \E i \in DOMAIN q : q[i] = t
      <4>1. PICK i \in DOMAIN q : q[i] = t
        BY <3>2
      <4>2. CASE i = 1
        BY <2>1, <2>2, <2>4, <4>1, <4>2
      <4>3. CASE i # 1
        BY <2>1, <2>2, <4>1, <4>3
      <4> QED BY <4>2, <4>3
    <3> QED BY <1>0, <3>1, <3>2 DEF UIssued
  <2>9. UType'
    BY <1>0, <1>1, <2>1, <2>2 DEF UType
  <2> QED BY <1>2, <2>6, <2>7, <2>8, <2>9 DEF UCommands
<1> QED BY <1>4, <1>5

\* The driver rings the doorbell of a free slot.
LEMMA UPuts ==
  ASSUME UCommands, NEW r \in Requests, NEW s \in Slots, U!Issue(r, s)
  PROVE  UCommands' /\ Put(r, s)
<1> DEFINE q == requestQueue
           bits == reg.utrldbr \cup {s}
           new == [reg EXCEPT !.utrldbr = bits, !.pending = reg.pending \cup bits]
<1>0. /\ UType /\ Holding /\ UQueue /\ UContexts /\ UIssued /\ UResponses /\ UDoorbell
  BY DEF UCommands
<1>1. Put(r, s) /\ UNCHANGED <<boot, contexts, responses, line, irq, cmd>>
  BY USame DEF U!Issue
<1>2. /\ Holding'
      /\ held[s] = 0 /\ held'[s] = r /\ r # 0
      /\ status[r] = "idle" /\ status'[r] = "issued"
      /\ \A t \in Slots \ {s} :
            /\ held'[t] = held[t]
            /\ held[t] # 0 => status'[held[t]] = status[held[t]] /\ held[t] # r
      /\ \A p \in Requests \ {r} : status'[p] = status[p]
  BY <1>0, <1>1, PutHolds
<1>3. /\ Has(s, "issued")'
      /\ \A x : ~Has(s, x)
      /\ \A x : \A t \in Slots \ {s} : Has(t, x)' <=> Has(t, x)
  BY <1>2 DEF Has
<1>4. s \notin reg.pending /\ reg.pending = reg.utrldbr
  BY <1>0, <1>3, SlotsAssumption DEF UDoorbell, UResponses, UType, URegisters
<1>5. U!NewBits(bits) = {s}
  BY <1>4 DEF U!NewBits
<1>6. q' = Append(q, s) /\ reg' = new
  BY <1>0, <1>5, EnqueueOne DEF U!Issue, U!ProcessUTPTransfer, UType
<1>7. new \in URegisters /\ new.utrldbr = bits /\ new.pending = bits
  <2>1. reg \in URegisters
    BY <1>0 DEF UType, URegisters
  <2> QED BY <1>4, <2>1 DEF URegisters
<1>8. /\ q' \in Seq(Slots)
      /\ Len(q) + 1 \in DOMAIN q' /\ q'[Len(q) + 1] = s
      /\ \A i \in DOMAIN q' : i \in DOMAIN q \/ i = Len(q) + 1
      /\ \A i \in DOMAIN q : i \in DOMAIN q' /\ q'[i] = q[i] /\ q[i] \in Slots
  <2>1. q \in Seq(Slots)
    BY <1>0 DEF UType
  <2> HIDE DEF q
  <2>2. /\ Append(q, s) \in Seq(Slots)
        /\ Len(q) + 1 \in DOMAIN Append(q, s) /\ Append(q, s)[Len(q) + 1] = s
        /\ \A i \in DOMAIN Append(q, s) : i \in DOMAIN q \/ i = Len(q) + 1
        /\ \A i \in DOMAIN q :
              /\ i \in DOMAIN Append(q, s)
              /\ Append(q, s)[i] = q[i] /\ q[i] \in Slots
    BY <2>1, AppendTo
  <2> QED BY <1>6, <2>2
<1>9. UType'
  BY <1>0, <1>1, <1>6, <1>7, <1>8 DEF UType, URegisters
<1>10. \A i \in DOMAIN q : q[i] # s
  BY <1>0, <1>3 DEF UQueue
<1>11. \A c \in contexts : UContext(c) /\ c.slot # s /\ c.slot \in Slots /\ c.req \in Requests
  BY <1>0, <1>2 DEF UContexts, UContext, Holding
<1>12. UQueue'
  <2>1. ASSUME NEW i \in DOMAIN q' PROVE Has(q[i], "issued")'
    <3>1. CASE i \in DOMAIN q
      BY <1>0, <1>3, <1>8, <1>10, <3>1 DEF UQueue
    <3>2. CASE i = Len(q) + 1
      BY <1>3, <1>8, <3>2
    <3> QED BY <1>8, <3>1, <3>2
  <2>2. ASSUME NEW i \in DOMAIN q', NEW j \in DOMAIN q', q'[i] = q'[j] PROVE i = j
    BY <1>0, <1>8, <1>10, <2>2 DEF UQueue
  <2>3. \A i \in DOMAIN q' : \A c \in contexts' : c.slot # q'[i]
    BY <1>0, <1>1, <1>8, <1>11 DEF UQueue
  <2> QED BY <2>1, <2>2, <2>3 DEF UQueue
<1>13. UContexts'
  <2>1. ASSUME NEW c \in contexts PROVE UContext(c)'
    <3>1. UContext(c) /\ c.slot \in Slots \ {s} /\ held[c.slot] = c.req
      BY <1>11 DEF UContext
    <3>2. held[c.slot] # 0
      BY <1>11, <3>1, SlotsAssumption
    <3> QED BY <1>2, <3>1, <3>2 DEF UContext
  <2> QED BY <1>0, <1>1, <2>1 DEF UContexts
<1>14. UIssued'
  <2> SUFFICES ASSUME NEW t \in Slots, Has(t, "issued")'
               PROVE  \/ \E i \in DOMAIN q' : q'[i] = t
                      \/ \E c \in contexts' : c.slot = t
    BY DEF UIssued
  <2>1. CASE t = s
    BY <1>8, <2>1
  <2>2. CASE t # s
    BY <1>0, <1>1, <1>3, <1>8, <2>2 DEF UIssued
  <2> QED BY <2>1, <2>2
<1>15. \A i \in DOMAIN responses : responses[i] \in Slots /\ responses[i] # s
  BY <1>0, <1>3 DEF UResponses, UType
<1>16. UResponses'
  BY <1>0, <1>1, <1>3, <1>15 DEF UResponses
<1>17. UDoorbell'
  <2>1. \A t \in Slots : t \in bits <=>
           Has(t, "issued")' \/ \E i \in DOMAIN responses : responses[i] = t
    BY <1>0, <1>3, <1>15 DEF UDoorbell
  <2> QED BY <1>1, <1>6, <1>7, <2>1 DEF UDoorbell
<1> QED BY <1>1, <1>2, <1>9, <1>12, <1>13, <1>14, <1>16, <1>17 DEF UCommands

\* The completion event clears the doorbell bits of all that is queued.
LEMMA UCompletes ==
  ASSUME UCommands, U!Completion
  PROVE  /\ UCommands'
         /\ reg'.is = (IF responses = << >> THEN reg.is ELSE reg.is \cup {"utp"})
         /\ reg'.seen = reg.seen
<1> DEFINE done == {responses[i] : i \in DOMAIN responses}
           is1 == IF done = {} THEN reg.is ELSE reg.is \cup {"utp"}
           bits == reg.utrldbr \ done
           new == [reg EXCEPT !.utrldbr = bits, !.pending = reg.pending \ done, !.is = is1]
<1>0. /\ UType /\ Holding /\ UQueue /\ UContexts /\ UIssued /\ UResponses /\ UDoorbell
  BY DEF UCommands
<1>1. /\ reg' = new /\ responses' = << >>
      /\ line' = (line \/ responses # << >>)
      /\ UNCHANGED <<boot, requestQueue, contexts, irq, held, cmd, status>>
  BY DEF U!Completion
<1>2. done = {} <=> responses = << >>
  <2>1. responses \in Seq(Slots)
    BY <1>0 DEF UType
  <2>2. responses # << >> => 1 \in DOMAIN responses
    BY <2>1, EmptySeq
  <2>3. responses = << >> => DOMAIN responses = {}
    OBVIOUS
  <2> QED BY <2>2, <2>3
<1>3. /\ new \in URegisters /\ new.utrldbr = bits /\ new.pending = reg.pending \ done
      /\ new.is = is1 /\ new.seen = reg.seen
  <2>1. reg \in URegisters
    BY <1>0 DEF UType
  <2>2. bits \in SUBSET Slots /\ reg.pending \ done \in SUBSET Slots /\ is1 \in SUBSET {"utp", "uic"}
    BY <2>1 DEF URegisters
  <2> HIDE DEF bits, is1, done
  <2> QED BY <2>1, <2>2 DEF URegisters
<1>4. UType'
  <2>1. << >> \in Seq(Slots) /\ line' \in BOOLEAN
    BY <1>1
  <2> HIDE DEF new
  <2> QED BY <1>0, <1>1, <1>3, <2>1 DEF UType
<1>5. Holding' /\ UQueue' /\ UContexts' /\ UIssued'
  BY <1>0, <1>1 DEF Holding, UQueue, UContexts, UContext, UIssued, Has
<1>6. UResponses'
  BY <1>1 DEF UResponses
<1>7. UDoorbell'
  <2>1. \A t \in Slots : t \in bits <=> Has(t, "issued")
    <3> TAKE t \in Slots
    <3>1. t \in reg.utrldbr <=> Has(t, "issued") \/ t \in done
      BY <1>0 DEF UDoorbell
    <3>2. t \in done => ~Has(t, "issued")
      BY <1>0 DEF UResponses, Has
    <3> QED BY <3>1, <3>2
  <2>2. reg'.pending = bits /\ reg'.utrldbr = bits
    <3> HIDE DEF new
    <3> QED BY <1>0, <1>1, <1>3 DEF UDoorbell
  <2> QED BY <1>1, <2>1, <2>2 DEF UDoorbell, Has
<1>8. /\ reg'.is = (IF responses = << >> THEN reg.is ELSE reg.is \cup {"utp"})
      /\ reg'.seen = reg.seen
  <2> HIDE DEF new, done
  <2> QED BY <1>1, <1>2, <1>3
<1> QED BY <1>4, <1>5, <1>6, <1>7, <1>8 DEF UCommands

\* The driver takes back what the doorbell says is done.
LEMMA UCollects ==
  ASSUME UCommands, NEW done \in SUBSET (Outstanding \ reg.utrldbr), TakeBack(done),
         boot' \in {"off", "linking", "ready"}, irq' \in {"idle", "seen"},
         reg' = [reg EXCEPT !.seen = reg.is],
         UNCHANGED <<requestQueue, contexts, responses, line, cmd>>
  PROVE  UCommands' /\ \A s \in done : Has(s, "executed")
<1> DEFINE new == [reg EXCEPT !.seen = reg.is]
<1>0. /\ UType /\ Holding /\ UQueue /\ UContexts /\ UIssued /\ UResponses /\ UDoorbell
  BY DEF UCommands
<1>1. /\ new \in URegisters /\ new.utrldbr = reg.utrldbr /\ new.pending = reg.pending
  BY <1>0 DEF UType, URegisters
<1>2. \A s \in done : /\ s \in Slots /\ Has(s, "executed")
                      /\ ~\E i \in DOMAIN responses : responses[i] = s
  BY <1>0 DEF UDoorbell, Outstanding, Has, Holding
<1>3. /\ Holding'
      /\ \A s \in done : held'[s] = 0
      /\ \A t \in Slots \ done :
            held'[t] = held[t] /\ (held[t] # 0 => status'[held[t]] = status[held[t]])
  <2>1. done \in SUBSET Slots
    BY <1>2
  <2> QED BY <1>0, <1>2, <2>1, TakeBackHolds
<1>4. \A t \in Slots : /\ Has(t, "issued")' <=> Has(t, "issued")
                       /\ t \notin done => \A x : Has(t, x)' <=> Has(t, x)
  BY <1>2, <1>3 DEF Has
<1>5. UType'
  <2> HIDE DEF new
  <2>1. reg' = new
    BY DEF new
  <2> QED BY <1>0, <1>1, <2>1 DEF UType
<1>6. UQueue' /\ UIssued'
  <2>1. \A i \in DOMAIN requestQueue : requestQueue[i] \in Slots
    BY <1>0 DEF UType
  <2> QED BY <1>0, <1>4, <2>1 DEF UQueue, UIssued
<1>7. UContexts'
  <2>1. ASSUME NEW c \in contexts PROVE UContext(c)'
    <3>1. /\ UContext(c) /\ c.slot \in Slots /\ held[c.slot] = c.req
          /\ status[c.req] = "issued" /\ c.req # 0
      BY <1>0, SlotsAssumption DEF UContexts, UContext
    <3>2. c.slot \notin done
      BY <1>2, <3>1 DEF Has
    <3> QED BY <1>3, <3>1, <3>2 DEF UContext
  <2> QED BY <1>0, <2>1 DEF UContexts
<1>8. UResponses'
  <2>1. \A i \in DOMAIN responses : responses[i] \in Slots \ done
    BY <1>0, <1>2 DEF UType
  <2> QED BY <1>0, <1>4, <2>1 DEF UResponses
<1>9. UDoorbell'
  <2> HIDE DEF new
  <2>1. reg' = new
    BY DEF new
  <2> QED BY <1>0, <1>1, <1>4, <2>1 DEF UDoorbell
<1> QED BY <1>2, <1>3, <1>5, <1>6, <1>7, <1>8, <1>9 DEF UCommands

\* The steps that only touch the interrupt leave the commands alone.
LEMMA UQuiet ==
  ASSUME UCommands, reg' \in URegisters, reg'.utrldbr = reg.utrldbr,
         reg'.pending = reg.pending, boot' \in {"off", "linking", "ready"},
         line' \in BOOLEAN, irq' \in {"idle", "seen", "collect"},
         UNCHANGED <<requestQueue, contexts, responses, held, cmd, status>>
  PROVE  UCommands'
BY DEF UCommands, UType, Holding, UQueue, UContexts, UContext, UIssued, UResponses,
       UDoorbell, Has

Serves == status' = status \/ Service!Next

\* A step of a command inside the device.
LEMMA UDeviceKeeps ==
  ASSUME UInv, U!DeviceStep
  PROVE  UInv' /\ Serves
<1>0. UCommands /\ UCalls /\ UContexts /\ UType /\ Holding
  BY DEF UInv, UCommands
<1>1. UNCHANGED <<interface, boot, requestQueue, reg, line, irq, held, cmd>>
  BY DEF U!DeviceStep
<1>2. PICK c \in contexts :
         \/ U!DescriptorRead(c)
         \/ \E part \in {"request", "prdt"} : U!Fetched(c, part)
         \/ U!HILDone(c) \/ U!PRDTDone(c) \/ U!DoWrite(c) \/ U!DescriptorWritten(c)
  BY DEF U!DeviceStep
<1>3. /\ UContext(c) /\ c.slot \in Slots /\ c.req \in Requests /\ cmd[c.req] \in U!Kinds
      /\ c.stage \in UStages => UEnds(c.stage, c.rest)
      /\ c.rest \in Seq(UStages) /\ status[c.req] = "issued"
  BY <1>0 DEF UContexts, UContext, UType
<1>4. ASSUME UNCHANGED <<responses, events>> PROVE UCalls'
  BY <1>0, <1>1, <1>4 DEF UCalls
<1>5. ASSUME NEW d, UContext(d), d.slot = c.slot, contexts' = (contexts \ {c}) \cup {d},
             UNCHANGED <<responses, events, status>>
      PROVE  UInv' /\ Serves
  <2>1. UCommands'
    BY <1>0, <1>1, <1>5, UMoves
  <2> QED BY <1>4, <1>5, <2>1 DEF UInv, Serves
<1>6. ASSUME NEW p, UPath(p)
      PROVE  UContext(Enter(c.slot, c.req, p)) /\ Enter(c.slot, c.req, p).slot = c.slot
  <2>1. UEnds(Head(p), Tail(p))
    BY <1>6, UEnter
  <2> QED BY <1>3, <2>1 DEF Enter, Context, UContext, UEnds
<1>7. CASE U!DescriptorRead(c)
  <2> DEFINE need == {"request"} \cup (IF U!HasPRDT(cmd[c.req]) THEN {"prdt"} ELSE {})
             d == Context(c.slot, c.req, "fetch", << >>, need)
  <2>1. contexts' = (contexts \ {c}) \cup {d} /\ UNCHANGED <<responses, events, status>>
    BY <1>7, USame DEF U!DescriptorRead, U!Replace
  <2>2. need \in SUBSET {"request", "prdt"}
    OBVIOUS
  <2> HIDE DEF need
  <2>3. UContext(d) /\ d.slot = c.slot
    BY <1>3, <2>2 DEF UContext, Context, UStages
  <2> HIDE DEF d
  <2> QED BY <1>5, <2>1, <2>3
<1>8. ASSUME NEW part \in {"request", "prdt"}, U!Fetched(c, part)
      PROVE  UInv' /\ Serves
  <2> DEFINE d == IF c.need = {part} THEN Enter(c.slot, c.req, U!Path(cmd[c.req]))
                  ELSE [c EXCEPT !.need = @ \ {part}]
  <2>1. contexts' = (contexts \ {c}) \cup {d} /\ UNCHANGED <<responses, events, status>>
    BY <1>8, USame DEF U!Fetched, U!Replace
  <2>2. UContext(d) /\ d.slot = c.slot
    <3>1. CASE c.need = {part}
      BY <1>3, <1>6, <3>1, UPathOf
    <3>2. CASE c.need # {part}
      <4> DEFINE less == c.need \ {part}
      <4>1. less \in SUBSET {"request", "prdt"} /\ d = [c EXCEPT !.need = less]
        BY <1>3, <3>2 DEF UContext
      <4> HIDE DEF less
      <4> QED BY <1>3, <4>1 DEF UContext
    <3> QED BY <3>1, <3>2
  <2> HIDE DEF d
  <2> QED BY <1>5, <2>1, <2>2
<1>9. ASSUME c.stage \in UStages \ {"descriptor"}, U!Advance(c), UNCHANGED <<responses, events>>
      PROVE  UInv' /\ Serves
  <2>1. c.rest # << >>
    BY <1>3, <1>9 DEF UEnds
  <2> DEFINE d == Enter(c.slot, c.req, c.rest)
  <2>2. contexts' = (contexts \ {c}) \cup {d} /\ UNCHANGED status
    BY <1>9, <2>1, USame DEF U!Advance, U!Replace
  <2>3. UContext(d) /\ d.slot = c.slot
    BY <1>3, <1>6, <1>9, <2>1, URest
  <2> HIDE DEF d
  <2> QED BY <1>5, <1>9, <2>2, <2>3
<1>10. CASE U!HILDone(c) \/ U!PRDTDone(c) \/ U!DoWrite(c)
  BY <1>9, <1>10 DEF U!HILDone, U!PRDTDone, U!DoWrite, UStages
<1>11. CASE U!DescriptorWritten(c)
  <2>1. c.rest = << >>
    BY <1>3, <1>11 DEF U!DescriptorWritten, UStages, UEnds
  <2>2. /\ contexts' = contexts \ {c} /\ status' = [status EXCEPT ![c.req] = "executed"]
        /\ responses' = Append(responses, c.slot) /\ events' = events \cup {"completion"}
    BY <1>11, <2>1 DEF U!DescriptorWritten, U!Advance, U!Replace
  <2>3. UCommands'
    BY <1>0, <1>1, <2>2, UFinishes
  <2>4. UCalls'
    BY <1>0, <1>1, <2>2 DEF UCalls
  <2>5. Serves
    BY <1>0, <1>3, <2>2, ExecuteServes DEF Serves
  <2> QED BY <2>3, <2>4, <2>5 DEF UInv
<1> QED BY <1>2, <1>7, <1>8, <1>10, <1>11

\* Every step keeps the invariant and serves the host.
LEMMA UNextKeeps ==
  ASSUME UInv, U!UFSNext
  PROVE  UInv' /\ Serves
<1>0. UCommands /\ UCalls /\ UType /\ Holding /\ reg \in URegisters
  BY DEF UInv, UCommands, UType
<1>1. CASE U!LinkStartup \/ U!UIC
  <2> DEFINE new == [reg EXCEPT !.is = reg.is \cup {"uic"}, !.uic = reg.uic + 1]
  <2>1. /\ new \in URegisters /\ new.utrldbr = reg.utrldbr /\ new.pending = reg.pending
    <3>1. reg.is \cup {"uic"} \in SUBSET {"utp", "uic"} /\ reg.uic + 1 \in Nat
      BY <1>0 DEF URegisters
    <3> QED BY <1>0, <3>1 DEF URegisters
  <2>2. /\ reg' = new /\ line' = TRUE /\ boot' \in {"off", "linking", "ready"}
        /\ UNCHANGED <<requestQueue, contexts, responses, irq, held, cmd, status>>
    BY <1>0, <1>1 DEF U!LinkStartup, U!UIC, U!ProcessUIC, UType
  <2>3. UCommands'
    <3> HIDE DEF new
    <3> QED BY <1>0, <2>1, <2>2, UQuiet DEF UType
  <2>4. UCalls'
    <3>1. new.seen = reg.seen
      BY <1>0 DEF URegisters
    <3> QED BY <1>0, <1>1, <2>2, <3>1 DEF UCalls, U!LinkStartup, U!UIC
  <2> QED BY <2>2, <2>3, <2>4 DEF UInv, Serves
<1>2. ASSUME NEW r \in Requests, NEW s \in Slots, U!Issue(r, s)
      PROVE  UInv' /\ Serves
  <2>1. UCommands' /\ Put(r, s)
    BY <1>0, <1>2, UPuts
  <2>2. UCalls'
    <3>1. UNCHANGED <<boot, events, responses, line, irq>>
      BY <1>2 DEF U!Issue
    <3>2. reg'.is = reg.is /\ reg'.seen = reg.seen
      BY <1>0, <1>2 DEF U!Issue, U!ProcessUTPTransfer, URegisters
    <3> QED BY <1>0, <3>1, <3>2 DEF UCalls
  <2> QED BY <1>0, <2>1, <2>2, PutServes DEF UInv, Serves
<1>3. CASE U!HandleRequest
  <2> DEFINE n == IF requestQueue = << >> \/ reg.counter = MaxRequest
                  THEN reg.counter ELSE reg.counter + 1
             d == IF requestQueue = << >> THEN {}
                  ELSE LET s == Head(requestQueue)
                       IN  {Context(s, held[s], "header", << >>, {})}
  <2>1. PICK e \in {"work", "request"} : TakeRequest(e, n)
    BY <1>3, USame DEF U!HandleRequest
  <2>2. /\ reg' = [reg EXCEPT !.counter = n]
        /\ UNCHANGED <<boot, responses, line, irq, held, cmd, status>>
    BY <1>3 DEF U!HandleRequest
  <2>3. n \in Nat
    BY <1>0 DEF URegisters
  <2>4. Fetches(requestQueue', d) /\ contexts' = contexts \cup d
    BY <2>1 DEF TakeRequest, Fetches
  <2> HIDE DEF n, d
  <2>5. reg'.counter = n /\ reg'.is = reg.is /\ reg'.seen = reg.seen
    BY <1>0, <2>2 DEF URegisters
  <2>6. UCommands'
    BY <1>0, <2>2, <2>3, <2>4, <2>5, UTakes
  <2>7. PICK x \in {"work", "request"} : e \in events /\ events' = (events \ {e}) \cup {x}
    BY <2>1 DEF TakeRequest
  <2>8. UCalls'
    BY <1>0, <2>2, <2>5, <2>7 DEF UCalls
  <2> QED BY <2>2, <2>6, <2>8 DEF UInv, Serves
<1>4. CASE U!DeviceStep
  BY <1>4, UDeviceKeeps
<1>5. CASE U!Completion
  <2>1. /\ UCommands' /\ reg'.seen = reg.seen
        /\ reg'.is = (IF responses = << >> THEN reg.is ELSE reg.is \cup {"utp"})
    BY <1>0, <1>5, UCompletes
  <2>2. /\ line' = (line \/ responses # << >>) /\ responses' = << >>
        /\ events' = events \ {"completion"} /\ UNCHANGED <<boot, irq, status>>
    BY <1>5 DEF U!Completion
  <2>3. UCalls'
    <3>1. boot' = "off" => "uic" \notin reg'.is \cup reg'.seen
      BY <1>0, <2>1, <2>2 DEF UCalls
    <3>2. reg'.is # {} => line' \/ irq' # "idle"
      <4>1. CASE responses = << >>
        BY <1>0, <2>1, <2>2, <4>1 DEF UCalls
      <4>2. CASE responses # << >>
        BY <2>2, <4>2
      <4> QED BY <4>1, <4>2
    <3> QED BY <1>0, <2>2, <3>1, <3>2 DEF UCalls
  <2> QED BY <2>1, <2>2, <2>3 DEF UInv, Serves
<1>6. CASE U!Interrupt \/ U!WriteIS
  <2>1. /\ reg' \in URegisters /\ reg'.utrldbr = reg.utrldbr /\ reg'.pending = reg.pending
        /\ reg'.is \subseteq reg.is /\ reg'.seen \subseteq reg.is \cup reg.seen
        /\ line' \in BOOLEAN /\ irq' \in {"seen", "collect"}
        /\ UNCHANGED <<boot, events, requestQueue, contexts, responses, held, cmd, status>>
    <3>1. CASE U!Interrupt
      BY <1>0, <3>1 DEF U!Interrupt, URegisters, UType
    <3>2. CASE U!WriteIS
      <4>1. reg.is \ reg.seen \in SUBSET {"utp", "uic"}
        BY <1>0 DEF URegisters
      <4>2. reg' = [reg EXCEPT !.is = reg.is \ reg.seen]
        BY <3>2 DEF U!WriteIS
      <4> QED BY <1>0, <3>2, <4>1, <4>2 DEF U!WriteIS, URegisters
    <3> QED BY <1>6, <3>1, <3>2
  <2>2. UCommands'
    BY <1>0, <2>1, UQuiet DEF UType
  <2>3. UCalls'
    BY <1>0, <2>1 DEF UCalls
  <2> QED BY <2>1, <2>2, <2>3 DEF UInv, Serves
<1>7. CASE U!Collect
  <2> DEFINE done == IF "utp" \in reg.seen THEN Outstanding \ reg.utrldbr ELSE {}
  <2>1. /\ TakeBack(done) /\ reg' = [reg EXCEPT !.seen = reg.is]
        /\ irq = "collect" /\ irq' = IF reg.is = {} THEN "idle" ELSE "seen"
        /\ boot' = IF "uic" \in reg.seen THEN "ready" ELSE boot
        /\ UNCHANGED <<events, requestQueue, contexts, responses, line, cmd>>
    BY <1>7, USame DEF U!Collect
  <2>2. done \in SUBSET (Outstanding \ reg.utrldbr)
    OBVIOUS
  <2>3. done \in SUBSET Slots
    BY DEF Outstanding
  <2> HIDE DEF done
  <2>4. boot' \in {"off", "linking", "ready"} /\ irq' \in {"idle", "seen"}
    BY <1>0, <2>1 DEF UType
  <2>5. UCommands' /\ \A s \in done : Has(s, "executed")
    BY <1>0, <2>1, <2>2, <2>4, UCollects
  <2>6. reg'.is = reg.is /\ reg'.seen = reg.is
    BY <1>0, <2>1 DEF URegisters
  <2>7. UCalls'
    BY <1>0, <2>1, <2>6 DEF UCalls
  <2>8. Serves
    BY <1>0, <2>1, <2>3, <2>5, TakeBackServes DEF Serves
  <2> QED BY <2>5, <2>7, <2>8 DEF UInv
<1> QED BY <1>1, <1>2, <1>3, <1>4, <1>5, <1>6, <1>7 DEF U!UFSNext

LEMMA USameCardinality ==
  ASSUME NEW T
  PROVE  U!Cardinality(T) = Cardinality(T)
BY DEF U!Cardinality, Cardinality

\* The invariant counts the places of a command.
LEMMA UAccounts ==
  ASSUME UInv
  PROVE  U!Accounted
<1>0. /\ UType /\ Holding /\ UQueue /\ UContexts /\ UIssued /\ UResponses /\ UDoorbell
  BY DEF UInv, UCommands
<1>1. reg.utrldbr \subseteq U!Outstanding
  BY <1>0 DEF UDoorbell, UResponses, Has, U!Outstanding, UType, URegisters
<1>2. ASSUME NEW s \in U!Outstanding
      PROVE  /\ U!Places(held[s], s, LAMBDA c : TRUE)
                   = (IF status[held[s]] = "issued" THEN 1 ELSE 0)
             /\ (s \in reg.utrldbr) <=>
                   (status[held[s]] = "issued" \/ U!Count(LAMBDA x : x = s, responses) = 1)
  <2> DEFINE r == held[s]
             A == {i \in DOMAIN requestQueue : requestQueue[i] = s}
             B == {c \in contexts : c.req = r}
             C == {i \in DOMAIN responses : responses[i] = s}
  <2>1. s \in Slots /\ r # 0 /\ r \in Requests /\ status[r] \in {"issued", "executed"}
    BY <1>0 DEF U!Outstanding, Holding
  <2>2. \A c \in contexts : c.req = r <=> c.slot = s
    BY <1>0, <2>1 DEF UContexts, UContext, Holding
  <2>3. /\ \A i, j \in A : i = j
        /\ \A c, d \in B : c = d
        /\ \A i, j \in C : i = j
    BY <1>0, <2>2 DEF UQueue, UContexts, UResponses
  <2>4. /\ status[r] = "issued" => A # {} \/ B # {}
        /\ A # {} => status[r] = "issued" /\ B = {}
        /\ B # {} => status[r] = "issued"
        /\ s \in reg.utrldbr <=> status[r] = "issued" \/ C # {}
    BY <1>0, <2>1, <2>2 DEF UQueue, UContexts, UContext, UIssued, UDoorbell, Has
  <2>5. /\ U!Places(held[s], s, LAMBDA c : TRUE) = Cardinality(A) + Cardinality(B)
        /\ U!Count(LAMBDA x : x = s, responses) = Cardinality(C)
    BY USameCardinality DEF U!Places, U!Count
  <2> HIDE DEF A, B, C
  <2>6. /\ (A = {} => Cardinality(A) = 0) /\ (A # {} => Cardinality(A) = 1)
        /\ (B = {} => Cardinality(B) = 0) /\ (B # {} => Cardinality(B) = 1)
        /\ (C = {} => Cardinality(C) = 0) /\ (C # {} => Cardinality(C) = 1)
    BY <2>3, AtMostOne
  <2>7. Cardinality(A) + Cardinality(B) = IF status[r] = "issued" THEN 1 ELSE 0
    BY <2>4, <2>6
  <2>8. s \in reg.utrldbr <=> (status[r] = "issued" \/ Cardinality(C) = 1)
    BY <2>4, <2>6
  <2> QED BY <2>5, <2>7, <2>8
<1> QED BY <1>0, <1>1, <1>2 DEF U!Accounted, UDoorbell

\* Whoever has something to do is going to be called.
LEMMA UAwakes ==
  ASSUME UInv
  PROVE  U!Awake
<1>1. UCalls
  BY DEF UInv
<1>2. boot # "off" => \E x : events \ {"completion"} = {x}
  BY <1>1 DEF UCalls
<1>3. boot # "off" => U!Cardinality(events \ {"completion"}) = 1
  BY <1>2, FS_Singleton, USameCardinality
<1> QED BY <1>1, <1>3 DEF UCalls, U!Awake

-----------------------------------------------------------------------------
(* SATA *)

(***************************************************************************)
(* The invariant is stated of a queue q, contexts C, frames R, registers   *)
(* ci and sact, slots hd and states st, so that a handler that does        *)
(* several things can be followed one by one.                              *)
(*                                                                         *)
(* What is left to do for a command is in the queue, in a working context  *)
(* or in a frame that starts it.  What will clear the PxCI bit of a slot   *)
(* is in the queue, in a context that will be answered by a frame of this  *)
(* slot, or such a frame.  For a command that is not queued both are the   *)
(* same until it is done.  Slot 0 is different: the frames of queued       *)
(* commands clear its bit as well, so there the second part holds only     *)
(* while no queued command has been issued.                                *)
(***************************************************************************)
SStages == {"nand", "data"}
SContext == [slot : Slots, req : Requests,
             stage : {"header", "fetch", "accept"} \cup SStages, rest : Seq(SStages),
             need : SUBSET {"table", "prdt"}]
SFrame == [slot : Slots, starts : Requests \cup {0}]

InWork(c) == c.stage # "accept" \/ cmd[c.req] = "writeQueued"
InReg(c) == c.stage \in {"header", "fetch", "accept"} \/ ~S!Queued(cmd[c.req])

NoneQueued(st) == \A r \in Requests : st[r] # "idle" => ~S!Queued(cmd[r])
Counted(s, st) == s # 0 \/ NoneQueued(st)
HasIn(hd, st, s, x) == hd[s] # 0 /\ st[hd[s]] = x

SHold(hd, st) ==
    /\ hd \in [Slots -> Requests \cup {0}]
    /\ st \in [Requests -> {"idle", "issued", "executed", "answered"}]
    /\ \A s, t \in Slots : hd[s] = hd[t] /\ hd[s] # 0 => s = t
    /\ \A s \in Slots : hd[s] # 0 => st[hd[s]] \in {"issued", "executed"}
    /\ hd[0] # 0 /\ ~S!Queued(cmd[hd[0]]) => NoneQueued(st)
SShape(q, C, R, ci, sact) ==
    /\ q \in Seq(Slots) /\ C \subseteq SContext /\ R \in Seq(SFrame)
    /\ ci \subseteq Slots /\ sact \subseteq Slots
SQueue(q, C, R, hd, st) ==
    \A i \in DOMAIN q :
        /\ HasIn(hd, st, q[i], "issued")
        /\ \A j \in DOMAIN q : q[i] = q[j] => i = j
        /\ \A c \in C : InWork(c) => c.slot # q[i]
        /\ \A j \in DOMAIN R : R[j].starts # hd[q[i]]
SWork(C, R, hd, st) ==
    \A c \in C :
        /\ c.stage = "accept" => S!Queued(cmd[c.req]) /\ st[c.req] # "idle"
        /\ InWork(c) =>
              /\ hd[c.slot] = c.req /\ st[c.req] = "issued"
              /\ \A d \in C : InWork(d) /\ d.slot = c.slot => c = d
              /\ \A j \in DOMAIN R : R[j].starts # c.req
SStarts(R, hd, st) ==
    \A i \in DOMAIN R : R[i].starts # 0 =>
        /\ hd[R[i].slot] = R[i].starts /\ st[R[i].starts] = "issued"
        /\ cmd[R[i].starts] = "writeQueued"
        /\ \A j \in DOMAIN R : R[j].starts = R[i].starts => i = j
SIssued(q, C, R, hd, st) ==
    \A s \in Slots : HasIn(hd, st, s, "issued") =>
        \/ \E i \in DOMAIN q : q[i] = s
        \/ \E c \in C : InWork(c) /\ c.slot = s
        \/ \E i \in DOMAIN R : R[i].starts = hd[s]
SBits(ci, sact, hd, st) ==
    \A s \in Slots :
        /\ s \in ci => hd[s] # 0
        /\ s \in sact <=> HasIn(hd, st, s, "issued") /\ S!Queued(cmd[hd[s]])
STokens(q, C, R, ci, hd, st) ==
    \A s \in Slots : Counted(s, st) =>
        /\ \A i \in DOMAIN q : q[i] = s => s \in ci
        /\ \A c \in C : InReg(c) /\ c.slot = s =>
              /\ s \in ci /\ hd[s] = c.req
              /\ \A i \in DOMAIN q : q[i] # s
              /\ \A d \in C : InReg(d) /\ d.slot = s => c = d
        /\ \A i \in DOMAIN R : R[i].slot = s =>
              /\ s \in ci
              /\ \A j \in DOMAIN q : q[j] # s
              /\ \A c \in C : InReg(c) => c.slot # s
              /\ \A j \in DOMAIN R : R[j].slot = s => i = j
        /\ s \in ci => \/ \E i \in DOMAIN q : q[i] = s
                       \/ \E c \in C : InReg(c) /\ c.slot = s
                       \/ \E i \in DOMAIN R : R[i].slot = s

SCore(q, C, R, ci, sact, hd, st) ==
    /\ SHold(hd, st) /\ SShape(q, C, R, ci, sact) /\ SQueue(q, C, R, hd, st)
    /\ SWork(C, R, hd, st) /\ SStarts(R, hd, st) /\ SIssued(q, C, R, hd, st)
    /\ SBits(ci, sact, hd, st) /\ STokens(q, C, R, ci, hd, st)

\* A context is replaced by one that stands for the same.
LEMMA SMoves ==
  ASSUME NEW q, NEW C, NEW R, NEW ci, NEW sact, NEW hd, NEW st,
         SCore(q, C, R, ci, sact, hd, st), NEW c \in C, NEW d \in SContext,
         d.slot = c.slot, d.req = c.req, InWork(d) <=> InWork(c), InReg(d) <=> InReg(c),
         d.stage = "accept" => S!Queued(cmd[c.req]) /\ st[c.req] # "idle"
  PROVE  SCore(q, (C \ {c}) \cup {d}, R, ci, sact, hd, st)
<1> DEFINE D == (C \ {c}) \cup {d}
<1>0. /\ SHold(hd, st) /\ SShape(q, C, R, ci, sact) /\ SQueue(q, C, R, hd, st)
      /\ SWork(C, R, hd, st) /\ SStarts(R, hd, st) /\ SIssued(q, C, R, hd, st)
      /\ SBits(ci, sact, hd, st) /\ STokens(q, C, R, ci, hd, st)
  BY DEF SCore
<1>1. SShape(q, D, R, ci, sact)
  BY <1>0 DEF SShape
<1>2. /\ \A e \in D : e \in C \/ e = d
      /\ \A e \in C : e \in D \/ e = c
      /\ d \in D
  OBVIOUS
<1> HIDE DEF D
<1>3. SQueue(q, D, R, hd, st)
  BY <1>0, <1>2 DEF SQueue
<1>4. SWork(D, R, hd, st)
  <2> SUFFICES ASSUME NEW e \in D
               PROVE  /\ e.stage = "accept" => S!Queued(cmd[e.req]) /\ st[e.req] # "idle"
                      /\ InWork(e) =>
                            /\ hd[e.slot] = e.req /\ st[e.req] = "issued"
                            /\ \A f \in D : InWork(f) /\ f.slot = e.slot => e = f
                            /\ \A j \in DOMAIN R : R[j].starts # e.req
    BY DEF SWork
  <2>1. CASE e = d
    <3>1. \A f \in D : InWork(d) /\ InWork(f) /\ f.slot = d.slot => f = d
      BY <1>0, <1>2 DEF SWork, D
    <3> QED BY <1>0, <2>1, <3>1 DEF SWork
  <2>2. CASE e # d
    <3>1. e \in C /\ e # c
      BY <2>2 DEF D
    <3>2. \A f \in D : InWork(e) /\ InWork(f) /\ f.slot = e.slot => f = e
      BY <1>0, <1>2, <3>1 DEF SWork
    <3> QED BY <1>0, <3>1, <3>2 DEF SWork
  <2> QED BY <2>1, <2>2
<1>5. SIssued(q, D, R, hd, st)
  BY <1>0, <1>2 DEF SIssued
<1>6. STokens(q, D, R, ci, hd, st)
  <2> SUFFICES ASSUME NEW s \in Slots, Counted(s, st)
               PROVE
        /\ \A i \in DOMAIN q : q[i] = s => s \in ci
        /\ \A e \in D : InReg(e) /\ e.slot = s =>
              /\ s \in ci /\ hd[s] = e.req
              /\ \A i \in DOMAIN q : q[i] # s
              /\ \A f \in D : InReg(f) /\ f.slot = s => e = f
        /\ \A i \in DOMAIN R : R[i].slot = s =>
              /\ s \in ci
              /\ \A j \in DOMAIN q : q[j] # s
              /\ \A e \in D : InReg(e) => e.slot # s
              /\ \A j \in DOMAIN R : R[j].slot = s => i = j
        /\ s \in ci => \/ \E i \in DOMAIN q : q[i] = s
                       \/ \E e \in D : InReg(e) /\ e.slot = s
                       \/ \E i \in DOMAIN R : R[i].slot = s
    BY DEF STokens
  <2>1. \A e, f \in D : InReg(e) /\ InReg(f) /\ e.slot = s /\ f.slot = s => e = f
    BY <1>0 DEF STokens, D
  <2>2. \A e \in D : InReg(e) /\ e.slot = s =>
              /\ s \in ci /\ hd[s] = e.req
              /\ \A i \in DOMAIN q : q[i] # s
    BY <1>0, <1>2 DEF STokens
  <2>3. \A i \in DOMAIN R : R[i].slot = s => \A e \in D : InReg(e) => e.slot # s
    BY <1>0, <1>2 DEF STokens
  <2> QED BY <1>0, <1>2, <2>1, <2>2, <2>3 DEF STokens
<1> QED BY <1>0, <1>1, <1>3, <1>4, <1>5, <1>6 DEF SCore, D

\* Until the driver has cleared the signature frame nothing is started.
SBoot ==
    /\ boot \in {"off", "reset", "thawed"}
    /\ boot = "off" => responses = << >>
    /\ boot = "reset" => responses = <<S!Signature>>
    /\ boot # "thawed" =>
          /\ contexts = {} /\ requestQueue = << >> /\ \A s \in Slots : held[s] = 0
          /\ \A r \in Requests : status[r] = "idle"
          /\ reg.ci = {} /\ reg.sact = {} /\ reg.started = FALSE
SRegisters == [started : BOOLEAN, ci : SUBSET Slots, sact : SUBSET Slots,
               writes : Nat, stops : Nat]
SFrames == IF boot = "thawed" THEN responses ELSE << >>
SCommands == SCore(requestQueue, contexts, SFrames, reg.ci, reg.sact, held, status)
SCalls ==
    /\ events \in {{}, {"work"}, {"request"}}
    /\ reg.started => events # {}
    /\ responses # << >> => reg.writes > 0 \/ line
SInv == /\ cmd \in [Requests -> S!Kinds] /\ reg \in SRegisters /\ responses \in Seq(SFrame)
        /\ SBoot /\ SCommands /\ SCalls

\* A frame of slot 0 that starts nothing is added once a queued command was
\* issued.
LEMMA SMarks ==
  ASSUME NEW q, NEW C, NEW R, NEW ci, NEW sact, NEW hd, NEW st,
         SCore(q, C, R, ci, sact, hd, st), ~NoneQueued(st)
  PROVE  SCore(q, C, Append(R, S!Frame(0, 0)), ci, sact, hd, st)
<1> DEFINE f == S!Frame(0, 0)
           T == Append(R, f)
<1>0. /\ SHold(hd, st) /\ SShape(q, C, R, ci, sact) /\ SQueue(q, C, R, hd, st)
      /\ SWork(C, R, hd, st) /\ SStarts(R, hd, st) /\ SIssued(q, C, R, hd, st)
      /\ SBits(ci, sact, hd, st) /\ STokens(q, C, R, ci, hd, st)
  BY DEF SCore
<1>1. f \in SFrame /\ f.slot = 0 /\ f.starts = 0
  BY SlotsAssumption DEF SFrame, S!Frame
<1> HIDE DEF f
<1>2. /\ T \in Seq(SFrame)
      /\ Len(R) + 1 \in DOMAIN T /\ T[Len(R) + 1] = f
      /\ \A i \in DOMAIN T : i \in DOMAIN R \/ i = Len(R) + 1
      /\ \A i \in DOMAIN R : i \in DOMAIN T /\ T[i] = R[i]
  <2>1. R \in Seq(SFrame)
    BY <1>0 DEF SShape
  <2> QED BY <1>1, <2>1, AppendTo
<1> HIDE DEF T
<1>3. SShape(q, C, T, ci, sact)
  BY <1>0, <1>2 DEF SShape
<1>4. \A i \in DOMAIN T : T[i].starts = 0 \/ i \in DOMAIN R
  BY <1>1, <1>2
<1>5. SQueue(q, C, T, hd, st)
  <2>1. \A i \in DOMAIN q : hd[q[i]] # 0
    BY <1>0 DEF SQueue, HasIn
  <2> QED BY <1>0, <1>2, <1>4, <2>1 DEF SQueue
<1>6. SWork(C, T, hd, st)
  <2>1. \A c \in C : c.req # 0
    BY <1>0, SlotsAssumption DEF SShape, SContext
  <2> QED BY <1>0, <1>2, <1>4, <2>1 DEF SWork
<1>7. SStarts(T, hd, st)
  BY <1>0, <1>2, <1>4 DEF SStarts
<1>8. SIssued(q, C, T, hd, st)
  BY <1>0, <1>2 DEF SIssued
<1>9. STokens(q, C, T, ci, hd, st)
  <2>1. \A s \in Slots : Counted(s, st) => s # 0
    BY DEF Counted
  <2>2. \A s \in Slots : Counted(s, st) =>
           \A i \in DOMAIN T : T[i].slot = s => i \in DOMAIN R
    BY <1>1, <1>2, <2>1
  <2> QED BY <1>0, <1>2, <2>2 DEF STokens
<1> QED BY <1>0, <1>3, <1>5, <1>6, <1>7, <1>8, <1>9 DEF SCore, T, f

\* A queued read is dispatched: it works, and its acceptance is on its way.
LEMMA SSplits ==
  ASSUME NEW q, NEW C, NEW R, NEW ci, NEW sact, NEW hd, NEW st,
         SCore(q, C, R, ci, sact, hd, st), NEW c \in C, NEW d \in SContext, NEW a \in SContext,
         c.stage = "fetch", cmd[c.req] = "readQueued",
         d.slot = c.slot, d.req = c.req, d.stage \in SStages,
         a.slot = c.slot, a.req = c.req, a.stage = "accept"
  PROVE  SCore(q, (C \ {c}) \cup {d} \cup {a}, R, ci, sact, hd, st)
<1> DEFINE D == (C \ {c}) \cup {d} \cup {a}
<1>0. /\ SHold(hd, st) /\ SShape(q, C, R, ci, sact) /\ SQueue(q, C, R, hd, st)
      /\ SWork(C, R, hd, st) /\ SStarts(R, hd, st) /\ SIssued(q, C, R, hd, st)
      /\ SBits(ci, sact, hd, st) /\ STokens(q, C, R, ci, hd, st)
  BY DEF SCore
<1>1. SShape(q, D, R, ci, sact)
  BY <1>0 DEF SShape
<1>2. /\ S!Queued(cmd[c.req])
      /\ InWork(c) /\ InReg(c) /\ InWork(d) /\ ~InReg(d) /\ ~InWork(a) /\ InReg(a)
      /\ d # a /\ d.stage # "accept"
  BY DEF InWork, InReg, S!Queued, SStages
<1>3. /\ hd[c.slot] = c.req /\ st[c.req] = "issued"
  BY <1>0, <1>2 DEF SWork
<1>4. /\ \A e \in D : InWork(e) => e = d \/ (e \in C /\ e # c)
      /\ \A e \in D : InReg(e) => e = a \/ (e \in C /\ e # c)
      /\ \A e \in C : e \in D \/ e = c
      /\ d \in D /\ a \in D
      /\ \A e \in D : e.stage = "accept" => e \in C \/ e = a
  BY <1>2
<1> HIDE DEF D
<1>5. SQueue(q, D, R, hd, st)
  BY <1>0, <1>2, <1>4 DEF SQueue
<1>6. SWork(D, R, hd, st)
  <2> SUFFICES ASSUME NEW e \in D
               PROVE  /\ e.stage = "accept" => S!Queued(cmd[e.req]) /\ st[e.req] # "idle"
                      /\ InWork(e) =>
                            /\ hd[e.slot] = e.req /\ st[e.req] = "issued"
                            /\ \A f \in D : InWork(f) /\ f.slot = e.slot => e = f
                            /\ \A j \in DOMAIN R : R[j].starts # e.req
    BY DEF SWork
  <2>1. e.stage = "accept" => S!Queued(cmd[e.req]) /\ st[e.req] # "idle"
    BY <1>0, <1>2, <1>3, <1>4 DEF SWork
  <2>2. \A f \in D : InWork(e) /\ InWork(f) /\ f.slot = e.slot => e = f
    BY <1>0, <1>2, <1>4 DEF SWork
  <2>3. InWork(e) => /\ hd[e.slot] = e.req /\ st[e.req] = "issued"
                     /\ \A j \in DOMAIN R : R[j].starts # e.req
    BY <1>0, <1>2, <1>4 DEF SWork
  <2> QED BY <2>1, <2>2, <2>3
<1>7. SIssued(q, D, R, hd, st)
  BY <1>0, <1>2, <1>4 DEF SIssued
<1>8. STokens(q, D, R, ci, hd, st)
  <2> SUFFICES ASSUME NEW s \in Slots, Counted(s, st)
               PROVE
        /\ \A i \in DOMAIN q : q[i] = s => s \in ci
        /\ \A e \in D : InReg(e) /\ e.slot = s =>
              /\ s \in ci /\ hd[s] = e.req
              /\ \A i \in DOMAIN q : q[i] # s
              /\ \A f \in D : InReg(f) /\ f.slot = s => e = f
        /\ \A i \in DOMAIN R : R[i].slot = s =>
              /\ s \in ci
              /\ \A j \in DOMAIN q : q[j] # s
              /\ \A e \in D : InReg(e) => e.slot # s
              /\ \A j \in DOMAIN R : R[j].slot = s => i = j
        /\ s \in ci => \/ \E i \in DOMAIN q : q[i] = s
                       \/ \E e \in D : InReg(e) /\ e.slot = s
                       \/ \E i \in DOMAIN R : R[i].slot = s
    BY DEF STokens
  <2>1. \A e, f \in D : InReg(e) /\ InReg(f) /\ e.slot = s /\ f.slot = s => e = f
    BY <1>0, <1>2, <1>4 DEF STokens
  <2>2. \A e \in D : InReg(e) /\ e.slot = s =>
              /\ s \in ci /\ hd[s] = e.req
              /\ \A i \in DOMAIN q : q[i] # s
    BY <1>0, <1>2, <1>4 DEF STokens
  <2>3. \A i \in DOMAIN R : R[i].slot = s => \A e \in D : InReg(e) => e.slot # s
    BY <1>0, <1>2, <1>4 DEF STokens
  <2> QED BY <1>0, <1>2, <1>4, <2>1, <2>2, <2>3 DEF STokens
<1> QED BY <1>0, <1>1, <1>5, <1>6, <1>7, <1>8 DEF SCore, D

\* A context that was accepted becomes the register frame of its slot, which
\* starts the data of a queued write.
LEMMA SAccepts ==
  ASSUME NEW q, NEW C, NEW R, NEW ci, NEW sact, NEW hd, NEW st,
         SCore(q, C, R, ci, sact, hd, st), NEW c \in C, c.stage = "accept",
         NEW x, x = IF cmd[c.req] = "writeQueued" THEN c.req ELSE 0
  PROVE  SCore(q, C \ {c}, Append(R, S!Frame(c.slot, x)), ci, sact, hd, st)
<1> DEFINE f == S!Frame(c.slot, x)
           T == Append(R, f)
           D == C \ {c}
<1>0. /\ SHold(hd, st) /\ SShape(q, C, R, ci, sact) /\ SQueue(q, C, R, hd, st)
      /\ SWork(C, R, hd, st) /\ SStarts(R, hd, st) /\ SIssued(q, C, R, hd, st)
      /\ SBits(ci, sact, hd, st) /\ STokens(q, C, R, ci, hd, st)
  BY DEF SCore
<1>1. /\ c.slot \in Slots /\ c.req \in Requests /\ c.req # 0
      /\ f \in SFrame /\ f.slot = c.slot /\ f.starts = x
      /\ InReg(c) /\ S!Queued(cmd[c.req]) /\ st[c.req] # "idle"
  BY <1>0, SlotsAssumption DEF SShape, SContext, SFrame, S!Frame, InReg, SWork
<1> HIDE DEF f
<1>2. /\ T \in Seq(SFrame)
      /\ Len(R) + 1 \in DOMAIN T /\ T[Len(R) + 1] = f
      /\ \A i \in DOMAIN T : i \in DOMAIN R \/ i = Len(R) + 1
      /\ \A i \in DOMAIN R : i \in DOMAIN T /\ T[i] = R[i] /\ i # Len(R) + 1
  <2>1. R \in Seq(SFrame)
    BY <1>0 DEF SShape
  <2> QED BY <1>1, <2>1, AppendTo
<1> HIDE DEF T
<1>3. SShape(q, D, T, ci, sact)
  BY <1>0, <1>2 DEF SShape
<1>4. x = 0 \/ /\ x = c.req /\ InWork(c) /\ hd[c.slot] = c.req /\ st[c.req] = "issued"
               /\ cmd[c.req] = "writeQueued"
               /\ \A j \in DOMAIN R : R[j].starts # c.req
               /\ \A d \in D : InWork(d) => d.slot # c.slot
  BY <1>0 DEF InWork, SWork
<1>5. x = 0 => ~InWork(c)
  BY <1>1 DEF InWork
<1>6. \A s \in Slots : hd[s] # 0 => (hd[s] = x <=> x # 0 /\ s = c.slot)
  BY <1>0, <1>1, <1>4 DEF SHold
<1>7. SQueue(q, D, T, hd, st)
  <2> SUFFICES ASSUME NEW i \in DOMAIN q
               PROVE  /\ HasIn(hd, st, q[i], "issued")
                      /\ \A j \in DOMAIN q : q[i] = q[j] => i = j
                      /\ \A d \in D : InWork(d) => d.slot # q[i]
                      /\ \A j \in DOMAIN T : T[j].starts # hd[q[i]]
    BY DEF SQueue
  <2>1. HasIn(hd, st, q[i], "issued") /\ q[i] \in Slots
    BY <1>0 DEF SQueue, SShape
  <2>2. x # hd[q[i]]
    <3>1. x # 0 => q[i] # c.slot
      BY <1>0, <1>4 DEF SQueue
    <3> QED BY <1>6, <2>1, <3>1 DEF HasIn
  <2>3. \A j \in DOMAIN T : T[j].starts # hd[q[i]]
    BY <1>0, <1>1, <1>2, <2>2 DEF SQueue
  <2> QED BY <1>0, <2>1, <2>3 DEF SQueue
<1>8. SWork(D, T, hd, st)
  <2> SUFFICES ASSUME NEW e \in D
               PROVE  /\ e.stage = "accept" => S!Queued(cmd[e.req]) /\ st[e.req] # "idle"
                      /\ InWork(e) =>
                            /\ hd[e.slot] = e.req /\ st[e.req] = "issued"
                            /\ \A d \in D : InWork(d) /\ d.slot = e.slot => e = d
                            /\ \A j \in DOMAIN T : T[j].starts # e.req
    BY DEF SWork
  <2>1. e \in C /\ e.req \in Requests /\ e.req # 0 /\ e.slot \in Slots
    BY <1>0, SlotsAssumption DEF SShape, SContext
  <2>2. InWork(e) => x # e.req
    <3>1. InWork(e) => hd[e.slot] = e.req
      BY <1>0, <2>1 DEF SWork
    <3> QED BY <1>4, <1>6, <2>1, <3>1
  <2>3. InWork(e) => \A j \in DOMAIN T : T[j].starts # e.req
    BY <1>0, <1>1, <1>2, <2>1, <2>2 DEF SWork
  <2> QED BY <1>0, <2>1, <2>3 DEF SWork
<1>9. SStarts(T, hd, st)
  <2> SUFFICES ASSUME NEW i \in DOMAIN T, T[i].starts # 0
               PROVE  /\ hd[T[i].slot] = T[i].starts /\ st[T[i].starts] = "issued"
                      /\ cmd[T[i].starts] = "writeQueued"
                      /\ \A j \in DOMAIN T : T[j].starts = T[i].starts => i = j
    BY DEF SStarts
  <2>1. CASE i \in DOMAIN R
    <3>1. R[i].starts # x \/ x = 0
      BY <1>4, <2>1
    <3> QED BY <1>0, <1>1, <1>2, <2>1, <3>1 DEF SStarts
  <2>2. CASE i = Len(R) + 1
    <3>1. T[i] = f /\ x # 0
      BY <1>1, <1>2, <2>2
    <3> QED BY <1>1, <1>2, <1>4, <2>2, <3>1
  <2> QED BY <1>2, <2>1, <2>2
<1>10. SIssued(q, D, T, hd, st)
  <2> SUFFICES ASSUME NEW s \in Slots, HasIn(hd, st, s, "issued")
               PROVE  \/ \E i \in DOMAIN q : q[i] = s
                      \/ \E d \in D : InWork(d) /\ d.slot = s
                      \/ \E i \in DOMAIN T : T[i].starts = hd[s]
    BY DEF SIssued
  <2>1. CASE InWork(c) /\ c.slot = s
    <3>1. x = hd[s]
      BY <1>4, <1>5, <2>1
    <3> QED BY <1>1, <1>2, <3>1
  <2>2. CASE ~(InWork(c) /\ c.slot = s)
    BY <1>0, <1>2, <2>2 DEF SIssued
  <2> QED BY <2>1, <2>2
<1>11. STokens(q, D, T, ci, hd, st)
  <2> SUFFICES ASSUME NEW s \in Slots, Counted(s, st)
               PROVE
        /\ \A i \in DOMAIN q : q[i] = s => s \in ci
        /\ \A e \in D : InReg(e) /\ e.slot = s =>
              /\ s \in ci /\ hd[s] = e.req
              /\ \A i \in DOMAIN q : q[i] # s
              /\ \A d \in D : InReg(d) /\ d.slot = s => e = d
        /\ \A i \in DOMAIN T : T[i].slot = s =>
              /\ s \in ci
              /\ \A j \in DOMAIN q : q[j] # s
              /\ \A e \in D : InReg(e) => e.slot # s
              /\ \A j \in DOMAIN T : T[j].slot = s => i = j
        /\ s \in ci => \/ \E i \in DOMAIN q : q[i] = s
                       \/ \E e \in D : InReg(e) /\ e.slot = s
                       \/ \E i \in DOMAIN T : T[i].slot = s
    BY DEF STokens
  <2>1. CASE s # c.slot
    <3>1. \A i \in DOMAIN T : T[i].slot = s => i \in DOMAIN R
      BY <1>1, <1>2, <2>1
    <3> QED BY <1>0, <1>2, <2>1, <3>1 DEF STokens
  <2>2. CASE s = c.slot
    <3>1. /\ s \in ci /\ \A i \in DOMAIN q : q[i] # s
          /\ \A d \in D : InReg(d) => d.slot # s
          /\ \A i \in DOMAIN R : R[i].slot # s
      BY <1>0, <1>1, <2>2 DEF STokens
    <3> QED BY <1>1, <1>2, <2>2, <3>1
  <2> QED BY <2>1, <2>2
<1> QED BY <1>0, <1>3, <1>7, <1>8, <1>9, <1>10, <1>11 DEF SCore, T, D, f

\* A command that is executed leaves the others as they are.
LEMMA SExecutes ==
  ASSUME NEW hd, NEW st, SHold(hd, st), NEW s \in Slots, NEW r \in Requests,
         hd[s] = r, st[r] = "issued",
         NEW su, su = [st EXCEPT ![r] = "executed"]
  PROVE  /\ SHold(hd, su) /\ (NoneQueued(su) <=> NoneQueued(st))
         /\ r # 0 /\ su[r] = "executed" /\ \A p \in Requests \ {r} : su[p] = st[p]
         /\ \A x : \A t \in Slots \ {s} : HasIn(hd, su, t, x) <=> HasIn(hd, st, t, x)
         /\ ~HasIn(hd, su, s, "issued")
<1>1. /\ su \in [Requests -> {"idle", "issued", "executed", "answered"}]
      /\ r # 0 /\ su[r] = "executed" /\ \A p \in Requests \ {r} : su[p] = st[p]
  BY SlotsAssumption DEF SHold
<1>2. NoneQueued(su) <=> NoneQueued(st)
  BY <1>1 DEF NoneQueued
<1>3. SHold(hd, su)
  BY <1>1, <1>2 DEF SHold
<1>4. \A t \in Slots \ {s} : hd[t] # 0 => hd[t] \in Requests \ {r}
  BY <1>1 DEF SHold
<1>5. /\ \A x : \A t \in Slots \ {s} : HasIn(hd, su, t, x) <=> HasIn(hd, st, t, x)
      /\ ~HasIn(hd, su, s, "issued")
  BY <1>1, <1>4 DEF HasIn
<1> QED BY <1>1, <1>2, <1>3, <1>5

\* A queued command is done: its PxSACT bit is reset.
LEMMA SFinishesQueued ==
  ASSUME NEW q, NEW C, NEW R, NEW ci, NEW sact, NEW hd, NEW st,
         SCore(q, C, R, ci, sact, hd, st), NEW c \in C,
         c.stage \in SStages, S!Queued(cmd[c.req]),
         NEW su, su = [st EXCEPT ![c.req] = "executed"]
  PROVE  SCore(q, C \ {c}, R, ci, sact \ {c.slot}, hd, su) /\ ~NoneQueued(su)
<1> DEFINE D == C \ {c}
           r == c.req
<1>0. /\ SHold(hd, st) /\ SShape(q, C, R, ci, sact) /\ SQueue(q, C, R, hd, st)
      /\ SWork(C, R, hd, st) /\ SStarts(R, hd, st) /\ SIssued(q, C, R, hd, st)
      /\ SBits(ci, sact, hd, st) /\ STokens(q, C, R, ci, hd, st)
  BY DEF SCore
<1>1. /\ c.slot \in Slots /\ r \in Requests /\ InWork(c) /\ ~InReg(c)
      /\ hd[c.slot] = r /\ st[r] = "issued"
      /\ \A d \in D : InWork(d) => d.slot # c.slot
      /\ \A j \in DOMAIN R : R[j].starts # r
  BY <1>0 DEF SShape, SContext, InWork, InReg, SStages, SWork
<1>2. /\ SHold(hd, su) /\ (NoneQueued(su) <=> NoneQueued(st))
      /\ r # 0 /\ su[r] = "executed" /\ \A p \in Requests \ {r} : su[p] = st[p]
      /\ \A x : \A t \in Slots \ {c.slot} : HasIn(hd, su, t, x) <=> HasIn(hd, st, t, x)
      /\ ~HasIn(hd, su, c.slot, "issued")
  <2> DEFINE s == c.slot
  <2>1. s \in Slots /\ r \in Requests /\ hd[s] = r /\ su = [st EXCEPT ![r] = "executed"]
    BY <1>1
  <2> HIDE DEF s, r
  <2>2. /\ SHold(hd, su) /\ (NoneQueued(su) <=> NoneQueued(st))
        /\ r # 0 /\ su[r] = "executed" /\ \A p \in Requests \ {r} : su[p] = st[p]
        /\ \A x : \A t \in Slots \ {s} : HasIn(hd, su, t, x) <=> HasIn(hd, st, t, x)
        /\ ~HasIn(hd, su, s, "issued")
    BY <1>0, <1>1, <2>1, SExecutes
  <2> QED BY <2>2 DEF s
<1>3. ~NoneQueued(st)
  BY <1>1 DEF NoneQueued
<1>4. SShape(q, D, R, ci, sact \ {c.slot})
  BY <1>0 DEF SShape
<1>5. SQueue(q, D, R, hd, su)
  <2>1. \A i \in DOMAIN q : q[i] \in Slots \ {c.slot}
    BY <1>0, <1>1 DEF SShape, SQueue
  <2> QED BY <1>0, <1>2, <2>1 DEF SQueue
<1>6. SWork(D, R, hd, su)
  <2>1. \A d \in D : InWork(d) => d.req # r
    BY <1>0, <1>1, <1>2 DEF SWork, SHold, SShape, SContext
  <2>2. \A d \in D : d.req \in Requests
    BY <1>0 DEF SShape, SContext
  <2>3. \A d \in D : d.stage = "accept" => S!Queued(cmd[d.req]) /\ su[d.req] # "idle"
    BY <1>0, <1>2, <2>2 DEF SWork
  <2> QED BY <1>0, <1>2, <2>1, <2>2, <2>3 DEF SWork
<1>7. SStarts(R, hd, su)
  <2>1. \A i \in DOMAIN R : R[i].starts # 0 => R[i].starts \in Requests \ {r}
    <3>1. \A i \in DOMAIN R : R[i] \in SFrame
      BY <1>0 DEF SShape
    <3> QED BY <1>1, <3>1 DEF SFrame
  <2> QED BY <1>0, <1>2, <2>1 DEF SStarts
<1>8. SIssued(q, D, R, hd, su)
  BY <1>0, <1>2 DEF SIssued
<1>9. SBits(ci, sact \ {c.slot}, hd, su)
  BY <1>0, <1>2 DEF SBits
<1>10. STokens(q, D, R, ci, hd, su)
  <2>1. \A s \in Slots : Counted(s, su) <=> Counted(s, st)
    BY <1>2 DEF Counted
  <2>2. \A d \in C : InReg(d) => d \in D
    BY <1>1
  <2> QED BY <1>0, <2>1, <2>2 DEF STokens
<1> QED BY <1>2, <1>3, <1>4, <1>5, <1>6, <1>7, <1>8, <1>9, <1>10 DEF SCore

\* Another command is done: the frame that clears its PxCI bit follows.
LEMMA SFinishes ==
  ASSUME NEW q, NEW C, NEW R, NEW ci, NEW sact, NEW hd, NEW st,
         SCore(q, C, R, ci, sact, hd, st), NEW c \in C,
         c.stage # "accept", ~S!Queued(cmd[c.req]),
         NEW su, su = [st EXCEPT ![c.req] = "executed"]
  PROVE  SCore(q, C \ {c}, Append(R, S!Frame(c.slot, 0)), ci, sact, hd, su)
<1> DEFINE f == S!Frame(c.slot, 0)
           T == Append(R, f)
           D == C \ {c}
           r == c.req
<1>0. /\ SHold(hd, st) /\ SShape(q, C, R, ci, sact) /\ SQueue(q, C, R, hd, st)
      /\ SWork(C, R, hd, st) /\ SStarts(R, hd, st) /\ SIssued(q, C, R, hd, st)
      /\ SBits(ci, sact, hd, st) /\ STokens(q, C, R, ci, hd, st)
  BY DEF SCore
<1>1. /\ c.slot \in Slots /\ r \in Requests /\ InWork(c) /\ InReg(c)
      /\ hd[c.slot] = r /\ st[r] = "issued"
      /\ \A d \in D : InWork(d) => d.slot # c.slot
      /\ \A j \in DOMAIN R : R[j].starts # r
  BY <1>0 DEF SShape, SContext, InWork, InReg, SWork
<1>2. /\ SHold(hd, su) /\ (NoneQueued(su) <=> NoneQueued(st))
      /\ r # 0 /\ su[r] = "executed" /\ \A p \in Requests \ {r} : su[p] = st[p]
      /\ \A x : \A t \in Slots \ {c.slot} : HasIn(hd, su, t, x) <=> HasIn(hd, st, t, x)
      /\ ~HasIn(hd, su, c.slot, "issued")
  <2> DEFINE s == c.slot
  <2>1. s \in Slots /\ r \in Requests /\ hd[s] = r /\ su = [st EXCEPT ![r] = "executed"]
    BY <1>1
  <2> HIDE DEF s, r
  <2>2. /\ SHold(hd, su) /\ (NoneQueued(su) <=> NoneQueued(st))
        /\ r # 0 /\ su[r] = "executed" /\ \A p \in Requests \ {r} : su[p] = st[p]
        /\ \A x : \A t \in Slots \ {s} : HasIn(hd, su, t, x) <=> HasIn(hd, st, t, x)
        /\ ~HasIn(hd, su, s, "issued")
    BY <1>0, <1>1, <2>1, SExecutes
  <2> QED BY <2>2 DEF s
<1>3. f \in SFrame /\ f.slot = c.slot /\ f.starts = 0
  BY <1>1 DEF SFrame, S!Frame
<1> HIDE DEF f
<1>4. /\ T \in Seq(SFrame)
      /\ Len(R) + 1 \in DOMAIN T /\ T[Len(R) + 1] = f
      /\ \A i \in DOMAIN T : i \in DOMAIN R \/ i = Len(R) + 1
      /\ \A i \in DOMAIN R : i \in DOMAIN T /\ T[i] = R[i] /\ i # Len(R) + 1
  <2>1. R \in Seq(SFrame)
    BY <1>0 DEF SShape
  <2> QED BY <1>3, <2>1, AppendTo
<1> HIDE DEF T
<1>5. SShape(q, D, T, ci, sact)
  BY <1>0, <1>4 DEF SShape
<1>6. \A i \in DOMAIN T : T[i].starts = 0 \/ i \in DOMAIN R
  BY <1>3, <1>4
<1>7. SQueue(q, D, T, hd, su)
  <2>1. \A i \in DOMAIN q : q[i] \in Slots \ {c.slot} /\ hd[q[i]] # 0
    BY <1>0, <1>1 DEF SShape, SQueue, HasIn
  <2>2. \A i \in DOMAIN q : \A j \in DOMAIN T : T[j].starts # hd[q[i]]
    BY <1>0, <1>4, <1>6, <2>1 DEF SQueue
  <2> QED BY <1>0, <1>2, <2>1, <2>2 DEF SQueue
<1>8. SWork(D, T, hd, su)
  <2>1. \A d \in D : InWork(d) => d.req # r
    BY <1>0, <1>1, <1>2 DEF SWork, SHold, SShape, SContext
  <2>2. \A d \in D : d.req \in Requests /\ d.req # 0
    BY <1>0, SlotsAssumption DEF SShape, SContext
  <2>3. \A d \in D : d.stage = "accept" => S!Queued(cmd[d.req]) /\ su[d.req] # "idle"
    BY <1>0, <1>2, <2>2 DEF SWork
  <2>4. \A d \in D : InWork(d) => \A j \in DOMAIN T : T[j].starts # d.req
    BY <1>0, <1>4, <1>6, <2>2 DEF SWork
  <2> QED BY <1>0, <1>2, <2>1, <2>2, <2>3, <2>4 DEF SWork
<1>9. SStarts(T, hd, su)
  <2>1. \A i \in DOMAIN R : R[i].starts # 0 => R[i].starts \in Requests \ {r}
    <3>1. \A i \in DOMAIN R : R[i] \in SFrame
      BY <1>0 DEF SShape
    <3> QED BY <1>1, <3>1 DEF SFrame
  <2> QED BY <1>0, <1>2, <1>4, <1>6, <2>1 DEF SStarts
<1>10. SIssued(q, D, T, hd, su)
  <2> SUFFICES ASSUME NEW s \in Slots, HasIn(hd, su, s, "issued")
               PROVE  \/ \E i \in DOMAIN q : q[i] = s
                      \/ \E d \in D : InWork(d) /\ d.slot = s
                      \/ \E i \in DOMAIN T : T[i].starts = hd[s]
    BY DEF SIssued
  <2>1. s # c.slot /\ HasIn(hd, st, s, "issued")
    BY <1>2
  <2> QED BY <1>0, <1>4, <2>1 DEF SIssued
<1>11. SBits(ci, sact, hd, su)
  <2>1. c.slot \notin sact
    BY <1>0, <1>1 DEF SBits
  <2> QED BY <1>0, <1>2, <2>1 DEF SBits
<1>12. STokens(q, D, T, ci, hd, su)
  <2> SUFFICES ASSUME NEW s \in Slots, Counted(s, su)
               PROVE
        /\ \A i \in DOMAIN q : q[i] = s => s \in ci
        /\ \A e \in D : InReg(e) /\ e.slot = s =>
              /\ s \in ci /\ hd[s] = e.req
              /\ \A i \in DOMAIN q : q[i] # s
              /\ \A d \in D : InReg(d) /\ d.slot = s => e = d
        /\ \A i \in DOMAIN T : T[i].slot = s =>
              /\ s \in ci
              /\ \A j \in DOMAIN q : q[j] # s
              /\ \A e \in D : InReg(e) => e.slot # s
              /\ \A j \in DOMAIN T : T[j].slot = s => i = j
        /\ s \in ci => \/ \E i \in DOMAIN q : q[i] = s
                       \/ \E e \in D : InReg(e) /\ e.slot = s
                       \/ \E i \in DOMAIN T : T[i].slot = s
    BY DEF STokens
  <2>0. Counted(s, st)
    BY <1>2 DEF Counted
  <2>1. CASE s # c.slot
    <3>1. \A i \in DOMAIN T : T[i].slot = s => i \in DOMAIN R
      BY <1>3, <1>4, <2>1
    <3> QED BY <1>0, <1>4, <2>0, <2>1, <3>1 DEF STokens
  <2>2. CASE s = c.slot
    <3>1. /\ s \in ci /\ \A i \in DOMAIN q : q[i] # s
          /\ \A d \in D : InReg(d) => d.slot # s
          /\ \A i \in DOMAIN R : R[i].slot # s
      BY <1>0, <1>1, <2>0, <2>2 DEF STokens
    <3> QED BY <1>3, <1>4, <2>2, <3>1
  <2> QED BY <2>1, <2>2
<1> QED BY <1>2, <1>5, <1>7, <1>8, <1>9, <1>10, <1>11, <1>12 DEF SCore, T, f

\* The oldest frame retires: its PxCI bit is cleared, and the queued write it
\* starts goes on with its data.
LEMMA SRetires ==
  ASSUME NEW q, NEW C, NEW R, NEW ci, NEW sact, NEW hd, NEW st,
         SCore(q, C, R, ci, sact, hd, st), R # << >>,
         NEW D, \/ Head(R).starts = 0 /\ D = C
                \/ /\ Head(R).starts # 0
                   /\ \E d \in SContext :
                         /\ D = C \cup {d}
                         /\ d.slot = Head(R).slot /\ d.req = Head(R).starts
                         /\ d.stage \in SStages
  PROVE  SCore(q, D, Tail(R), ci \ {Head(R).slot}, sact, hd, st)
<1> DEFINE f == Head(R)
           T == Tail(R)
           cj == ci \ {f.slot}
<1>0. /\ SHold(hd, st) /\ SShape(q, C, R, ci, sact) /\ SQueue(q, C, R, hd, st)
      /\ SWork(C, R, hd, st) /\ SStarts(R, hd, st) /\ SIssued(q, C, R, hd, st)
      /\ SBits(ci, sact, hd, st) /\ STokens(q, C, R, ci, hd, st)
  BY DEF SCore
<1>1. /\ T \in Seq(SFrame) /\ f = R[1] /\ f \in SFrame /\ 1 \in DOMAIN R
      /\ \A i \in DOMAIN T : i + 1 \in DOMAIN R /\ i + 1 # 1 /\ T[i] = R[i + 1]
      /\ \A i \in DOMAIN R : i # 1 => i - 1 \in DOMAIN T /\ T[i - 1] = R[i]
      /\ \A i, j \in DOMAIN T : i + 1 = j + 1 => i = j
  <2>1. R \in Seq(SFrame)
    BY <1>0 DEF SShape
  <2>2. /\ Tail(R) \in Seq(SFrame) /\ Head(R) = R[1] /\ Head(R) \in SFrame
        /\ DOMAIN R = 1 .. Len(R) /\ Len(R) \in Nat \ {0} /\ 1 \in DOMAIN R
        /\ DOMAIN Tail(R) = 1 .. Len(R) - 1
        /\ \A i \in DOMAIN Tail(R) :
              i + 1 \in DOMAIN R /\ i + 1 # 1 /\ Tail(R)[i] = R[i + 1]
        /\ \A i \in DOMAIN R : i # 1 => i - 1 \in DOMAIN Tail(R) /\ Tail(R)[i - 1] = R[i]
    BY <2>1, TailOf
  <2> QED BY <2>2
<1>2. /\ f.slot \in Slots
      /\ f.starts # 0 =>
            /\ hd[f.slot] = f.starts /\ st[f.starts] = "issued"
            /\ cmd[f.starts] = "writeQueued" /\ S!Queued(cmd[f.starts])
            /\ \A c \in C : InWork(c) => c.slot # f.slot
            /\ \A i \in DOMAIN q : q[i] # f.slot
            /\ \A i \in DOMAIN T : T[i].starts # f.starts
  BY <1>0, <1>1 DEF SFrame, SStarts, SWork, SQueue, S!Queued
<1>3. /\ C \subseteq D
      /\ f.starts = 0 => D = C
      /\ \A e \in D : \/ e \in C
                      \/ /\ f.starts # 0 /\ e.slot = f.slot /\ e.req = f.starts
                         /\ InWork(e) /\ ~InReg(e) /\ e.stage # "accept"
                         /\ D = C \cup {e}
      /\ f.starts # 0 => \E e \in D : e.slot = f.slot /\ e.req = f.starts /\ InWork(e)
      /\ D \subseteq SContext
  <2>1. C \subseteq SContext
    BY <1>0 DEF SShape
  <2>2. ASSUME f.starts # 0, NEW d \in SContext, D = C \cup {d}, d.slot = f.slot,
               d.req = f.starts, d.stage \in SStages
        PROVE  InWork(d) /\ ~InReg(d) /\ d.stage # "accept"
    BY <1>2, <2>2 DEF InWork, InReg, SStages
  <2> HIDE DEF f
  <2>3. CASE f.starts = 0
    BY <2>1, <2>3 DEF f
  <2>4. CASE f.starts # 0
    <3>1. PICK d \in SContext : D = C \cup {d} /\ d.slot = f.slot /\ d.req = f.starts
                                /\ d.stage \in SStages
      BY <2>4 DEF f
    <3> QED BY <2>1, <2>2, <2>4, <3>1
  <2> QED BY <2>3, <2>4
<1> HIDE DEF f, T
<1>4. SShape(q, D, T, cj, sact)
  BY <1>0, <1>1, <1>3 DEF SShape
<1>5. SQueue(q, D, T, hd, st)
  <2> SUFFICES ASSUME NEW i \in DOMAIN q
               PROVE  /\ HasIn(hd, st, q[i], "issued")
                      /\ \A j \in DOMAIN q : q[i] = q[j] => i = j
                      /\ \A d \in D : InWork(d) => d.slot # q[i]
                      /\ \A j \in DOMAIN T : T[j].starts # hd[q[i]]
    BY DEF SQueue
  <2>1. \A d \in D : InWork(d) => d.slot # q[i]
    BY <1>0, <1>2, <1>3 DEF SQueue
  <2>2. \A j \in DOMAIN T : T[j].starts # hd[q[i]]
    BY <1>0, <1>1 DEF SQueue
  <2> QED BY <1>0, <2>1, <2>2 DEF SQueue
<1>6. SWork(D, T, hd, st)
  <2> SUFFICES ASSUME NEW e \in D
               PROVE  /\ e.stage = "accept" => S!Queued(cmd[e.req]) /\ st[e.req] # "idle"
                      /\ InWork(e) =>
                            /\ hd[e.slot] = e.req /\ st[e.req] = "issued"
                            /\ \A d \in D : InWork(d) /\ d.slot = e.slot => e = d
                            /\ \A j \in DOMAIN T : T[j].starts # e.req
    BY DEF SWork
  <2>1. CASE e \in C
    <3>1. InWork(e) => \A j \in DOMAIN T : T[j].starts # e.req
      BY <1>0, <1>1, <2>1 DEF SWork
    <3>2. InWork(e) => \A d \in D : InWork(d) /\ d.slot = e.slot => e = d
      BY <1>0, <1>2, <1>3, <2>1 DEF SWork
    <3> QED BY <1>0, <2>1, <3>1, <3>2 DEF SWork
  <2>2. CASE e \notin C
    <3>1. /\ f.starts # 0 /\ e.slot = f.slot /\ e.req = f.starts
          /\ e.stage # "accept" /\ D = C \cup {e}
      BY <1>3, <2>2
    <3>2. \A d \in D : InWork(d) /\ d.slot = e.slot => e = d
      BY <1>2, <3>1
    <3> QED BY <1>2, <3>1, <3>2
  <2> QED BY <2>1, <2>2
<1>7. SStarts(T, hd, st)
  <2> SUFFICES ASSUME NEW i \in DOMAIN T, T[i].starts # 0
               PROVE  /\ hd[T[i].slot] = T[i].starts /\ st[T[i].starts] = "issued"
                      /\ cmd[T[i].starts] = "writeQueued"
                      /\ \A j \in DOMAIN T : T[j].starts = T[i].starts => i = j
    BY DEF SStarts
  <2>1. i + 1 \in DOMAIN R /\ T[i] = R[i + 1]
    BY <1>1
  <2>2. \A j \in DOMAIN T : T[j].starts = T[i].starts => i + 1 = j + 1
    BY <1>0, <1>1, <2>1 DEF SStarts
  <2> QED BY <1>0, <1>1, <2>1, <2>2 DEF SStarts
<1>8. SIssued(q, D, T, hd, st)
  <2> SUFFICES ASSUME NEW s \in Slots, HasIn(hd, st, s, "issued"),
                      ~\E i \in DOMAIN q : q[i] = s,
                      ~\E d \in D : InWork(d) /\ d.slot = s
               PROVE  \E i \in DOMAIN T : T[i].starts = hd[s]
    BY DEF SIssued
  <2>1. PICK i \in DOMAIN R : R[i].starts = hd[s]
    BY <1>0, <1>3 DEF SIssued
  <2>2. i # 1
    <3> SUFFICES ASSUME i = 1 PROVE FALSE
      OBVIOUS
    <3>1. f.starts = hd[s] /\ hd[s] # 0
      BY <1>1, <2>1 DEF HasIn
    <3>2. f.slot = s
      BY <1>0, <1>2, <3>1 DEF SHold
    <3> QED BY <1>3, <3>1, <3>2
  <2> QED BY <1>1, <2>1, <2>2
<1>9. SBits(cj, sact, hd, st)
  BY <1>0 DEF SBits
<1>10. STokens(q, D, T, cj, hd, st)
  <2> SUFFICES ASSUME NEW s \in Slots, Counted(s, st)
               PROVE
        /\ \A i \in DOMAIN q : q[i] = s => s \in cj
        /\ \A e \in D : InReg(e) /\ e.slot = s =>
              /\ s \in cj /\ hd[s] = e.req
              /\ \A i \in DOMAIN q : q[i] # s
              /\ \A d \in D : InReg(d) /\ d.slot = s => e = d
        /\ \A i \in DOMAIN T : T[i].slot = s =>
              /\ s \in cj
              /\ \A j \in DOMAIN q : q[j] # s
              /\ \A e \in D : InReg(e) => e.slot # s
              /\ \A j \in DOMAIN T : T[j].slot = s => i = j
        /\ s \in cj => \/ \E i \in DOMAIN q : q[i] = s
                       \/ \E e \in D : InReg(e) /\ e.slot = s
                       \/ \E i \in DOMAIN T : T[i].slot = s
    BY DEF STokens
  <2>1. \A e \in D : InReg(e) => e \in C
    BY <1>3
  <2>2. CASE s = f.slot
    <3>1. /\ \A j \in DOMAIN q : q[j] # s
          /\ \A e \in C : InReg(e) => e.slot # s
          /\ \A j \in DOMAIN R : R[j].slot = s => j = 1
      BY <1>0, <1>1, <2>2 DEF STokens
    <3>2. \A i \in DOMAIN T : T[i].slot # s
      BY <1>1, <3>1
    <3> QED BY <2>1, <2>2, <3>1, <3>2
  <2>3. CASE s # f.slot
    <3>1. s \in cj <=> s \in ci
      BY <2>3
    <3>2. \A i, j \in DOMAIN T : T[i].slot = s /\ T[j].slot = s => i + 1 = j + 1
      BY <1>0, <1>1 DEF STokens
    <3>3. \A i \in DOMAIN T : T[i].slot = s =>
              /\ s \in cj
              /\ \A j \in DOMAIN q : q[j] # s
              /\ \A e \in D : InReg(e) => e.slot # s
      BY <1>0, <1>1, <2>1, <3>1 DEF STokens
    <3>4. \A i \in DOMAIN R : R[i].slot = s => \E j \in DOMAIN T : T[j].slot = s
      BY <1>1, <2>3
    <3> HIDE DEF cj
    <3> QED BY <1>0, <1>1, <1>3, <2>1, <3>1, <3>2, <3>3, <3>4 DEF STokens
  <2> QED BY <2>2, <2>3
<1> QED BY <1>0, <1>4, <1>5, <1>6, <1>7, <1>8, <1>9, <1>10 DEF SCore, T, f

\* A poll takes the first slot of the queue.
LEMMA STakes ==
  ASSUME NEW q, NEW C, NEW R, NEW ci, NEW sact, NEW hd, NEW st,
         SCore(q, C, R, ci, sact, hd, st), q # << >>
  PROVE  SCore(Tail(q), C \cup {Context(Head(q), hd[Head(q)], "header", << >>, {})}, R,
               ci, sact, hd, st)
<1> DEFINE s == Head(q)
           p == Tail(q)
           c == Context(s, hd[s], "header", << >>, {})
           D == C \cup {c}
<1>0. /\ SHold(hd, st) /\ SShape(q, C, R, ci, sact) /\ SQueue(q, C, R, hd, st)
      /\ SWork(C, R, hd, st) /\ SStarts(R, hd, st) /\ SIssued(q, C, R, hd, st)
      /\ SBits(ci, sact, hd, st) /\ STokens(q, C, R, ci, hd, st)
  BY DEF SCore
<1>1. /\ p \in Seq(Slots) /\ s = q[1] /\ s \in Slots /\ 1 \in DOMAIN q
      /\ \A i \in DOMAIN p : i + 1 \in DOMAIN q /\ i + 1 # 1 /\ p[i] = q[i + 1]
      /\ \A i \in DOMAIN q : i # 1 => i - 1 \in DOMAIN p /\ p[i - 1] = q[i]
      /\ \A i, j \in DOMAIN p : i + 1 = j + 1 => i = j
  <2>1. q \in Seq(Slots)
    BY <1>0 DEF SShape
  <2>2. /\ Tail(q) \in Seq(Slots) /\ Head(q) = q[1] /\ Head(q) \in Slots
        /\ DOMAIN q = 1 .. Len(q) /\ Len(q) \in Nat \ {0} /\ 1 \in DOMAIN q
        /\ DOMAIN Tail(q) = 1 .. Len(q) - 1
        /\ \A i \in DOMAIN Tail(q) :
              i + 1 \in DOMAIN q /\ i + 1 # 1 /\ Tail(q)[i] = q[i + 1]
        /\ \A i \in DOMAIN q : i # 1 => i - 1 \in DOMAIN Tail(q) /\ Tail(q)[i - 1] = q[i]
    BY <2>1, TailOf
  <2> QED BY <2>2
<1>2. /\ hd[s] # 0 /\ st[hd[s]] = "issued" /\ hd[s] \in Requests
      /\ \A d \in C : InWork(d) => d.slot # s
      /\ \A j \in DOMAIN R : R[j].starts # hd[s]
      /\ \A i \in DOMAIN q : q[i] = s => i = 1
      /\ \A i \in DOMAIN p : p[i] # s
  BY <1>0, <1>1 DEF SQueue, HasIn, SHold
<1>3. /\ c \in SContext /\ c.slot = s /\ c.req = hd[s] /\ c.stage = "header"
      /\ InWork(c) /\ InReg(c)
  BY <1>1, <1>2 DEF Context, SContext, InWork, InReg, SStages
<1> HIDE DEF s, p, c
<1>4. SShape(p, D, R, ci, sact)
  BY <1>0, <1>1, <1>3 DEF SShape
<1>5. SQueue(p, D, R, hd, st)
  <2> SUFFICES ASSUME NEW i \in DOMAIN p
               PROVE  /\ HasIn(hd, st, p[i], "issued")
                      /\ \A j \in DOMAIN p : p[i] = p[j] => i = j
                      /\ \A d \in D : InWork(d) => d.slot # p[i]
                      /\ \A j \in DOMAIN R : R[j].starts # hd[p[i]]
    BY DEF SQueue
  <2>1. i + 1 \in DOMAIN q /\ p[i] = q[i + 1]
    BY <1>1
  <2>2. \A j \in DOMAIN p : p[i] = p[j] => i + 1 = j + 1
    BY <1>0, <1>1, <2>1 DEF SQueue
  <2>3. \A d \in D : InWork(d) => d.slot # p[i]
    BY <1>0, <1>2, <1>3, <2>1 DEF SQueue
  <2> QED BY <1>0, <1>1, <2>1, <2>2, <2>3 DEF SQueue
<1>6. SWork(D, R, hd, st)
  <2>1. \A d \in D : d \in C \/ d = c
    OBVIOUS
  <2>2. \A d, e \in D : InWork(d) /\ InWork(e) /\ d.slot = e.slot => d = e
    BY <1>0, <1>2, <1>3, <2>1 DEF SWork
  <2>3. \A d \in D : /\ d.stage = "accept" => S!Queued(cmd[d.req]) /\ st[d.req] # "idle"
                     /\ InWork(d) => /\ hd[d.slot] = d.req /\ st[d.req] = "issued"
                                     /\ \A j \in DOMAIN R : R[j].starts # d.req
    BY <1>0, <1>2, <1>3, <2>1 DEF SWork
  <2> QED BY <2>2, <2>3 DEF SWork
<1>7. SIssued(p, D, R, hd, st)
  <2> SUFFICES ASSUME NEW t \in Slots, HasIn(hd, st, t, "issued"),
                      ~\E d \in D : InWork(d) /\ d.slot = t,
                      ~\E i \in DOMAIN R : R[i].starts = hd[t]
               PROVE  \E i \in DOMAIN p : p[i] = t
    BY DEF SIssued
  <2>1. PICK i \in DOMAIN q : q[i] = t
    BY <1>0 DEF SIssued
  <2>2. i # 1
    BY <1>1, <1>3, <2>1
  <2> QED BY <1>1, <2>1, <2>2
<1>8. STokens(p, D, R, ci, hd, st)
  <2> SUFFICES ASSUME NEW t \in Slots, Counted(t, st)
               PROVE
        /\ \A i \in DOMAIN p : p[i] = t => t \in ci
        /\ \A e \in D : InReg(e) /\ e.slot = t =>
              /\ t \in ci /\ hd[t] = e.req
              /\ \A i \in DOMAIN p : p[i] # t
              /\ \A d \in D : InReg(d) /\ d.slot = t => e = d
        /\ \A i \in DOMAIN R : R[i].slot = t =>
              /\ t \in ci
              /\ \A j \in DOMAIN p : p[j] # t
              /\ \A e \in D : InReg(e) => e.slot # t
              /\ \A j \in DOMAIN R : R[j].slot = t => i = j
        /\ t \in ci => \/ \E i \in DOMAIN p : p[i] = t
                       \/ \E e \in D : InReg(e) /\ e.slot = t
                       \/ \E i \in DOMAIN R : R[i].slot = t
    BY DEF STokens
  <2>1. CASE t = s
    <3>1. /\ t \in ci
          /\ \A e \in C : InReg(e) => e.slot # t
          /\ \A i \in DOMAIN R : R[i].slot # t
      BY <1>0, <1>1, <2>1 DEF STokens
    <3> QED BY <1>2, <1>3, <2>1, <3>1
  <2>2. CASE t # s
    <3>1. \A e \in D : e.slot = t => e \in C
      BY <1>3, <2>2
    <3>2. \A i \in DOMAIN q : q[i] = t => \E j \in DOMAIN p : p[j] = t
      BY <1>1, <2>2
    <3>3. \A j \in DOMAIN p : p[j] = t => \E i \in DOMAIN q : q[i] = t
      BY <1>1
    <3> QED BY <1>0, <3>1, <3>2, <3>3 DEF STokens
  <2> QED BY <2>1, <2>2
<1> QED BY <1>0, <1>4, <1>5, <1>6, <1>7, <1>8 DEF SCore, s, p, c

\* Request r goes into slot s, as MayUse allows.
SPut(hd, st, sact, r, s, hu, su, sb) ==
    /\ hd[s] = 0 /\ st[r] = "idle"
    /\ \A t \in Slots : hd[t] # 0 => (S!Queued(cmd[hd[t]]) <=> S!Queued(cmd[r]))
    /\ s = 0 /\ ~S!Queued(cmd[r]) => NoneQueued(st)
    /\ hu = [hd EXCEPT ![s] = r] /\ su = [st EXCEPT ![r] = "issued"]
    /\ sb = IF S!Queued(cmd[r]) THEN sact \cup {s} ELSE sact

\* The driver issues a request in a free slot.
LEMMA SPuts ==
  ASSUME NEW q, NEW C, NEW R, NEW ci, NEW sact, NEW hd, NEW st,
         SCore(q, C, R, ci, sact, hd, st), NEW r \in Requests, NEW s \in Slots,
         NEW hu, NEW su, NEW sb, SPut(hd, st, sact, r, s, hu, su, sb)
  PROVE  s \notin ci /\ SCore(Append(q, s), C, R, ci \cup {s}, sb, hu, su)
<1> DEFINE p == Append(q, s)
           cj == ci \cup {s}
<1>. hd[s] = 0 /\ st[r] = "idle" /\ hu = [hd EXCEPT ![s] = r] /\ su = [st EXCEPT ![r] = "issued"]
  BY DEF SPut
<1>0. /\ SHold(hd, st) /\ SShape(q, C, R, ci, sact) /\ SQueue(q, C, R, hd, st)
      /\ SWork(C, R, hd, st) /\ SStarts(R, hd, st) /\ SIssued(q, C, R, hd, st)
      /\ SBits(ci, sact, hd, st) /\ STokens(q, C, R, ci, hd, st)
  BY DEF SCore
<1>1. /\ p \in Seq(Slots)
      /\ Len(q) + 1 \in DOMAIN p /\ p[Len(q) + 1] = s
      /\ \A i \in DOMAIN p : i \in DOMAIN q \/ i = Len(q) + 1
      /\ \A i \in DOMAIN q : i \in DOMAIN p /\ p[i] = q[i] /\ i # Len(q) + 1 /\ q[i] \in Slots
  <2>1. q \in Seq(Slots)
    BY <1>0 DEF SShape
  <2> QED BY <2>1, AppendTo
<1> HIDE DEF p
<1>2. /\ r # 0 /\ hu[s] = r /\ su[r] = "issued"
      /\ hu \in [Slots -> Requests \cup {0}]
      /\ su \in [Requests -> {"idle", "issued", "executed", "answered"}]
      /\ \A t \in Slots \ {s} : hu[t] = hd[t]
      /\ \A x \in Requests \ {r} : su[x] = st[x]
      /\ \A t \in Slots : hd[t] # r
      /\ \A t \in Slots : hd[t] # 0 => hd[t] \in Requests \ {r}
  BY <1>0, SlotsAssumption DEF SHold
<1>3. /\ NoneQueued(su) => NoneQueued(st) /\ ~S!Queued(cmd[r])
      /\ NoneQueued(st) /\ ~S!Queued(cmd[r]) => NoneQueued(su)
  BY <1>2 DEF NoneQueued
<1>4. SHold(hu, su)
  <2>1. /\ \A t, u \in Slots : hu[t] = hu[u] /\ hu[t] # 0 => t = u
        /\ \A t \in Slots : hu[t] # 0 => su[hu[t]] \in {"issued", "executed"}
    BY <1>0, <1>2 DEF SHold
  <2>2. hu[0] # 0 /\ ~S!Queued(cmd[hu[0]]) => NoneQueued(su)
    <3>1. CASE s = 0
      BY <1>2, <1>3, <3>1 DEF SPut
    <3>2. CASE s # 0
      BY <1>0, <1>2, <1>3, <3>2, SlotsAssumption DEF SHold, SPut
    <3> QED BY <3>1, <3>2
  <2> QED BY <1>2, <2>1, <2>2 DEF SHold
<1>5. /\ \A x : ~HasIn(hd, st, s, x)
      /\ HasIn(hu, su, s, "issued")
      /\ \A x : \A t \in Slots \ {s} : HasIn(hu, su, t, x) <=> HasIn(hd, st, t, x)
  BY <1>2 DEF HasIn
<1>6. s \notin ci
  BY <1>0 DEF SBits
<1>7. SShape(p, C, R, cj, sb)
  BY <1>0, <1>1 DEF SShape, SPut
<1>8. /\ \A c \in C : c.req \in Requests /\ c.req # 0 /\ c.slot \in Slots
      /\ \A i \in DOMAIN R : R[i].starts \in Requests \cup {0} /\ R[i].slot \in Slots
  <2>1. \A i \in DOMAIN R : R[i] \in SFrame
    BY <1>0 DEF SShape
  <2> QED BY <1>0, <2>1, SlotsAssumption DEF SShape, SContext, SFrame
<1>9. /\ \A c \in C : InWork(c) => c.slot # s /\ c.req # r
      /\ \A i \in DOMAIN R : R[i].starts # r
      /\ \A i \in DOMAIN R : R[i].starts # 0 => R[i].slot # s
      /\ \A i \in DOMAIN q : q[i] # s
  <2>1. \A i \in DOMAIN q : q[i] # s
    BY <1>0, <1>5 DEF SQueue
  <2>2. \A c \in C : InWork(c) => c.slot # s /\ c.req # r
    BY <1>0, <1>8 DEF SWork
  <2>3. \A i \in DOMAIN R : R[i].starts # 0 => R[i].slot # s /\ R[i].starts # r
    BY <1>0 DEF SStarts
  <2> QED BY <1>2, <2>1, <2>2, <2>3
<1>10. SQueue(p, C, R, hu, su)
  <2> SUFFICES ASSUME NEW i \in DOMAIN p
               PROVE  /\ HasIn(hu, su, p[i], "issued")
                      /\ \A j \in DOMAIN p : p[i] = p[j] => i = j
                      /\ \A d \in C : InWork(d) => d.slot # p[i]
                      /\ \A j \in DOMAIN R : R[j].starts # hu[p[i]]
    BY DEF SQueue
  <2>1. CASE i \in DOMAIN q
    <3>1. /\ p[i] = q[i] /\ q[i] \in Slots \ {s} /\ hu[q[i]] = hd[q[i]]
          /\ HasIn(hu, su, q[i], "issued") <=> HasIn(hd, st, q[i], "issued")
      BY <1>1, <1>2, <1>5, <1>9, <2>1
    <3>2. \A j \in DOMAIN p : p[i] = p[j] => j \in DOMAIN q /\ q[i] = q[j]
      BY <1>1, <3>1
    <3> QED BY <1>0, <2>1, <3>1, <3>2 DEF SQueue
  <2>2. CASE i = Len(q) + 1
    BY <1>1, <1>2, <1>5, <1>9, <2>2
  <2> QED BY <1>1, <2>1, <2>2
<1>11. SWork(C, R, hu, su)
  <2>1. \A c \in C : st[c.req] # "idle" => c.req # r
    OBVIOUS
  <2> QED BY <1>0, <1>2, <1>8, <1>9, <2>1 DEF SWork
<1>12. SStarts(R, hu, su)
  BY <1>0, <1>2, <1>8, <1>9 DEF SStarts
<1>13. SIssued(p, C, R, hu, su)
  <2> SUFFICES ASSUME NEW t \in Slots, HasIn(hu, su, t, "issued")
               PROVE  \/ \E i \in DOMAIN p : p[i] = t
                      \/ \E d \in C : InWork(d) /\ d.slot = t
                      \/ \E i \in DOMAIN R : R[i].starts = hu[t]
    BY DEF SIssued
  <2>1. CASE t = s
    BY <1>1, <2>1
  <2>2. CASE t # s
    <3>1. hu[t] = hd[t] /\ HasIn(hd, st, t, "issued")
      BY <1>2, <1>5, <2>2
    <3>2. (\E i \in DOMAIN q : q[i] = t) => \E i \in DOMAIN p : p[i] = t
      BY <1>1
    <3> QED BY <1>0, <3>1, <3>2 DEF SIssued
  <2> QED BY <2>1, <2>2
<1>14. SBits(cj, sb, hu, su)
  <2> SUFFICES ASSUME NEW t \in Slots
               PROVE  /\ t \in cj => hu[t] # 0
                      /\ t \in sb <=> HasIn(hu, su, t, "issued") /\ S!Queued(cmd[hu[t]])
    BY DEF SBits
  <2>1. CASE t = s
    <3>1. s \notin sact
      BY <1>0, <1>5 DEF SBits
    <3> QED BY <1>2, <1>5, <2>1, <3>1 DEF SPut
  <2>2. CASE t # s
    BY <1>0, <1>2, <1>5, <2>2 DEF SBits, SPut
  <2> QED BY <2>1, <2>2
<1>15. STokens(p, C, R, cj, hu, su)
  <2> SUFFICES ASSUME NEW t \in Slots, Counted(t, su)
               PROVE
        /\ \A i \in DOMAIN p : p[i] = t => t \in cj
        /\ \A e \in C : InReg(e) /\ e.slot = t =>
              /\ t \in cj /\ hu[t] = e.req
              /\ \A i \in DOMAIN p : p[i] # t
              /\ \A d \in C : InReg(d) /\ d.slot = t => e = d
        /\ \A i \in DOMAIN R : R[i].slot = t =>
              /\ t \in cj
              /\ \A j \in DOMAIN p : p[j] # t
              /\ \A e \in C : InReg(e) => e.slot # t
              /\ \A j \in DOMAIN R : R[j].slot = t => i = j
        /\ t \in cj => \/ \E i \in DOMAIN p : p[i] = t
                       \/ \E e \in C : InReg(e) /\ e.slot = t
                       \/ \E i \in DOMAIN R : R[i].slot = t
    BY DEF STokens
  <2>0. Counted(t, st)
    BY <1>3 DEF Counted
  <2>1. CASE t = s
    <3>1. /\ \A e \in C : InReg(e) => e.slot # t
          /\ \A i \in DOMAIN R : R[i].slot # t
      BY <1>0, <1>6, <2>0, <2>1 DEF STokens
    <3> QED BY <1>1, <2>1, <3>1
  <2>2. CASE t # s
    <3>1. \A i \in DOMAIN p : p[i] = t => i \in DOMAIN q /\ q[i] = t
      BY <1>1, <2>2
    <3>2. hu[t] = hd[t] /\ (t \in cj <=> t \in ci)
      BY <1>2, <2>2
    <3> HIDE DEF cj
    <3> QED BY <1>0, <1>1, <2>0, <3>1, <3>2 DEF STokens
  <2> QED BY <2>1, <2>2
<1> QED BY <1>4, <1>6, <1>7, <1>10, <1>11, <1>12, <1>13, <1>14, <1>15 DEF SCore, p

\* The driver takes back the slots that have no bit set: all are executed.
LEMMA SCollects ==
  ASSUME NEW q, NEW C, NEW R, NEW ci, NEW sact, NEW hd, NEW st,
         SCore(q, C, R, ci, sact, hd, st),
         NEW done, done = {s \in Slots : hd[s] # 0} \ (ci \cup sact),
         NEW su, su = [r \in Requests |-> IF \E s \in done : hd[s] = r THEN "answered" ELSE st[r]],
         NEW hu, hu = [s \in Slots |-> IF s \in done THEN 0 ELSE hd[s]]
  PROVE  /\ \A s \in done : HasIn(hd, st, s, "executed")
         /\ SCore(q, C, R, ci, sact, hu, su)
<1>0. /\ SHold(hd, st) /\ SShape(q, C, R, ci, sact) /\ SQueue(q, C, R, hd, st)
      /\ SWork(C, R, hd, st) /\ SStarts(R, hd, st) /\ SIssued(q, C, R, hd, st)
      /\ SBits(ci, sact, hd, st) /\ STokens(q, C, R, ci, hd, st)
  BY DEF SCore
<1>1. ASSUME NEW s \in done
      PROVE  HasIn(hd, st, s, "executed")
  <2>1. /\ s \in Slots /\ hd[s] # 0 /\ s \notin ci /\ s \notin sact
        /\ st[hd[s]] \in {"issued", "executed"}
    BY <1>0 DEF SHold
  <2>2. SUFFICES ASSUME HasIn(hd, st, s, "issued")
                 PROVE  FALSE
    BY <2>1 DEF HasIn
  <2>3. ~S!Queued(cmd[hd[s]])
    BY <1>0, <2>1, <2>2 DEF SBits
  <2>4. Counted(s, st)
    BY <1>0, <2>1, <2>3 DEF SHold, Counted
  <2>5. \A i \in DOMAIN q : q[i] # s
    BY <1>0, <2>1, <2>4 DEF STokens
  <2>6. ~\E c \in C : InWork(c) /\ c.slot = s
    <3> SUFFICES ASSUME NEW c \in C, InWork(c), c.slot = s
                 PROVE  FALSE
      OBVIOUS
    <3>1. InReg(c)
      BY <1>0, <2>3 DEF SWork, InReg
    <3> QED BY <1>0, <2>1, <2>4, <3>1 DEF STokens
  <2>7. ~\E i \in DOMAIN R : R[i].starts = hd[s]
    <3>1. S!Queued("writeQueued")
      BY DEF S!Queued
    <3> QED BY <1>0, <2>1, <2>3, <3>1 DEF SStarts
  <2> QED BY <1>0, <2>1, <2>2, <2>5, <2>6, <2>7 DEF SIssued
<1>2. /\ hu \in [Slots -> Requests \cup {0}]
      /\ su \in [Requests -> {"idle", "issued", "executed", "answered"}]
      /\ \A s \in Slots : s \notin done => hu[s] = hd[s]
      /\ \A s \in done : hu[s] = 0
      /\ \A r \in Requests : st[r] = "issued" => su[r] = "issued"
      /\ \A r \in Requests : su[r] = "issued" => st[r] = "issued"
      /\ \A r \in Requests : st[r] = "idle" <=> su[r] = "idle"
      /\ \A s \in Slots : hd[s] # 0 /\ s \notin done => su[hd[s]] = st[hd[s]]
  BY <1>0, <1>1 DEF SHold, HasIn
<1>3. NoneQueued(su) <=> NoneQueued(st)
  BY <1>2 DEF NoneQueued
<1>4. \A s \in Slots : Counted(s, su) <=> Counted(s, st)
  BY <1>3 DEF Counted
<1>5. /\ \A s \in Slots : HasIn(hd, st, s, "issued") => s \notin done
      /\ \A s \in Slots : HasIn(hu, su, s, "issued") <=> HasIn(hd, st, s, "issued")
      /\ \A s \in ci \cup sact : s \notin done
  BY <1>0, <1>1, <1>2 DEF HasIn, SHold
<1>6. SHold(hu, su)
  BY <1>0, <1>2, <1>3, SlotsAssumption DEF SHold
<1>7. SQueue(q, C, R, hu, su)
  <2>1. \A i \in DOMAIN q : q[i] \in Slots
    BY <1>0 DEF SShape
  <2>2. \A i \in DOMAIN q : HasIn(hd, st, q[i], "issued")
    BY <1>0 DEF SQueue
  <2>3. \A i \in DOMAIN q : HasIn(hu, su, q[i], "issued") /\ hu[q[i]] = hd[q[i]]
    BY <1>2, <1>5, <2>1, <2>2
  <2> QED BY <1>0, <2>3 DEF SQueue
<1>8. SWork(C, R, hu, su)
  <2>1. \A c \in C : c.slot \in Slots /\ c.req \in Requests /\ c.req # 0
    BY <1>0, SlotsAssumption DEF SShape, SContext
  <2>2. \A c \in C : hd[c.slot] = c.req /\ st[c.req] = "issued" =>
                        hu[c.slot] = c.req /\ su[c.req] = "issued"
    BY <1>2, <1>5, <2>1 DEF HasIn
  <2> QED BY <1>0, <1>2, <2>1, <2>2 DEF SWork
<1>9. SStarts(R, hu, su)
  <2>1. \A i \in DOMAIN R : R[i] \in SFrame
    BY <1>0 DEF SShape
  <2>2. \A i \in DOMAIN R : R[i].slot \in Slots /\ R[i].starts \in Requests \cup {0}
    BY <2>1 DEF SFrame
  <2>3. \A i \in DOMAIN R : R[i].starts # 0 /\ hd[R[i].slot] = R[i].starts /\ st[R[i].starts] = "issued" =>
                        hu[R[i].slot] = R[i].starts /\ su[R[i].starts] = "issued"
    BY <1>2, <1>5, <2>2 DEF HasIn
  <2> QED BY <1>0, <2>3 DEF SStarts
<1>10. SIssued(q, C, R, hu, su)
  BY <1>0, <1>2, <1>5 DEF SIssued
<1>11. SBits(ci, sact, hu, su)
  BY <1>0, <1>2, <1>5 DEF SBits
<1>12. STokens(q, C, R, ci, hu, su)
  <2>1. \A s \in Slots : s \in ci => hu[s] = hd[s]
    BY <1>2, <1>5
  <2> QED BY <1>0, <1>4, <2>1 DEF STokens
<1> QED BY <1>0, <1>1, <1>6, <1>7, <1>8, <1>9, <1>10, <1>11, <1>12 DEF SCore

\* What SATA and CommandSlots call by the same name is the same.
LEMMA SSame ==
    /\ S!CommonInit <=> CommonInit
    /\ S!Outstanding = Outstanding
    /\ \A r, s : S!Put(r, s) <=> Put(r, s)
    /\ \A done : S!TakeBack(done) <=> TakeBack(done)
    /\ \A s, r, stage, rest, need :
          S!Context(s, r, stage, rest, need) = Context(s, r, stage, rest, need)
    /\ \A s, r, path : S!Enter(s, r, path) = Enter(s, r, path)
    /\ \A e, n : S!TakeRequest(e, n) <=> TakeRequest(e, n)
BY DEF S!CommonInit, CommonInit, S!Outstanding, Outstanding, S!Put, Put, S!TakeBack,
       TakeBack, S!Context, Context, S!Enter, Enter, S!TakeRequest, TakeRequest

\* The commands do not change: what holds of the next state holds in it.
LEMMA SPrimes ==
  ASSUME cmd' = cmd,
         SCore(requestQueue', contexts', SFrames', reg'.ci, reg'.sact, held', status')
  PROVE  SCommands'
<1> DEFINE q == requestQueue'
           C == contexts'
           R == SFrames'
           ci == reg'.ci
           sact == reg'.sact
           hd == held'
           st == status'
<1>0. /\ SHold(hd, st) /\ SShape(q, C, R, ci, sact) /\ SQueue(q, C, R, hd, st)
      /\ SWork(C, R, hd, st) /\ SStarts(R, hd, st) /\ SIssued(q, C, R, hd, st)
      /\ SBits(ci, sact, hd, st) /\ STokens(q, C, R, ci, hd, st)
  BY DEF SCore
<1>1. SHold(held, status)'
  BY <1>0 DEF SHold, NoneQueued, S!Queued
<1>2. SShape(requestQueue, contexts, SFrames, reg.ci, reg.sact)'
  BY <1>0 DEF SShape
<1>3. SQueue(requestQueue, contexts, SFrames, held, status)'
  BY <1>0 DEF SQueue, HasIn, InWork
<1>4. SWork(contexts, SFrames, held, status)'
  BY <1>0 DEF SWork, InWork, S!Queued
<1>5. SStarts(SFrames, held, status)'
  BY <1>0 DEF SStarts
<1>6. SIssued(requestQueue, contexts, SFrames, held, status)'
  BY <1>0 DEF SIssued, HasIn, InWork
<1>7. SBits(reg.ci, reg.sact, held, status)'
  BY <1>0 DEF SBits, HasIn, S!Queued
<1>8. STokens(requestQueue, contexts, SFrames, reg.ci, held, status)'
  BY <1>0 DEF STokens, Counted, NoneQueued, InReg, S!Queued
<1> QED BY <1>1, <1>2, <1>3, <1>4, <1>5, <1>6, <1>7, <1>8 DEF SCommands, SCore

LEMMA SInitHolds ==
  ASSUME S!SATAInit
  PROVE  SInv
<1>1. CommonInit /\ Holding
  BY SSame, HoldingInit DEF S!SATAInit
<1>2. cmd \in [Requests -> S!Kinds]
  BY AdapterAssumption DEF S!SATAInit
<1>3. /\ boot = "off" /\ requestQueue = << >> /\ contexts = {} /\ responses = << >>
      /\ events = {} /\ \A s \in Slots : held[s] = 0
      /\ \A r \in Requests : status[r] = "idle"
  BY <1>1 DEF CommonInit
<1>4. /\ reg \in SRegisters /\ reg.ci = {} /\ reg.sact = {} /\ reg.started = FALSE
  BY DEF S!SATAInit, SRegisters
<1>5. << >> \in Seq(SFrame) /\ << >> \in Seq(Slots) /\ SFrames = << >>
  BY <1>3 DEF SFrames
<1>6. SHold(held, status)
  BY <1>1, <1>3, SlotsAssumption DEF Holding, SHold
<1>7. SCommands
  BY <1>3, <1>4, <1>5, <1>6
     DEF SCommands, SCore, SShape, SQueue, SWork, SStarts, SIssued, SBits, STokens, HasIn
<1> QED BY <1>2, <1>3, <1>4, <1>5, <1>7 DEF SInv, SBoot, SCalls

\* Registers, contexts and frames as the handlers pass them on.
Sys(g, C, R) == [reg |-> g, contexts |-> C, responses |-> R]

\* What a handler may do to the registers that are not part of SCore.
Alike(h, g) == h \in SRegisters /\ h.started = g.started /\ h.ci = g.ci

LEMMA SSubmits ==
  ASSUME NEW g \in SRegisters, NEW C, NEW R, NEW f, NEW tags
  PROVE  \E h \in SRegisters :
            /\ S!SubmitFIS(Sys(g, C, R), f, tags) = Sys(h, C, Append(R, f))
            /\ Alike(h, g) /\ h.sact = g.sact \ tags /\ h.writes > 0
<1> DEFINE w == g.writes + 1
           a == g.sact \ tags
           h == [g EXCEPT !.sact = a, !.writes = w]
           x == Sys(g, C, R)
           y == [x EXCEPT !.responses = Append(@, f), !.reg.sact = @ \ tags]
<1>1. w \in Nat /\ w > 0 /\ a \in SUBSET Slots
  BY DEF SRegisters
<1>2. y = Sys([g EXCEPT !.sact = a], C, Append(R, f))
  <2> DEFINE T == Append(R, f)
  <2>1. x.reg = g /\ x.contexts = C /\ x.responses = R
    BY DEF Sys
  <2>2. y = [x EXCEPT !.responses = T, !.reg = [g EXCEPT !.sact = a]]
    BY <2>1
  <2> DEFINE b == [g EXCEPT !.sact = a]
  <2> HIDE DEF T, b
  <2>3. /\ [Sys(g, C, R) EXCEPT !.responses = T] = Sys(g, C, T)
        /\ [Sys(g, C, T) EXCEPT !.reg = b] = Sys(b, C, T)
    BY DEF Sys
  <2>4. [x EXCEPT !.responses = T, !.reg = b] = Sys(b, C, T)
    BY <2>3
  <2> QED BY <2>2, <2>4 DEF T, b
<1>3. [[g EXCEPT !.sact = a] EXCEPT !.writes = @ + 1] = h
  BY DEF SRegisters
<1>4. S!SubmitFIS(x, f, tags) = [y EXCEPT !.reg.writes = @ + 1]
  BY DEF S!SubmitFIS, S!HandleResponse
<1>5. S!SubmitFIS(x, f, tags) = Sys(h, C, Append(R, f))
  <2> DEFINE b == [g EXCEPT !.sact = a]
             T == Append(R, f)
             z == Sys(b, C, T)
  <2>1. z.reg = b /\ z.contexts = C /\ z.responses = T
    BY DEF Sys
  <2>2. [z EXCEPT !.reg.writes = @ + 1] = [z EXCEPT !.reg = [b EXCEPT !.writes = @ + 1]]
    <3> HIDE DEF b
    <3> QED BY <2>1
  <2>3. [z EXCEPT !.reg.writes = @ + 1] = [z EXCEPT !.reg = h]
    BY <1>3, <2>2
  <2> HIDE DEF b, T, h
  <2>4. [z EXCEPT !.reg = h] = Sys(h, C, T)
    BY <2>1 DEF Sys
  <2> HIDE DEF z
  <2> QED BY <1>2, <1>4, <2>3, <2>4 DEF b, T, z
<1> HIDE DEF w, a
<1>6. h \in SRegisters /\ Alike(h, g) /\ h.sact = a /\ h.writes = w
  BY <1>1 DEF SRegisters, Alike
<1> HIDE DEF h
<1> QED BY <1>1, <1>5, <1>6 DEF x, a

\* The invariant after a step that leaves the driver and the queue alone.
LEMMA SBecomes ==
  ASSUME SInv, boot = "thawed", UNCHANGED <<boot, events, line, cmd>>,
         NEW h, NEW C, NEW R, S!Becomes(Sys(h, C, R)), Alike(h, reg),
         (R = responses /\ h.writes = reg.writes) \/ h.writes > 0,
         SCore(requestQueue', C, R, h.ci, h.sact, held', status')
  PROVE  SInv'
<1>1. reg' = h /\ contexts' = C /\ responses' = R
  BY DEF S!Becomes, Sys
<1>2. SFrames' = R
  BY <1>1 DEF SFrames
<1>3. SCommands'
  BY <1>1, <1>2, SPrimes
<1>4. R \in Seq(SFrame)
  BY DEF SCore, SShape
<1>5. SCalls'
  BY <1>1 DEF SInv, SCalls, Alike
<1>6. SBoot'
  BY DEF SBoot
<1> QED BY <1>1, <1>3, <1>4, <1>5, <1>6 DEF SInv, Alike

\* The stages of a command.
LEMMA SPathOf ==
  ASSUME NEW k \in S!Kinds
  PROVE  /\ S!Path(k) \in Seq(SStages)
         /\ S!Queued(k) => S!Path(k) # << >>
<1> USE DEF S!Path, S!ReadDMA, S!WriteDMA, S!ReadNCQ, S!WriteNCQ, S!FlushCache,
            S!IdentifyDevice, S!SetMode, S!ReadVerify, S!Invalid, S!Queued
<1>1. S!Path(k) \in {<< >>, <<"nand">>, <<"data">>, <<"nand", "data">>, <<"data", "nand">>}
  <2>1. CASE k \in {"read", "write", "readQueued", "writeQueued"}
    BY <2>1
  <2>2. CASE k \in {"flush", "identify", "feature", "verify", "invalid"}
    BY <2>2
  <2> QED BY <2>1, <2>2 DEF S!Kinds
<1>2. S!Queued(k) => S!Path(k) \in {<<"nand", "data">>, <<"data", "nand">>}
  OBVIOUS
<1> DEFINE p == S!Path(k)
<1> HIDE DEF p
<1>3. \A x, y \in SStages : /\ << >> \in Seq(SStages) /\ <<x>> \in Seq(SStages)
                            /\ <<x, y>> \in Seq(SStages) /\ <<x, y>> # << >>
  OBVIOUS
<1>4. p \in Seq(SStages) /\ (S!Queued(k) => p # << >>)
  <2>1. /\ p \in {<< >>, <<"nand">>, <<"data">>, <<"nand", "data">>, <<"data", "nand">>}
        /\ S!Queued(k) => p \in {<<"nand", "data">>, <<"data", "nand">>}
        /\ "nand" \in SStages /\ "data" \in SStages
    BY <1>1, <1>2 DEF p, SStages
  <2> QED BY <1>3, <2>1
<1> QED BY <1>4 DEF p

\* A context that enters the first of some stages.
LEMMA SEnter ==
  ASSUME NEW s \in Slots, NEW r \in Requests, NEW p \in Seq(SStages), p # << >>
  PROVE  LET d == Enter(s, r, p)
         IN  d \in SContext /\ d.slot = s /\ d.req = r /\ d.stage \in SStages
<1> DEFINE h == Head(p)
           t == Tail(p)
<1>1. h \in SStages /\ t \in Seq(SStages)
  OBVIOUS
<1> HIDE DEF h, t
<1>2. {} \in SUBSET {"table", "prdt"}
  OBVIOUS
<1>3. Context(s, r, h, t, {}) \in SContext
  BY <1>1, <1>2 DEF Context, SContext
<1> QED BY <1>1, <1>3 DEF Enter, Context, h, t

LEMMA SWith ==
    /\ S!System = Sys(reg, contexts, responses)
    /\ \A c : S!WithoutContext(c) = Sys(reg, contexts \ {c}, responses)
    /\ \A g, C, R, d : S!WithContext(Sys(g, C, R), d) = Sys(g, C \cup {d}, R)
BY DEF S!System, S!WithoutContext, S!WithContext, Sys

\* What the invariant says of a context.
LEMMA SContextOf ==
  ASSUME SInv, NEW c \in contexts
  PROVE  /\ boot = "thawed" /\ SFrames = responses /\ reg \in SRegisters /\ Alike(reg, reg)
         /\ SCore(requestQueue, contexts, responses, reg.ci, reg.sact, held, status)
         /\ c \in SContext /\ c.slot \in Slots /\ c.req \in Requests
         /\ c.rest \in Seq(SStages) /\ c.need \in SUBSET {"table", "prdt"}
         /\ cmd[c.req] \in S!Kinds /\ Holding
         /\ status[c.req] # "idle"
         /\ InWork(c) => status[c.req] = "issued"
<1>1. boot = "thawed" /\ SFrames = responses /\ reg \in SRegisters /\ Alike(reg, reg)
  BY DEF SInv, SBoot, SFrames, Alike
<1>2. SCore(requestQueue, contexts, responses, reg.ci, reg.sact, held, status)
  BY <1>1 DEF SInv, SCommands
<1>3. c \in SContext
  BY <1>2 DEF SCore, SShape
<1>4. /\ c.slot \in Slots /\ c.req \in Requests
      /\ c.rest \in Seq(SStages) /\ c.need \in SUBSET {"table", "prdt"}
  BY <1>3 DEF SContext
<1>5. cmd[c.req] \in S!Kinds
  BY <1>4 DEF SInv
<1>6. Holding
  BY <1>2 DEF SCore, SHold, Holding
<1>7. /\ c.stage = "accept" => status[c.req] # "idle"
      /\ InWork(c) => status[c.req] = "issued"
      /\ c.stage # "accept" => InWork(c)
  BY <1>2 DEF SCore, SWork, InWork
<1> QED BY <1>1, <1>2, <1>3, <1>4, <1>5, <1>6, <1>7

\* A command is done.
LEMMA SAnswers ==
  ASSUME SInv, NEW c \in contexts, S!Becomes(S!Answer(S!WithoutContext(c), c)),
         c.stage \in SStages \/ (c.stage = "fetch" /\ ~S!Queued(cmd[c.req])),
         status' = [status EXCEPT ![c.req] = "executed"],
         UNCHANGED <<boot, events, requestQueue, line, held, cmd>>
  PROVE  SInv' /\ Serves
<1>0. /\ boot = "thawed" /\ reg \in SRegisters
      /\ SCore(requestQueue, contexts, responses, reg.ci, reg.sact, held, status)
      /\ c.slot \in Slots /\ c.req \in Requests /\ Holding
      /\ InWork(c) => status[c.req] = "issued"
  BY SContextOf
<1>1. c.stage # "accept" /\ InWork(c)
  BY DEF SStages, InWork
<1>2. Serves
  BY <1>0, <1>1, ExecuteServes DEF Serves
<1> DEFINE D == contexts \ {c}
<1>3. CASE S!Queued(cmd[c.req])
  <2> DEFINE T == Append(responses, S!Frame(0, 0))
  <2>1. SCore(requestQueue, D, responses, reg.ci, reg.sact \ {c.slot}, held, status')
          /\ ~NoneQueued(status')
    BY <1>0, <1>3, SFinishesQueued
  <2>2. SCore(requestQueue, D, T, reg.ci, reg.sact \ {c.slot}, held, status')
    BY <2>1, SMarks
  <2>3. S!Becomes(S!SubmitFIS(Sys(reg, D, responses), S!Frame(0, 0), {c.slot}))
    BY <1>3, SWith DEF S!Answer, S!DeviceBits
  <2> HIDE DEF D
  <2>4. PICK h \in SRegisters :
           /\ S!SubmitFIS(Sys(reg, D, responses), S!Frame(0, 0), {c.slot}) = Sys(h, D, T)
           /\ Alike(h, reg) /\ h.sact = reg.sact \ {c.slot} /\ h.writes > 0
    BY <1>0, SSubmits
  <2> HIDE DEF T
  <2>5. /\ S!Becomes(Sys(h, D, T)) /\ h.ci = reg.ci
        /\ SCore(requestQueue', D, T, h.ci, h.sact, held', status')
    BY <2>2, <2>3, <2>4 DEF Alike
  <2>6. SInv'
    BY <1>0, <2>4, <2>5, SBecomes
  <2> QED BY <1>2, <2>6
<1>4. CASE ~S!Queued(cmd[c.req])
  <2> DEFINE f == S!Frame(c.slot, 0)
             T == Append(responses, f)
  <2>2. SCore(requestQueue, D, T, reg.ci, reg.sact, held, status')
    BY <1>0, <1>1, <1>4, SFinishes
  <2>3. S!Becomes(S!SubmitFIS(Sys(reg, D, responses), f, {}))
    BY <1>4, SWith DEF S!Answer
  <2> DEFINE none == {}
  <2> HIDE DEF D, f, none
  <2>4. PICK h \in SRegisters :
           /\ S!SubmitFIS(Sys(reg, D, responses), f, none) = Sys(h, D, T)
           /\ Alike(h, reg) /\ h.sact = reg.sact \ none /\ h.writes > 0
    BY <1>0, SSubmits
  <2> HIDE DEF T
  <2>5. /\ S!Becomes(Sys(h, D, T)) /\ h.ci = reg.ci /\ h.sact = reg.sact
        /\ SCore(requestQueue', D, T, h.ci, h.sact, held', status')
    BY <2>2, <2>3, <2>4 DEF Alike, none
  <2>6. SInv'
    BY <1>0, <2>4, <2>5, SBecomes
  <2> QED BY <1>2, <2>6
<1> QED BY <1>3, <1>4

\* A frame that resets no PxSACT bit.
LEMMA SSubmitsFrame ==
  ASSUME SInv, boot = "thawed", UNCHANGED <<boot, events, requestQueue, line, held, cmd, status>>,
         NEW C, NEW f, S!Becomes(S!SubmitFIS(Sys(reg, C, responses), f, {})),
         SCore(requestQueue, C, Append(responses, f), reg.ci, reg.sact, held, status)
  PROVE  SInv'
<1> DEFINE none == {}
           T == Append(responses, f)
<1>0. reg \in SRegisters
  BY DEF SInv
<1>1. S!Becomes(S!SubmitFIS(Sys(reg, C, responses), f, none))
  OBVIOUS
<1> HIDE DEF none
<1>2. PICK h \in SRegisters :
         /\ S!SubmitFIS(Sys(reg, C, responses), f, none) = Sys(h, C, T)
         /\ Alike(h, reg) /\ h.sact = reg.sact \ none /\ h.writes > 0
  BY <1>0, SSubmits
<1> HIDE DEF T
<1>3. /\ S!Becomes(Sys(h, C, T)) /\ h.ci = reg.ci /\ h.sact = reg.sact
      /\ SCore(requestQueue', C, T, h.ci, h.sact, held', status')
  BY <1>1, <1>2 DEF Alike, none, T
<1> QED BY <1>2, <1>3, SBecomes

\* A command goes on.
LEMMA SGoesOn ==
  ASSUME SInv, NEW c \in contexts, NEW d \in SContext,
         d.slot = c.slot, d.req = c.req, InWork(d) <=> InWork(c), InReg(d) <=> InReg(c),
         d.stage = "accept" => S!Queued(cmd[c.req])
  PROVE  /\ SCore(requestQueue, (contexts \ {c}) \cup {d}, responses,
                  reg.ci, reg.sact, held, status)
         /\ S!Becomes(S!WithContext(S!WithoutContext(c), d))
              /\ UNCHANGED <<boot, events, requestQueue, line, held, cmd, status>>
              => SInv'
<1>0. /\ boot = "thawed" /\ reg \in SRegisters /\ Alike(reg, reg)
      /\ SCore(requestQueue, contexts, responses, reg.ci, reg.sact, held, status)
      /\ status[c.req] # "idle"
  BY SContextOf
<1> DEFINE D == (contexts \ {c}) \cup {d}
<1>1. SCore(requestQueue, D, responses, reg.ci, reg.sact, held, status)
  BY <1>0, SMoves
<1>2. S!WithContext(S!WithoutContext(c), d) = Sys(reg, D, responses)
  <2> DEFINE X == contexts \ {c}
  <2>1. S!WithoutContext(c) = Sys(reg, X, responses)
    BY SWith
  <2> HIDE DEF X
  <2>2. S!WithContext(S!WithoutContext(c), d) = Sys(reg, X \cup {d}, responses)
    BY <2>1, SWith
  <2> QED BY <2>2 DEF X
<1> HIDE DEF D
<1>3. ASSUME S!Becomes(Sys(reg, D, responses)),
             UNCHANGED <<boot, events, requestQueue, line, held, cmd, status>>
      PROVE  SInv'
  <2>1. SCore(requestQueue', D, responses, reg.ci, reg.sact, held', status')
    BY <1>1, <1>3
  <2> QED BY <1>0, <1>3, <2>1, SBecomes
<1>4. /\ SCore(requestQueue, D, responses, reg.ci, reg.sact, held, status)
      /\ S!Becomes(S!WithContext(S!WithoutContext(c), d))
              /\ UNCHANGED <<boot, events, requestQueue, line, held, cmd, status>>
              => SInv'
  BY <1>1, <1>2, <1>3
<1> QED BY <1>4 DEF D

\* A command is dispatched.
LEMMA SDispatches ==
  ASSUME SInv, NEW c \in contexts, c.stage = "fetch", S!Dispatch(c),
         UNCHANGED <<boot, events, requestQueue, line, held, cmd>>
  PROVE  SInv' /\ Serves
<1> DEFINE k == cmd[c.req]
           d == Enter(c.slot, c.req, S!Path(k))
           a == Context(c.slot, c.req, "accept", << >>, {})
<1>0. /\ boot = "thawed" /\ reg \in SRegisters /\ Alike(reg, reg)
      /\ SCore(requestQueue, contexts, responses, reg.ci, reg.sact, held, status)
      /\ c.slot \in Slots /\ c.req \in Requests /\ k \in S!Kinds
      /\ S!Path(k) \in Seq(SStages)
      /\ S!Queued(k) => S!Path(k) # << >>
      /\ InWork(c) /\ InReg(c)
  BY SContextOf, SPathOf DEF InWork, InReg
<1>1. CASE S!Path(k) = << >>
  <2>1. /\ S!Becomes(S!Answer(S!WithoutContext(c), c))
        /\ status' = [status EXCEPT ![c.req] = "executed"]
    <3>1. k # "writeQueued" /\ k # "readQueued"
      BY <1>0, <1>1 DEF S!Queued
    <3> QED BY <1>1, <3>1 DEF S!Dispatch
  <2> QED BY <1>0, <1>1, <2>1, SAnswers
<1>2. a \in SContext /\ a.slot = c.slot /\ a.req = c.req /\ a.stage = "accept"
  <2>1. << >> \in Seq(SStages) /\ {} \in SUBSET {"table", "prdt"}
    OBVIOUS
  <2> QED BY <1>0, <2>1 DEF Context, SContext
<1>3. S!Path(k) # << >> =>
         d \in SContext /\ d.slot = c.slot /\ d.req = c.req /\ d.stage \in SStages
  BY <1>0, SEnter
<1>4. S!Path(k) # << >> => UNCHANGED status
  BY DEF S!Dispatch
<1>5. CASE S!Path(k) # << >> /\ k = "writeQueued"
  <2>1. S!Becomes(S!WithContext(S!WithoutContext(c), a))
    BY <1>5, SSame DEF S!Dispatch, S!Accept
  <2>2. (InWork(a) <=> InWork(c)) /\ (InReg(a) <=> InReg(c)) /\ S!Queued(cmd[c.req])
    BY <1>0, <1>2, <1>5 DEF InWork, InReg, S!Queued
  <2> HIDE DEF a
  <2>3. SInv'
    BY <1>2, <1>4, <1>5, <2>1, <2>2, SGoesOn
  <2> QED BY <1>4, <1>5, <2>3 DEF Serves
<1>6. CASE S!Path(k) # << >> /\ k = "readQueued"
  <2> DEFINE D == (contexts \ {c}) \cup {d} \cup {a}
  <2>1. S!Becomes(S!WithContext(S!WithContext(S!WithoutContext(c), d), a))
    BY <1>6, SSame DEF S!Dispatch, S!Accept
  <2> HIDE DEF a, d
  <2>2. S!Becomes(Sys(reg, D, responses))
    <3> DEFINE X == contexts \ {c}
               Y == X \cup {d}
    <3>1. S!WithoutContext(c) = Sys(reg, X, responses)
      BY SWith
    <3> HIDE DEF X
    <3>2. S!WithContext(S!WithoutContext(c), d) = Sys(reg, Y, responses)
      BY <3>1, SWith
    <3> HIDE DEF Y
    <3>3. S!WithContext(Sys(reg, Y, responses), a) = Sys(reg, Y \cup {a}, responses)
      BY SWith
    <3> QED BY <2>1, <3>2, <3>3 DEF X, Y
  <2>3. SCore(requestQueue, D, responses, reg.ci, reg.sact, held, status)
    BY <1>0, <1>2, <1>3, <1>6, SSplits
  <2> HIDE DEF D
  <2>4. SCore(requestQueue', D, responses, reg.ci, reg.sact, held', status')
    BY <1>4, <1>6, <2>3
  <2>5. SInv'
    BY <1>0, <2>2, <2>4, SBecomes
  <2> QED BY <1>4, <1>6, <2>5 DEF Serves
<1>7. CASE S!Path(k) # << >> /\ k # "writeQueued" /\ k # "readQueued"
  <2>1. S!Becomes(S!WithContext(S!WithoutContext(c), d))
    BY <1>7, SSame DEF S!Dispatch
  <2> HIDE DEF d
  <2>2. (InWork(d) <=> InWork(c)) /\ (InReg(d) <=> InReg(c)) /\ d.stage # "accept"
    BY <1>0, <1>3, <1>7 DEF InWork, InReg, SStages, S!Queued
  <2>3. SInv'
    BY <1>3, <1>4, <1>7, <2>1, <2>2, SGoesOn
  <2> QED BY <1>4, <1>7, <2>3 DEF Serves
<1> QED BY <1>1, <1>5, <1>6, <1>7

\* A stage is over.
LEMMA SAdvances ==
  ASSUME SInv, NEW c \in contexts, c.stage \in SStages, S!Advance(c),
         UNCHANGED <<boot, events, requestQueue, line, held, cmd>>
  PROVE  SInv' /\ Serves
<1>0. /\ boot = "thawed" /\ reg \in SRegisters
      /\ c.slot \in Slots /\ c.req \in Requests /\ c.rest \in Seq(SStages)
      /\ status[c.req] # "idle"
  BY SContextOf
<1>1. CASE c.rest = << >>
  <2>1. /\ S!Becomes(S!Answer(S!WithoutContext(c), c))
        /\ status' = [status EXCEPT ![c.req] = "executed"]
    BY <1>1 DEF S!Advance
  <2> QED BY <2>1, SAnswers
<1>2. CASE c.rest # << >>
  <2> DEFINE d == Enter(c.slot, c.req, c.rest)
             D == (contexts \ {c}) \cup {d}
  <2>1. d \in SContext /\ d.slot = c.slot /\ d.req = c.req /\ d.stage \in SStages
    BY <1>0, <1>2, SEnter
  <2>2. UNCHANGED status /\ S!Becomes(S!NextStage(c))
    BY <1>2 DEF S!Advance
  <2>3. S!NextStage(c) = IF cmd[c.req] = "readQueued"
                         THEN S!SubmitFIS(S!WithContext(S!WithoutContext(c), d), S!Frame(0, 0), {})
                         ELSE S!WithContext(S!WithoutContext(c), d)
    BY SSame DEF S!NextStage, S!DMASetup
  <2> HIDE DEF d
  <2>4. (InWork(d) <=> InWork(c)) /\ (InReg(d) <=> InReg(c)) /\ d.stage # "accept"
    BY <2>1 DEF InWork, InReg, SStages
  <2>5. SCore(requestQueue, D, responses, reg.ci, reg.sact, held, status)
    BY <2>1, <2>4, SGoesOn
  <2>6. CASE cmd[c.req] = "readQueued"
    <3>1. ~NoneQueued(status)
      BY <1>0, <2>6 DEF NoneQueued, S!Queued
    <3>2. SCore(requestQueue, D, Append(responses, S!Frame(0, 0)), reg.ci, reg.sact, held, status)
      BY <2>5, <3>1, SMarks
    <3>3. S!WithContext(S!WithoutContext(c), d) = Sys(reg, D, responses)
      <4> DEFINE X == contexts \ {c}
      <4>1. S!WithoutContext(c) = Sys(reg, X, responses)
        BY SWith
      <4> HIDE DEF X
      <4>2. S!WithContext(S!WithoutContext(c), d) = Sys(reg, X \cup {d}, responses)
        BY <4>1, SWith
      <4> QED BY <4>2 DEF X
    <3> HIDE DEF D
    <3>4. S!Becomes(S!SubmitFIS(Sys(reg, D, responses), S!Frame(0, 0), {}))
      BY <2>2, <2>3, <2>6, <3>3
    <3>5. SInv'
      BY <1>0, <2>2, <3>2, <3>4, SSubmitsFrame
    <3> QED BY <2>2, <3>5 DEF Serves
  <2>7. CASE cmd[c.req] # "readQueued"
    <3>1. SInv'
      BY <2>1, <2>2, <2>3, <2>4, <2>7, SGoesOn
    <3> QED BY <2>2, <3>1 DEF Serves
  <2> QED BY <2>6, <2>7
<1> QED BY <1>1, <1>2

LEMMA SDeviceKeeps ==
  ASSUME SInv, S!DeviceStep
  PROVE  SInv' /\ Serves
<1>1. UNCHANGED <<interface, boot, events, requestQueue, line, irq, held, cmd>>
  BY DEF S!DeviceStep
<1>2. PICK c \in contexts :
         \/ S!HeaderRead(c)
         \/ \E part \in {"table", "prdt"} : S!Fetched(c, part)
         \/ S!Accepted(c) \/ S!HILDone(c) \/ S!PRDTDone(c)
  BY DEF S!DeviceStep
<1>3. /\ boot = "thawed" /\ reg \in SRegisters
      /\ SCore(requestQueue, contexts, responses, reg.ci, reg.sact, held, status)
      /\ c \in SContext /\ c.slot \in Slots /\ c.req \in Requests
      /\ c.rest \in Seq(SStages) /\ c.need \in SUBSET {"table", "prdt"}
  BY SContextOf
<1>4. ASSUME NEW d \in SContext, d.slot = c.slot, d.req = c.req, c.stage \in {"header", "fetch"},
             d.stage = "fetch", S!Becomes(S!WithContext(S!WithoutContext(c), d)),
             UNCHANGED status
      PROVE  SInv' /\ Serves
  <2>1. (InWork(d) <=> InWork(c)) /\ (InReg(d) <=> InReg(c)) /\ d.stage # "accept"
    BY <1>4 DEF InWork, InReg
  <2>2. SInv'
    BY <1>1, <1>4, <2>1, SGoesOn
  <2> QED BY <1>4, <2>2 DEF Serves
<1>5. CASE S!HeaderRead(c)
  <2> DEFINE need == {"table"} \cup (IF S!HasPRDT(cmd[c.req]) THEN {"prdt"} ELSE {})
             d == Context(c.slot, c.req, "fetch", << >>, need)
  <2>1. S!Becomes(S!WithContext(S!WithoutContext(c), d)) /\ c.stage = "header" /\ UNCHANGED status
    BY <1>5, SSame DEF S!HeaderRead
  <2>2. need \in SUBSET {"table", "prdt"} /\ << >> \in Seq(SStages)
    OBVIOUS
  <2> HIDE DEF need
  <2>3. d \in SContext /\ d.slot = c.slot /\ d.req = c.req /\ d.stage = "fetch"
    BY <1>3, <2>2 DEF SContext, Context
  <2> HIDE DEF d
  <2> QED BY <1>4, <2>1, <2>3
<1>6. ASSUME NEW part \in {"table", "prdt"}, S!Fetched(c, part)
      PROVE  SInv' /\ Serves
  <2>1. CASE c.need = {part}
    BY <1>1, <1>6, <2>1, SDispatches DEF S!Fetched
  <2>2. CASE c.need # {part}
    <3> DEFINE less == c.need \ {part}
               d == [c EXCEPT !.need = less]
    <3>1. S!Becomes(S!WithContext(S!WithoutContext(c), d)) /\ c.stage = "fetch" /\ UNCHANGED status
      BY <1>6, <2>2 DEF S!Fetched
    <3>2. less \in SUBSET {"table", "prdt"}
      BY <1>3
    <3> HIDE DEF less
    <3>3. d \in SContext /\ d.slot = c.slot /\ d.req = c.req /\ d.stage = "fetch"
      BY <1>3, <3>1, <3>2 DEF SContext
    <3> HIDE DEF d
    <3> QED BY <1>4, <3>1, <3>3
  <2> QED BY <2>1, <2>2
<1>7. CASE S!Accepted(c)
  <2> DEFINE x == IF cmd[c.req] = "writeQueued" THEN c.req ELSE 0
             f == S!Frame(c.slot, x)
             D == contexts \ {c}
  <2>1. c.stage = "accept" /\ S!Becomes(S!SubmitFIS(Sys(reg, D, responses), f, {})) /\ UNCHANGED status
    BY <1>7, SWith DEF S!Accepted
  <2>2. SCore(requestQueue, D, Append(responses, f), reg.ci, reg.sact, held, status)
    BY <1>3, <2>1, SAccepts
  <2> HIDE DEF D, f
  <2>3. SInv'
    BY <1>1, <1>3, <2>1, <2>2, SSubmitsFrame
  <2> QED BY <2>1, <2>3 DEF Serves
<1>8. CASE S!HILDone(c) \/ S!PRDTDone(c)
  <2>1. c.stage \in SStages /\ S!Advance(c)
    BY <1>8 DEF S!HILDone, S!PRDTDone, SStages
  <2> QED BY <1>1, <2>1, SAdvances
<1> QED BY <1>2, <1>5, <1>6, <1>7, <1>8

\* The invariant after any step of a port that is up.
LEMMA SSettles ==
  ASSUME SInv, boot' = "thawed", cmd' = cmd, NEW h \in SRegisters, NEW C, NEW R,
         reg' = h, contexts' = C, responses' = R,
         SCore(requestQueue', C, R, h.ci, h.sact, held', status'),
         events' \in {{}, {"work"}, {"request"}}, h.started => events' # {},
         R # << >> => h.writes > 0 \/ line'
  PROVE  SInv'
<1>1. SFrames' = R
  BY DEF SFrames
<1>2. SCommands'
  BY <1>1, SPrimes
<1>3. R \in Seq(SFrame)
  BY DEF SCore, SShape
<1> QED BY <1>2, <1>3 DEF SInv, SBoot, SCalls

LEMMA SWrites ==
  ASSUME NEW g \in SRegisters, NEW C, NEW R
  PROVE  \E h \in SRegisters : /\ S!HandleResponse(Sys(g, C, R)) = Sys(h, C, R)
                               /\ Alike(h, g) /\ h.sact = g.sact /\ h.writes > 0
<1> DEFINE w == g.writes + 1
           h == [g EXCEPT !.writes = w]
           z == Sys(g, C, R)
<1>1. w \in Nat /\ w > 0
  BY DEF SRegisters
<1>2. z.reg = g /\ z.contexts = C /\ z.responses = R
  BY DEF Sys
<1>3. [z EXCEPT !.reg.writes = @ + 1] = [z EXCEPT !.reg = h]
  <2> HIDE DEF z
  <2> QED BY <1>2
<1> HIDE DEF w
<1>4. h \in SRegisters /\ Alike(h, g) /\ h.sact = g.sact /\ h.writes = w
  BY <1>1 DEF SRegisters, Alike
<1> HIDE DEF h
<1>5. [z EXCEPT !.reg = h] = Sys(h, C, R)
  BY <1>2 DEF Sys
<1>6. S!HandleResponse(Sys(g, C, R)) = Sys(h, C, R)
  BY <1>3, <1>5 DEF S!HandleResponse
<1> HIDE DEF z
<1> QED BY <1>1, <1>4, <1>6

\* The oldest frame retires.
LEMMA SClears ==
  ASSUME SInv, boot = "thawed", S!ClearStatus,
         UNCHANGED <<boot, events, requestQueue, held, cmd, status>>
  PROVE  SInv'
<1>0. /\ reg \in SRegisters /\ SFrames = responses /\ SCalls
      /\ SCore(requestQueue, contexts, responses, reg.ci, reg.sact, held, status)
  BY DEF SInv, SCommands, SFrames
<1>1. CASE responses = << >>
  <2>1. S!Becomes(Sys(reg, contexts, responses))
    BY <1>1, SWith DEF S!ClearStatus
  <2>2. reg' = reg /\ contexts' = contexts /\ responses' = responses
    BY <2>1 DEF S!Becomes, Sys
  <2>3. SCore(requestQueue', contexts, responses, reg.ci, reg.sact, held', status')
    BY <1>0
  <2> QED BY <1>0, <1>1, <2>2, <2>3, SSettles DEF SCalls
<1>2. CASE responses # << >>
  <2> DEFINE f == Head(responses)
             T == Tail(responses)
             cj == reg.ci \ {f.slot}
             g1 == [reg EXCEPT !.ci = cj]
             x1 == Sys(g1, contexts, T)
  <2>1. f \in SFrame /\ f.slot \in Slots /\ f.starts \in Requests \cup {0} /\ T \in Seq(SFrame)
    <3>1. responses \in Seq(SFrame)
      BY DEF SInv
    <3>2. f \in SFrame /\ T \in Seq(SFrame)
      BY <1>2, <3>1
    <3> QED BY <3>2 DEF SFrame
  <2>2. S!Becomes(S!WriteDMASetup(S!WriteNext(x1), f.slot, f.starts))
    <3> DEFINE z == Sys(reg, contexts, responses)
    <3>1. z.reg = reg /\ z.contexts = contexts /\ z.responses = responses
      BY DEF Sys
    <3>2. [z EXCEPT !.reg.ci = @ \ {f.slot}, !.responses = Tail(@)]
            = [z EXCEPT !.reg = g1, !.responses = T]
      <4> HIDE DEF z
      <4> QED BY <3>1
    <3>3. [z EXCEPT !.reg = g1, !.responses = T] = x1
      <4> HIDE DEF g1, T
      <4>1. /\ [Sys(reg, contexts, responses) EXCEPT !.reg = g1] = Sys(g1, contexts, responses)
            /\ [Sys(g1, contexts, responses) EXCEPT !.responses = T] = Sys(g1, contexts, T)
        BY DEF Sys
      <4> QED BY <4>1
    <3>4. S!Becomes(S!Retire(z)) 
      BY <1>2, SWith DEF S!ClearStatus
    <3>5. S!Retire(z) = S!WriteDMASetup(S!WriteNext(x1), f.slot, f.starts)
      <4>1. z.responses = responses
        BY <3>1
      <4> HIDE DEF x1, z
      <4> QED BY <3>2, <3>3, <4>1 DEF S!Retire
    <3> HIDE DEF x1, z
    <3> QED BY <3>4, <3>5
  <2>3. g1 \in SRegisters /\ g1.started = reg.started /\ g1.ci = cj /\ g1.sact = reg.sact
    <3>1. cj \in SUBSET Slots
      BY <1>0 DEF SRegisters
    <3> HIDE DEF cj
    <3> QED BY <1>0, <3>1 DEF SRegisters
  <2> HIDE DEF g1
  <2>4. PICK g2 \in SRegisters :
           /\ S!WriteNext(x1) = Sys(g2, contexts, T)
           /\ Alike(g2, g1) /\ g2.sact = g1.sact
           /\ T # << >> => g2.writes > 0
    <3>1. x1.responses = T
      BY DEF Sys
    <3>2. CASE T = << >>
      <4>1. S!WriteNext(x1) = x1 /\ Alike(g1, g1)
        BY <2>3, <3>1, <3>2 DEF S!WriteNext, Alike
      <4> HIDE DEF T
      <4> QED BY <2>3, <3>2, <4>1
    <3>3. CASE T # << >>
      <4>1. S!WriteNext(x1) = S!HandleResponse(x1)
        BY <3>1, <3>3 DEF S!WriteNext
      <4> HIDE DEF T
      <4>2. PICK h \in SRegisters : /\ S!HandleResponse(x1) = Sys(h, contexts, T)
                                    /\ Alike(h, g1) /\ h.sact = g1.sact /\ h.writes > 0
        BY <2>3, SWrites
      <4> QED BY <4>1, <4>2
    <3> QED BY <3>2, <3>3
  <2> DEFINE x2 == Sys(g2, contexts, T)
  <2>5. g2.started = reg.started /\ g2.ci = cj /\ g2.sact = reg.sact
    BY <2>3, <2>4 DEF Alike
  <2>6. CASE f.starts = 0
    <3>1. S!Becomes(x2)
      BY <2>2, <2>4, <2>6 DEF S!WriteDMASetup
    <3>2. reg' = g2 /\ contexts' = contexts /\ responses' = T
      BY <3>1 DEF S!Becomes, Sys
    <3>3. SCore(requestQueue, contexts, T, cj, reg.sact, held, status)
      BY <1>0, <1>2, <2>6, SRetires
    <3> HIDE DEF T, cj
    <3>4. SCore(requestQueue', contexts, T, g2.ci, g2.sact, held', status')
      BY <2>5, <3>3
    <3> QED BY <1>0, <2>4, <2>5, <3>2, <3>4, SSettles DEF SCalls
  <2>7. CASE f.starts # 0
    <3> DEFINE r == f.starts
               d == Enter(f.slot, r, S!Path(cmd[r]))
               D == contexts \cup {d}
               e == S!Frame(0, 0)
    <3>1. /\ r \in Requests /\ cmd[r] = "writeQueued" /\ status[r] = "issued"
      <4>1. 1 \in DOMAIN responses /\ responses[1] = f
        <5>1. responses \in Seq(SFrame)
          BY DEF SInv
        <5> QED BY <1>2, <5>1
      <4> HIDE DEF f
      <4> QED BY <1>0, <2>1, <2>7, <4>1 DEF SCore, SStarts
    <3>2. d \in SContext /\ d.slot = f.slot /\ d.req = r /\ d.stage \in SStages
      <4>1. S!Path(cmd[r]) \in Seq(SStages) /\ S!Path(cmd[r]) # << >>
        <5>1. "writeQueued" \in S!Kinds /\ S!Queued("writeQueued")
          BY DEF S!Kinds, S!Queued
        <5> QED BY <3>1, <5>1, SPathOf
      <4> QED BY <2>1, <3>1, <4>1, SEnter
    <3>3. S!Becomes(S!SubmitFIS(Sys(g2, D, T), e, {}))
      <4>1. x2.contexts = contexts
        BY DEF Sys
      <4>2. [x2 EXCEPT !.contexts = @ \cup {d}] = Sys(g2, D, T)
        <5> HIDE DEF d, T
        <5> QED BY <4>1 DEF Sys
      <4>3. S!WriteDMASetup(x2, f.slot, r) = S!SubmitFIS([x2 EXCEPT !.contexts = @ \cup {d}], e, {})
        BY <2>7, SSame DEF S!WriteDMASetup, S!DMASetup
      <4> HIDE DEF x2, d, D, T, e
      <4> QED BY <2>2, <2>4, <4>2, <4>3 DEF x2
    <3> HIDE DEF d
    <3>4. SCore(requestQueue, D, T, cj, reg.sact, held, status)
      BY <1>0, <1>2, <2>7, <3>2, SRetires
    <3>5. SCore(requestQueue, D, Append(T, e), cj, reg.sact, held, status)
      <4>1. ~NoneQueued(status)
        BY <3>1 DEF NoneQueued, S!Queued
      <4> HIDE DEF D, T, cj
      <4> QED BY <3>4, <4>1, SMarks
    <3> DEFINE none == {}
               V == Append(T, e)
    <3>6. S!Becomes(S!SubmitFIS(Sys(g2, D, T), e, none))
      BY <3>3
    <3> HIDE DEF none, D, T, e, cj
    <3>7. PICK h \in SRegisters :
             /\ S!SubmitFIS(Sys(g2, D, T), e, none) = Sys(h, D, V)
             /\ Alike(h, g2) /\ h.sact = g2.sact \ none /\ h.writes > 0
      BY <2>4, SSubmits
    <3> HIDE DEF V
    <3>8. reg' = h /\ contexts' = D /\ responses' = V
      BY <3>6, <3>7 DEF S!Becomes, Sys
    <3>9. h.started = reg.started /\ h.ci = cj /\ h.sact = reg.sact
      BY <2>5, <3>7 DEF Alike, none
    <3>10. SCore(requestQueue', D, V, h.ci, h.sact, held', status')
      BY <3>5, <3>9 DEF V
    <3> QED BY <1>0, <3>7, <3>8, <3>9, <3>10, SSettles DEF SCalls
  <2> QED BY <2>6, <2>7
<1> QED BY <1>1, <1>2

\* The driver issues a request.
LEMMA SIssues ==
  ASSUME SInv, NEW r \in Requests, NEW s \in Slots, S!Issue(r, s)
  PROVE  SInv' /\ Serves
<1> DEFINE b == IF S!Queued(cmd[r]) THEN reg.sact \cup {s} ELSE reg.sact
           cj == reg.ci \cup {s}
           h == [reg EXCEPT !.ci = cj, !.sact = b]
<1>0. /\ reg.started /\ reg' = h /\ Put(r, s)
      /\ UNCHANGED <<interface, boot, events, contexts, responses, line, irq, cmd>>
  BY SSame DEF S!Issue
<1>1. /\ boot = "thawed" /\ reg \in SRegisters /\ SFrames = responses /\ SCalls
      /\ SCore(requestQueue, contexts, responses, reg.ci, reg.sact, held, status)
  BY <1>0 DEF SInv, SCommands, SFrames, SBoot
<1>2. /\ held[s] = 0 /\ status[r] = "idle"
      /\ held' = [held EXCEPT ![s] = r] /\ status' = [status EXCEPT ![r] = "issued"]
  BY <1>0 DEF Put
<1>3. SPut(held, status, reg.sact, r, s, held', status', b)
  BY <1>2, SSame DEF S!Issue, S!MayUse, Outstanding, NoneQueued, S!Queued, SPut
<1>4. /\ s \notin reg.ci
      /\ SCore(Append(requestQueue, s), contexts, responses, cj, b, held', status')
  <2> HIDE DEF b
  <2> QED BY <1>1, <1>3, SPuts
<1>5. requestQueue' = Append(requestQueue, s)
  <2>1. requestQueue' = requestQueue \o <<s>>
    BY <1>4 DEF S!Issue, S!ProcessCommand
  <2>2. requestQueue \in Seq(Slots)
    BY <1>1 DEF SCore, SShape
  <2> QED BY <2>1, <2>2
<1>6. /\ h \in SRegisters /\ h.ci = cj /\ h.sact = b /\ h.started = reg.started
      /\ h.writes = reg.writes
  <2>1. cj \in SUBSET Slots /\ b \in SUBSET Slots
    BY <1>1 DEF SRegisters
  <2> HIDE DEF cj, b
  <2> QED BY <1>1, <2>1 DEF SRegisters
<1> HIDE DEF h, cj, b
<1>7. SInv'
  BY <1>0, <1>1, <1>4, <1>5, <1>6, SSettles DEF SCalls
<1>8. Holding
  BY <1>1 DEF SCore, SHold, Holding
<1> QED BY <1>0, <1>7, <1>8, PutServes DEF Serves

\* The driver collects what is done.
LEMMA SCollectKeeps ==
  ASSUME SInv, S!Collect
  PROVE  SInv' /\ Serves
<1> DEFINE done == Outstanding \ (reg.ci \cup reg.sact)
<1>0. /\ TakeBack(done)
      /\ UNCHANGED <<interface, boot, events, requestQueue, contexts, responses, reg, line, cmd>>
  BY SSame DEF S!Collect
<1>1. /\ done = {s \in Slots : held[s] # 0} \ (reg.ci \cup reg.sact) /\ done \in SUBSET Slots
      /\ \A s \in done : held[s] # 0
  BY DEF Outstanding
<1>2. /\ status' = [r \in Requests |-> IF \E s \in done : held[s] = r THEN "answered" ELSE status[r]]
      /\ held' = [s \in Slots |-> IF s \in done THEN 0 ELSE held[s]]
  BY <1>0 DEF TakeBack
<1> HIDE DEF done
<1>3. SCore(requestQueue, contexts, SFrames, reg.ci, reg.sact, held, status)
  BY DEF SInv, SCommands
<1>4. /\ \A s \in done : HasIn(held, status, s, "executed")
      /\ SCore(requestQueue, contexts, SFrames, reg.ci, reg.sact, held', status')
  BY <1>1, <1>2, <1>3, SCollects
<1>5. SCommands'
  <2>1. SFrames' = SFrames
    BY <1>0 DEF SFrames
  <2> QED BY <1>0, <1>4, <2>1, SPrimes
<1>6. Holding /\ \A s \in done : Has(s, "executed")
  BY <1>3, <1>4 DEF SCore, SHold, Holding, HasIn, Has
<1>7. Serves
  BY <1>0, <1>1, <1>6, TakeBackServes DEF Serves
<1>8. SBoot'
  <2>1. CASE boot = "thawed"
    BY <1>0, <2>1 DEF SBoot
  <2>2. CASE boot # "thawed"
    <3>1. \A s \in Slots : held[s] = 0
      BY <2>2 DEF SInv, SBoot
    <3>2. done = {}
      BY <1>1, <3>1
    <3>3. (\A s \in Slots : held'[s] = 0) /\ \A r \in Requests : status'[r] = status[r]
      BY <1>2, <3>1, <3>2
    <3> QED BY <1>0, <2>2, <3>3 DEF SInv, SBoot
  <2> QED BY <2>1, <2>2
<1>9. SCalls'
  BY <1>0 DEF SInv, SCalls
<1> QED BY <1>0, <1>5, <1>7, <1>8, <1>9 DEF SInv

\* Every step keeps the invariant and serves the host.
LEMMA SNextKeeps ==
  ASSUME SInv, S!SATANext
  PROVE  SInv' /\ Serves
<1>0. /\ reg \in SRegisters /\ SBoot /\ SCommands /\ SCalls /\ responses \in Seq(SFrame)
  BY DEF SInv
<1>1. CASE S!Comreset
  <2>1. PICK h \in SRegisters :
           /\ S!HandleResponse(Sys(reg, contexts, Append(responses, S!Signature)))
                = Sys(h, contexts, Append(responses, S!Signature))
           /\ Alike(h, reg) /\ h.sact = reg.sact /\ h.writes > 0
    <3> DEFINE T == Append(responses, S!Signature)
    <3> HIDE DEF T
    <3>1. \E h \in SRegisters : /\ S!HandleResponse(Sys(reg, contexts, T)) = Sys(h, contexts, T)
                                /\ Alike(h, reg) /\ h.sact = reg.sact /\ h.writes > 0
      BY <1>0, SWrites
    <3> QED BY <3>1 DEF T
  <2>2. /\ boot = "off" /\ boot' = "reset" /\ responses = << >>
        /\ UNCHANGED <<interface, events, requestQueue, line, irq, held, cmd, status>>
    BY <1>0, <1>1 DEF S!Comreset, SBoot
  <2>3. Append(responses, S!Signature) = <<S!Signature>> /\ <<S!Signature>> \in Seq(SFrame)
    <3>1. S!Signature \in SFrame
      BY SlotsAssumption DEF S!Signature, S!Frame, SFrame
    <3> HIDE DEF SFrame
    <3> QED BY <2>2, <3>1
  <2>4. /\ reg' = h /\ contexts' = contexts /\ responses' = <<S!Signature>>
    <3> DEFINE T == <<S!Signature>>
    <3>1. S!System = Sys(reg, contexts, responses)
      BY SWith
    <3>2. [Sys(reg, contexts, responses) EXCEPT !.responses = Append(@, S!Signature)]
            = Sys(reg, contexts, Append(responses, S!Signature))
      BY DEF Sys
    <3>3. S!Becomes(Sys(h, contexts, T))
      BY <1>1, <2>1, <2>3, <3>1, <3>2 DEF S!Comreset
    <3> HIDE DEF T
    <3>4. reg' = h /\ contexts' = contexts /\ responses' = T
      BY <3>3 DEF S!Becomes, Sys
    <3> QED BY <3>4 DEF T
  <2>5. SFrames' = SFrames /\ reg'.ci = reg.ci /\ reg'.sact = reg.sact /\ reg'.started = reg.started
    BY <2>1, <2>2, <2>4 DEF SFrames, Alike
  <2>6. SCommands'
    BY <1>0, <2>2, <2>4, <2>5, SPrimes DEF SCommands
  <2>7. SBoot' /\ SCalls'
    BY <1>0, <2>1, <2>2, <2>4, <2>5 DEF SBoot, SCalls
  <2> QED BY <2>1, <2>2, <2>3, <2>4, <2>6, <2>7 DEF SInv, Serves
<1>2. CASE S!Thaw
  <2>1. /\ boot = "reset" /\ boot' = "thawed" /\ S!ClearStatus
        /\ UNCHANGED <<interface, events, requestQueue, irq, held, cmd, status>>
    BY <1>2 DEF S!Thaw
  <2>2. responses = <<S!Frame(0, 0)>> /\ reg.ci = {} /\ SFrames = << >>
    BY <1>0, <2>1 DEF SBoot, S!Signature, SFrames
  <2>3. responses # << >> /\ Head(responses) = S!Frame(0, 0) /\ Tail(responses) = << >>
    BY <2>2
  <2> DEFINE z == Sys(reg, contexts, responses)
             x1 == Sys(reg, contexts, << >>)
  <2>4. S!Becomes(S!Retire(z))
    BY <2>1, <2>3, SWith DEF S!ClearStatus
  <2>5. z.reg = reg /\ z.contexts = contexts /\ z.responses = responses
    BY DEF Sys
  <2>6. [z EXCEPT !.reg.ci = @ \ {0}, !.responses = Tail(@)] = x1
    <3>1. reg.ci \ {0} = reg.ci
      BY <2>2
    <3>2. [reg EXCEPT !.ci = reg.ci] = reg
      BY <1>0 DEF SRegisters
    <3>3. [z EXCEPT !.reg.ci = @ \ {0}, !.responses = Tail(@)] = [z EXCEPT !.reg = reg, !.responses = << >>]
      <4>1. [z EXCEPT !.reg.ci = @ \ {0}, !.responses = Tail(@)]
              = [z EXCEPT !.reg = [reg EXCEPT !.ci = reg.ci \ {0}], !.responses = Tail(responses)]
        <5> HIDE DEF z
        <5> QED BY <2>5
      <4> QED BY <2>3, <3>1, <3>2, <4>1
    <3>4. /\ [Sys(reg, contexts, responses) EXCEPT !.reg = reg] = Sys(reg, contexts, responses)
          /\ [Sys(reg, contexts, responses) EXCEPT !.responses = << >>] = Sys(reg, contexts, << >>)
      BY DEF Sys
    <3> QED BY <3>3, <3>4
  <2>7. S!WriteNext(x1) = x1
    BY DEF S!WriteNext, Sys
  <2>8. S!Frame(0, 0).slot = 0 /\ S!Frame(0, 0).starts = 0
    BY DEF S!Frame
  <2>9. S!Retire(z) = x1
    <3>1. S!Retire(z) = S!WriteDMASetup(S!WriteNext(
              [z EXCEPT !.reg.ci = @ \ {0}, !.responses = Tail(@)]), 0, 0)
      <4> HIDE DEF z
      <4> QED BY <2>3, <2>5, <2>8 DEF S!Retire
    <3>2. S!WriteDMASetup(x1, 0, 0) = x1
      BY DEF S!WriteDMASetup
    <3> QED BY <2>6, <2>7, <3>1, <3>2
  <2>10. reg' = reg /\ contexts' = contexts /\ responses' = << >>
    BY <2>4, <2>9 DEF S!Becomes, Sys
  <2>11. SCore(requestQueue', contexts, << >>, reg.ci, reg.sact, held', status')
    BY <1>0, <2>1, <2>2 DEF SCommands
  <2>12. SInv'
    BY <1>0, <2>1, <2>10, <2>11, SSettles DEF SCalls
  <2> QED BY <2>1, <2>12 DEF Serves
<1>3. CASE S!Start \/ S!Stop
  <2> DEFINE b == ~reg.started
             n == IF b THEN reg.stops ELSE reg.stops + 1
             h == [reg EXCEPT !.started = b, !.stops = n]
  <2>1. h \in SRegisters /\ Alike([h EXCEPT !.started = reg.started], reg)
        /\ h.ci = reg.ci /\ h.sact = reg.sact /\ h.writes = reg.writes /\ h.started = b
    <3>1. n \in Nat /\ b \in BOOLEAN
      BY <1>0 DEF SRegisters
    <3> HIDE DEF b, n
    <3> QED BY <1>0, <3>1 DEF SRegisters, Alike
  <2>2. /\ boot = "thawed" /\ reg' = h /\ events' \in {{}, {"work"}, {"request"}}
        /\ b => events' # {}
        /\ UNCHANGED <<interface, boot, requestQueue, contexts, responses, line,
                       irq, held, cmd, status>>
    <3>1. CASE S!Start
      <4>1. h = [reg EXCEPT !.started = TRUE]
        BY <1>0, <3>1 DEF S!Start, SRegisters
      <4> QED BY <1>0, <3>1, <4>1 DEF S!Start, SCalls
    <3>2. CASE S!Stop
      <4>1. h = [reg EXCEPT !.started = FALSE, !.stops = @ + 1] /\ ~b
        BY <1>0, <3>2 DEF S!Stop, SRegisters
      <4>2. boot = "thawed"
        BY <1>0, <3>2 DEF S!Stop, SBoot
      <4>3. events' \in {{}, {"work"}, {"request"}}
        BY <1>0, <3>2 DEF S!Stop, SCalls
      <4> QED BY <3>2, <4>1, <4>2, <4>3 DEF S!Stop
    <3> QED BY <1>3, <3>1, <3>2
  <2>3. SCore(requestQueue', contexts, responses, h.ci, h.sact, held', status')
    BY <1>0, <2>1, <2>2 DEF SCommands, SFrames
  <2> HIDE DEF h, b
  <2>4. SInv'
    BY <1>0, <2>1, <2>2, <2>3, SSettles DEF SCalls
  <2> QED BY <2>2, <2>4 DEF Serves
<1>4. ASSUME NEW r \in Requests, NEW s \in Slots, S!Issue(r, s)
      PROVE  SInv' /\ Serves
  BY <1>4, SIssues
<1>5. CASE S!HandleRequest
  <2>1. PICK e \in {"work", "request"} : TakeRequest(e, 0)
    BY <1>5, SSame DEF S!HandleRequest
  <2>2. UNCHANGED <<interface, boot, responses, reg, line, irq, held, cmd, status>>
    BY <1>5 DEF S!HandleRequest
  <2>3. PICK x \in {"work", "request"} : e \in events /\ events' = (events \ {e}) \cup {x}
    BY <2>1 DEF TakeRequest
  <2>4. SCalls'
    BY <1>0, <2>2, <2>3 DEF SCalls
  <2>5. SFrames' = SFrames
    BY <2>2 DEF SFrames
  <2>6. SCommands' /\ SBoot'
    <3>1. CASE requestQueue = << >>
      <4>1. requestQueue' = requestQueue /\ contexts' = contexts
        BY <2>1, <3>1 DEF TakeRequest
      <4>2. SCommands'
        BY <1>0, <2>2, <2>5, <4>1, SPrimes DEF SCommands
      <4> QED BY <1>0, <2>2, <4>1, <4>2 DEF SBoot
    <3>2. CASE requestQueue # << >>
      <4> DEFINE d == Context(Head(requestQueue), held[Head(requestQueue)], "header", << >>, {})
      <4>1. requestQueue' = Tail(requestQueue) /\ contexts' = contexts \cup {d}
        BY <2>1, <3>2 DEF TakeRequest
      <4>2. SCore(Tail(requestQueue), contexts \cup {d}, SFrames, reg.ci, reg.sact, held, status)
        BY <1>0, <3>2, STakes DEF SCommands
      <4> HIDE DEF d
      <4>3. SCommands'
        BY <2>2, <2>5, <4>1, <4>2, SPrimes
      <4>4. boot = "thawed"
        BY <1>0, <3>2 DEF SBoot
      <4> QED BY <2>2, <4>3, <4>4 DEF SBoot
    <3> QED BY <3>1, <3>2
  <2> QED BY <2>2, <2>4, <2>6 DEF SInv, Serves
<1>6. CASE S!DeviceStep
  BY <1>6, SDeviceKeeps
<1>7. CASE S!FrameWritten
  <2> DEFINE w == reg.writes - 1
             h == [reg EXCEPT !.writes = w]
  <2>1. /\ reg' = h /\ reg.writes > 0 /\ line' = TRUE
        /\ UNCHANGED <<interface, boot, events, requestQueue, contexts, responses,
                       irq, held, cmd, status>>
    BY <1>7 DEF S!FrameWritten
  <2>2. w \in Nat
    BY <1>0, <2>1 DEF SRegisters
  <2> HIDE DEF w
  <2>3. /\ h \in SRegisters /\ h.ci = reg.ci /\ h.sact = reg.sact /\ h.started = reg.started
    BY <1>0, <2>2 DEF SRegisters
  <2> HIDE DEF h
  <2>4. SFrames' = SFrames
    BY <2>1 DEF SFrames
  <2>5. SCommands'
    BY <1>0, <2>1, <2>3, <2>4, SPrimes DEF SCommands
  <2>6. SBoot' /\ SCalls'
    BY <1>0, <2>1, <2>3 DEF SBoot, SCalls
  <2> QED BY <2>1, <2>3, <2>5, <2>6 DEF SInv, Serves
<1>8. CASE S!Interrupt
  <2>1. SInv'
    BY <1>8, SClears DEF S!Interrupt
  <2> QED BY <1>8, <2>1 DEF S!Interrupt, Serves
<1>9. CASE S!Collect
  BY <1>9, SCollectKeeps
<1> QED BY <1>1, <1>2, <1>3, <1>4, <1>5, <1>6, <1>7, <1>8, <1>9 DEF S!SATANext

LEMMA SSameCardinality ==
  ASSUME NEW T
  PROVE  S!Cardinality(T) = Cardinality(T)
BY DEF S!Cardinality, Cardinality

\* The invariant counts the places of a command.
LEMMA SAccounts ==
  ASSUME SInv
  PROVE  S!Accounted
<1>0. /\ SHold(held, status) /\ SShape(requestQueue, contexts, SFrames, reg.ci, reg.sact)
      /\ SQueue(requestQueue, contexts, SFrames, held, status)
      /\ SWork(contexts, SFrames, held, status) /\ SStarts(SFrames, held, status)
      /\ SIssued(requestQueue, contexts, SFrames, held, status)
      /\ SBits(reg.ci, reg.sact, held, status)
      /\ STokens(requestQueue, contexts, SFrames, reg.ci, held, status)
  BY DEF SInv, SCommands, SCore
<1>1. ASSUME NEW s \in Slots, held[s] = 0
      PROVE  s \notin reg.ci \cup reg.sact /\ ~\E i \in DOMAIN requestQueue : requestQueue[i] = s
  BY <1>0, <1>1 DEF SBits, SQueue, HasIn
<1>2. ASSUME NEW s \in Slots, held[s] # 0
      PROVE  LET r == held[s]
                 k == cmd[r]
                 places == S!Places(r, s, LAMBDA c : c.stage # "accept" \/ k = "writeQueued")
                             + S!Count(LAMBDA f : f.starts = r, responses)
             IN  /\ places = (IF status[r] = "issued" THEN 1 ELSE 0)
                 /\ S!Queued(k) => (s \in reg.sact <=> status[r] = "issued")
                 /\ ~S!Queued(k) =>
                       (s \in reg.ci <=> places + S!Count(LAMBDA f : f.slot = s, responses) = 1)
  <2> DEFINE r == held[s]
             k == cmd[r]
             A == {i \in DOMAIN requestQueue : requestQueue[i] = s}
             B == {c \in contexts : c.req = r /\ (c.stage # "accept" \/ k = "writeQueued")}
             F == {i \in DOMAIN responses : responses[i].starts = r}
             G == {i \in DOMAIN responses : responses[i].slot = s}
  <2>1. /\ r \in Requests /\ r # 0 /\ SFrames = responses
        /\ status[r] \in {"issued", "executed"}
        /\ HasIn(held, status, s, "issued") <=> status[r] = "issued"
    <3>1. boot = "thawed"
      BY <1>2 DEF SInv, SBoot
    <3> QED BY <1>0, <1>2, <3>1 DEF SHold, SFrames, HasIn
  <2>2. /\ \A c \in B : c \in contexts /\ InWork(c) /\ c.slot = s
        /\ \A c \in contexts : InWork(c) /\ c.slot = s => c \in B
    <3>1. \A c \in contexts : c.slot \in Slots
      BY <1>0 DEF SShape, SContext
    <3>2. \A c \in contexts : InWork(c) => held[c.slot] = c.req
      BY <1>0 DEF SWork
    <3>3. \A c \in contexts : c.req = r => (InWork(c) <=> (c.stage # "accept" \/ k = "writeQueued"))
      BY DEF InWork
    <3>4. \A t \in Slots : held[t] = r => t = s
      BY <1>0, <1>2 DEF SHold
    <3> QED BY <3>1, <3>2, <3>3, <3>4
  <2> HIDE DEF B
  <2>3. /\ \A i, j \in A : i = j
        /\ \A c, d \in B : c = d
        /\ \A i, j \in F : i = j
    <3>1. \A i, j \in A : i = j
      BY <1>0 DEF SQueue
    <3>2. \A c, d \in B : c = d
      BY <1>0, <2>2 DEF SWork
    <3>3. \A i, j \in F : i = j
      BY <1>0, <2>1 DEF SStarts
    <3> QED BY <3>1, <3>2, <3>3
  <2>4. /\ status[r] = "issued" => A # {} \/ B # {} \/ F # {}
        /\ A # {} => status[r] = "issued" /\ B = {} /\ F = {}
        /\ B # {} => status[r] = "issued" /\ F = {}
        /\ F # {} => status[r] = "issued"
    <3>1. status[r] = "issued" => A # {} \/ B # {} \/ F # {}
      BY <1>0, <2>1, <2>2 DEF SIssued
    <3>2. A # {} => status[r] = "issued" /\ B = {} /\ F = {}
      BY <1>0, <2>1, <2>2 DEF SQueue
    <3>3. B # {} => status[r] = "issued" /\ F = {}
      BY <1>0, <2>1, <2>2 DEF SWork
    <3>4. F # {} => status[r] = "issued"
      BY <1>0, <2>1 DEF SStarts
    <3> QED BY <3>1, <3>2, <3>3, <3>4
  <2>5. ~S!Queued(k) =>
           /\ \A i, j \in G : i = j
           /\ F = {}
           /\ s \in reg.ci <=> A # {} \/ B # {} \/ G # {}
           /\ G # {} => A = {} /\ B = {}
    <3> SUFFICES ASSUME ~S!Queued(k)
                 PROVE  /\ \A i, j \in G : i = j
                        /\ F = {}
                        /\ s \in reg.ci <=> A # {} \/ B # {} \/ G # {}
                        /\ G # {} => A = {} /\ B = {}
      OBVIOUS
    <3>1. Counted(s, status)
      BY <1>0, <1>2 DEF SHold, Counted
    <3>2. \A c \in contexts : c.slot = s =>
             /\ InWork(c) => InReg(c)
             /\ InReg(c) => InWork(c)
      <4> SUFFICES ASSUME NEW c \in contexts, c.slot = s
                   PROVE  InWork(c) <=> InReg(c)
        OBVIOUS
      <4>1. InWork(c) => InReg(c)
        BY <1>0 DEF SWork, InReg
      <4>2. InReg(c) => held[s] = c.req
        BY <1>0, <3>1 DEF STokens
      <4>3. c.stage = "accept" => S!Queued(cmd[c.req])
        BY <1>0 DEF SWork
      <4> QED BY <4>1, <4>2, <4>3 DEF InWork
    <3>3. F = {}
      <4>1. S!Queued("writeQueued")
        BY DEF S!Queued
      <4> QED BY <1>0, <2>1, <4>1 DEF SStarts
    <3>4. \A i, j \in G : i = j
      BY <1>0, <2>1, <3>1 DEF STokens
    <3>5. G # {} => A = {} /\ B = {} /\ s \in reg.ci
      BY <1>0, <2>1, <2>2, <3>1, <3>2 DEF STokens
    <3>6. s \in reg.ci => A # {} \/ B # {} \/ G # {}
      BY <1>0, <2>1, <2>2, <3>1, <3>2 DEF STokens
    <3>7. (A # {} \/ B # {}) => s \in reg.ci
      BY <1>0, <2>2, <3>1, <3>2 DEF STokens
    <3> HIDE DEF A, F, G
    <3> QED BY <3>3, <3>4, <3>5, <3>6, <3>7
  <2>6. /\ S!Places(r, s, LAMBDA c : c.stage # "accept" \/ k = "writeQueued")
             = Cardinality(A) + Cardinality(B)
        /\ S!Count(LAMBDA f : f.starts = r, responses) = Cardinality(F)
        /\ S!Count(LAMBDA f : f.slot = s, responses) = Cardinality(G)
    BY SSameCardinality DEF S!Places, S!Count, B
  <2> HIDE DEF A, F, G
  <2>7. /\ (A = {} => Cardinality(A) = 0) /\ (A # {} => Cardinality(A) = 1)
        /\ (B = {} => Cardinality(B) = 0) /\ (B # {} => Cardinality(B) = 1)
        /\ (F = {} => Cardinality(F) = 0) /\ (F # {} => Cardinality(F) = 1)
    BY <2>3, AtMostOne
  <2>8. ~S!Queued(k) => (G = {} => Cardinality(G) = 0) /\ (G # {} => Cardinality(G) = 1)
    BY <2>5, AtMostOne
  <2>9. Cardinality(A) + Cardinality(B) + Cardinality(F) = IF status[r] = "issued" THEN 1 ELSE 0
    BY <2>4, <2>7
  <2>10. ~S!Queued(k) => (s \in reg.ci <=>
            Cardinality(A) + Cardinality(B) + Cardinality(F) + Cardinality(G) = 1)
    BY <2>4, <2>5, <2>7, <2>8
  <2>11. S!Queued(k) => (s \in reg.sact <=> status[r] = "issued")
    BY <1>0, <2>1 DEF SBits
  <2> QED BY <2>6, <2>9, <2>10, <2>11
<1>3. \A s \in S!Outstanding : s \in Slots /\ held[s] # 0
  BY DEF S!Outstanding
<1>4. \A s \in Slots \ S!Outstanding : held[s] = 0
  BY DEF S!Outstanding
<1> QED BY <1>1, <1>2, <1>3, <1>4 DEF S!Accounted

\* Whoever has something to do is going to be called.
LEMMA SAwakes ==
  ASSUME SInv
  PROVE  S!Awake
<1>1. SCalls
  BY DEF SInv
<1>2. reg.started => \E x : events = {x}
  BY <1>1 DEF SCalls
<1>3. reg.started => S!Cardinality(events) = 1
  BY <1>2, FS_Singleton, SSameCardinality
<1> QED BY <1>1, <1>3 DEF SCalls, S!Awake

-----------------------------------------------------------------------------
(* Open-channel: commands *)

LEMMA OSame ==
    /\ O!CommonInit <=> CommonInit
    /\ O!Outstanding = Outstanding
    /\ \A r, s : O!Put(r, s) <=> Put(r, s)
    /\ \A done : O!TakeBack(done) <=> TakeBack(done)
    /\ \A s, r, stage, rest, need :
          O!Context(s, r, stage, rest, need) = Context(s, r, stage, rest, need)
BY DEF O!CommonInit, CommonInit, O!Outstanding, Outstanding, O!Put, Put, O!TakeBack,
       TakeBack, O!Context, Context

\* Every issued request has one context, and nothing else has; what a command
\* erases, or writes at more pages than its result has bits, no other changes.
OCommands ==
    /\ Holding
    /\ \A c \in contexts :
          /\ c.slot \in Slots /\ c.req \in Requests /\ held[c.slot] = c.req
          /\ status[c.req] = "issued"
          /\ \A d \in contexts : d.req = c.req => c = d
    /\ \A s \in Slots : Has(s, "issued") => \E c \in contexts : c.req = held[s]
    /\ \A s, t \in Slots :
          s # t /\ held[s] # 0 /\ held[t] # 0 => O!Apart(cmd[held[s]], cmd[held[t]])

LEMMA OApartBoth ==
  ASSUME NEW k, NEW l, O!Apart(k, l)
  PROVE  O!Apart(l, k)
BY DEF O!Apart

LEMMA OInitCommands ==
  ASSUME CommonInit
  PROVE  OCommands
<1>1. Holding
  BY HoldingInit
<1> QED BY <1>1 DEF CommonInit, OCommands, Has

\* The next stage of a command, or its end.
LEMMA OProceeds ==
  ASSUME OCommands, NEW c \in contexts,
         O!Proceed(contexts \ {c}, c.slot, c.req, c.rest, c.need),
         status' = IF c.rest = << >> THEN [status EXCEPT ![c.req] = "executed"] ELSE status,
         UNCHANGED <<held, cmd>>
  PROVE  OCommands' /\ Serves
<1>0. /\ Holding /\ c.slot \in Slots /\ c.req \in Requests /\ held[c.slot] = c.req
      /\ status[c.req] = "issued" /\ c.req # 0
  BY SlotsAssumption DEF OCommands
<1>1. CASE c.rest = << >>
  <2>1. contexts' = contexts \ {c} /\ status' = [status EXCEPT ![c.req] = "executed"]
    BY <1>1 DEF O!Proceed
  <2>2. /\ Holding' /\ status'[c.req] = "executed"
        /\ \A q \in Requests \ {c.req} : status'[q] = status[q]
    BY <1>0, <2>1, ExecuteHolds
  <2>3. OCommands'
    <3>1. \A s \in Slots : Has(s, "issued")' => Has(s, "issued") /\ held[s] # c.req
      BY <1>0, <2>2 DEF Has, Holding
    <3>2. ASSUME NEW d \in contexts'
          PROVE  /\ d.slot \in Slots /\ d.req \in Requests /\ held'[d.slot] = d.req
                 /\ status'[d.req] = "issued"
                 /\ \A e \in contexts' : e.req = d.req => d = e
      BY <2>1, <2>2, <3>2 DEF OCommands
    <3>3. \A s \in Slots : Has(s, "issued")' => \E d \in contexts' : d.req = held'[s]
      BY <2>1, <3>1 DEF OCommands
    <3>4. \A s, t \in Slots : s # t /\ held'[s] # 0 /\ held'[t] # 0
                                => O!Apart(cmd'[held'[s]], cmd'[held'[t]])
      BY DEF OCommands
    <3> QED BY <2>2, <3>2, <3>3, <3>4 DEF OCommands
  <2>4. Serves
    BY <1>0, <2>1, ExecuteServes DEF Serves
  <2> QED BY <2>3, <2>4
<1>2. CASE c.rest # << >>
  <2>1. PICK stage, rest, need :
           contexts' = (contexts \ {c}) \cup {Context(c.slot, c.req, stage, rest, need)}
    BY <1>2, OSame DEF O!Proceed
  <2>2. UNCHANGED status
    BY <1>2
  <2> DEFINE d == Context(c.slot, c.req, stage, rest, need)
  <2>3. d.slot = c.slot /\ d.req = c.req
    BY DEF Context
  <2> HIDE DEF d
  <2>4. /\ \A e \in contexts' : e = d \/ (e \in contexts /\ e # c)
        /\ \A e \in contexts : e \in contexts' \/ e = c
        /\ d \in contexts'
    BY <2>1 DEF d
  <2>5. OCommands'
    <3>1. ASSUME NEW e \in contexts'
          PROVE  /\ e.slot \in Slots /\ e.req \in Requests /\ held'[e.slot] = e.req
                 /\ status'[e.req] = "issued"
                 /\ \A f \in contexts' : f.req = e.req => e = f
      BY <1>0, <2>2, <2>3, <2>4, <3>1 DEF OCommands
    <3>2. \A s \in Slots : Has(s, "issued")' => \E e \in contexts' : e.req = held'[s]
      BY <2>2, <2>3, <2>4 DEF OCommands, Has
    <3>3. Holding'
      BY <1>0, <2>2 DEF Holding
    <3>4. \A s, t \in Slots : s # t /\ held'[s] # 0 /\ held'[t] # 0
                                => O!Apart(cmd'[held'[s]], cmd'[held'[t]])
      BY DEF OCommands
    <3> QED BY <3>1, <3>2, <3>3, <3>4 DEF OCommands
  <2> QED BY <2>2, <2>5 DEF Serves
<1> QED BY <1>1, <1>2

\* Every step keeps the invariant and serves the host.
LEMMA ONextCommands ==
  ASSUME OCommands, O!OCSSDNext
  PROVE  OCommands' /\ Serves
<1>0. Holding
  BY DEF OCommands
<1>1. ASSUME NEW r \in Requests, NEW s \in Slots, O!Issue(r, s)
      PROVE  OCommands' /\ Serves
  <2>1. /\ Put(r, s) /\ contexts' = contexts \cup {O!Submitted(s, r)} /\ UNCHANGED cmd
        /\ \A t \in Outstanding : O!Apart(cmd[r], cmd[held[t]])
    BY <1>1, OSame DEF O!Issue, O!MaySend
  <2> DEFINE d == O!Submitted(s, r)
  <2>2. d.slot = s /\ d.req = r
    BY OSame DEF O!Submitted, Context
  <2> HIDE DEF d
  <2>3. /\ Holding' /\ held[s] = 0 /\ held'[s] = r /\ r # 0
        /\ status[r] = "idle" /\ status'[r] = "issued"
        /\ \A t \in Slots \ {s} :
              /\ held'[t] = held[t]
              /\ held[t] # 0 => status'[held[t]] = status[held[t]] /\ held[t] # r
        /\ \A q \in Requests \ {r} : status'[q] = status[q]
    BY <1>0, <2>1, PutHolds
  <2>4. /\ \A e \in contexts' : e = d \/ e \in contexts
        /\ \A e \in contexts : e \in contexts'
        /\ d \in contexts'
    BY <2>1 DEF d
  <2>5. \A e \in contexts : e.slot # s /\ e.req # r
    BY <2>3, SlotsAssumption DEF OCommands
  <2>6. ASSUME NEW e \in contexts'
        PROVE  /\ e.slot \in Slots /\ e.req \in Requests /\ held'[e.slot] = e.req
               /\ status'[e.req] = "issued"
               /\ \A f \in contexts' : f.req = e.req => e = f
    <3>1. CASE e = d
      BY <2>2, <2>3, <2>4, <2>5, <3>1
    <3>2. CASE e \in contexts
      BY <2>2, <2>3, <2>4, <2>5, <3>2 DEF OCommands
    <3> QED BY <2>4, <2>6, <3>1, <3>2
  <2>7. \A t \in Slots : Has(t, "issued")' => \E e \in contexts' : e.req = held'[t]
    <3> SUFFICES ASSUME NEW t \in Slots, Has(t, "issued")'
                 PROVE  \E e \in contexts' : e.req = held'[t]
      OBVIOUS
    <3>1. CASE t = s
      BY <2>2, <2>3, <2>4, <3>1
    <3>2. CASE t # s
      <4>1. Has(t, "issued") /\ held'[t] = held[t]
        BY <2>3, <3>2 DEF Has
      <4> QED BY <2>4, <4>1 DEF OCommands
    <3> QED BY <3>1, <3>2
  <2>8. \A t, u \in Slots : t # u /\ held'[t] # 0 /\ held'[u] # 0
                              => O!Apart(cmd'[held'[t]], cmd'[held'[u]])
    <3> SUFFICES ASSUME NEW t \in Slots, NEW u \in Slots, t # u, held'[t] # 0, held'[u] # 0
                 PROVE  O!Apart(cmd[held'[t]], cmd[held'[u]])
      BY <2>1
    <3>1. CASE t = s
      <4>1. u \in Outstanding /\ held'[u] = held[u]
        BY <2>3, <3>1 DEF Outstanding
      <4> QED BY <2>1, <2>3, <3>1, <4>1
    <3>2. CASE u = s
      <4>1. t \in Outstanding /\ held'[t] = held[t]
        BY <2>3, <3>2 DEF Outstanding
      <4> QED BY <2>1, <2>3, <3>2, <4>1, OApartBoth
    <3>3. CASE t # s /\ u # s
      BY <2>3, <3>3 DEF OCommands
    <3> QED BY <3>1, <3>2, <3>3
  <2>9. OCommands'
    BY <2>3, <2>6, <2>7, <2>8 DEF OCommands
  <2> QED BY <1>0, <2>1, <2>9, PutServes DEF Serves
<1>2. CASE O!StageDone
  BY <1>2, OProceeds DEF O!StageDone
<1>3. ASSUME NEW s \in Slots, O!Answered(s)
      PROVE  OCommands' /\ Serves
  <2>1. TakeBack({s}) /\ Has(s, "executed") /\ UNCHANGED <<contexts, cmd>>
    BY <1>3, OSame DEF O!Answered, Has
  <2> DEFINE done == {s}
  <2>2. done \in SUBSET Slots /\ TakeBack(done) /\ \A t \in done : Has(t, "executed")
    BY <2>1
  <2>3. Serves
    <3> HIDE DEF done
    <3> QED BY <1>0, <2>2, TakeBackServes DEF Serves
  <2>4. /\ Holding'
        /\ \A t \in done : held'[t] = 0 /\ status'[held[t]] = "answered"
        /\ \A t \in Slots \ done :
              /\ held'[t] = held[t]
              /\ held[t] # 0 => status'[held[t]] = status[held[t]]
        /\ \A q \in Requests :
              \/ status'[q] = status[q]
              \/ status[q] = "executed" /\ status'[q] = "answered"
    <3> HIDE DEF done
    <3> QED BY <1>0, <2>2, TakeBackHolds
  <2>5. \A e \in contexts : e.slot # s
    BY <2>1 DEF OCommands, Has
  <2>6. ASSUME NEW e \in contexts'
        PROVE  /\ e.slot \in Slots /\ e.req \in Requests /\ held'[e.slot] = e.req
               /\ status'[e.req] = "issued"
               /\ \A f \in contexts' : f.req = e.req => e = f
    <3>1. /\ e \in contexts /\ e.slot \in Slots \ done /\ e.req \in Requests
          /\ held[e.slot] = e.req /\ status[e.req] = "issued"
          /\ \A f \in contexts : f.req = e.req => e = f
      BY <2>1, <2>5, <2>6 DEF OCommands
    <3>2. held'[e.slot] = e.req /\ status'[e.req] = "issued"
      <4> HIDE DEF done
      <4> QED BY <2>4, <3>1
    <3> QED BY <2>1, <3>1, <3>2
  <2>7. \A t \in Slots : Has(t, "issued")' => \E e \in contexts' : e.req = held'[t]
    BY <2>1, <2>4 DEF OCommands, Has
  <2>8. \A t, u \in Slots : t # u /\ held'[t] # 0 /\ held'[u] # 0
                              => O!Apart(cmd'[held'[t]], cmd'[held'[u]])
    <3> SUFFICES ASSUME NEW t \in Slots, NEW u \in Slots, t # u, held'[t] # 0, held'[u] # 0
                 PROVE  O!Apart(cmd[held'[t]], cmd[held'[u]])
      BY <2>1
    <3>1. held'[t] = held[t] /\ held'[u] = held[u]
      BY <2>4
    <3> QED BY <3>1 DEF OCommands
  <2>9. OCommands'
    BY <2>4, <2>6, <2>7, <2>8 DEF OCommands
  <2> QED BY <2>3, <2>9
<1>4. CASE O!Over
  <2>1. UNCHANGED <<contexts, held, cmd, status>>
    BY <1>4 DEF O!Over, O!vars
  <2>2. OCommands'
    <3>1. \A s, t \in Slots : s # t /\ held'[s] # 0 /\ held'[t] # 0
                                => O!Apart(cmd'[held'[s]], cmd'[held'[t]])
      BY <2>1 DEF OCommands
    <3> QED BY <2>1, <3>1 DEF OCommands, Holding, Has
  <2> QED BY <2>1, <2>2 DEF Serves
<1> QED BY <1>1, <1>2, <1>3, <1>4 DEF O!OCSSDNext

-----------------------------------------------------------------------------
(* Open-channel: chunks *)

\* Addresses, descriptors and stages.
OAddress == [chunk : Chunks, page : 0 .. PagesInChunk - 1]
OChunk == [state : {"free", "open", "closed"}, wp : 0 .. PagesInChunk]
OStages == {"prp", "cpu", "lbas", "job", "nand", "data"}

\* A descriptor says what its write pointer says.
OTidy(d) == /\ d.state = "closed" <=> d.wp = PagesInChunk
            /\ d.state = "free" => d.wp = 0

\* Stages to go: the flash is called after the job that precedes it, and only
\* there, and there is one job.
OPath(stage, p) ==
    /\ p \in Seq(OStages)
    /\ stage = "job" <=> p # << >> /\ p[1] = "nand"
    /\ \A i \in 1 .. Len(p) : p[i] = "job" <=> (i < Len(p) /\ p[i + 1] = "nand")
    /\ \A i, j \in 1 .. Len(p) : p[i] = "job" /\ p[j] = "job" => i = j
    /\ \A i \in 1 .. Len(p) : p[i] = "job" => stage # "job"

OJob(c) == \E i \in 1 .. Len(c.rest) : c.rest[i] = "job"

\* The pages a context is about to program.
OWrites(c) == c.stage = "job" /\ cmd[c.req].op \in {"vectorWrite", "write"}

\* A list for the flash names chunks that the command changes.
ONear(k, list) ==
    k.op \in {"vectorWrite", "write", "reset"} =>
        \A i \in DOMAIN list : list[i].chunk \in O!Changed(k)

\* What the host keeps to for a command holds until its job.
OMay(k) == /\ k.op = "reset" => O!MayReset(O!Merge(k))
           /\ O!Overlong(k) => O!MayWrite(O!Merge(k))

OContexts ==
    \A c \in contexts :
        /\ OPath(c.stage, c.rest)
        /\ c.stage = "job" => c.need \in Seq(OAddress) /\ ONear(cmd[c.req], c.need)
        /\ OJob(c) => OMay(cmd[c.req])
OLists ==
    \A c \in contexts : OWrites(c) =>
        \A i \in DOMAIN c.need :
            /\ c.need[i].page < reg.chunk[c.need[i].chunk].wp
            /\ c.need[i].page \notin reg.flash[c.need[i].chunk]
            /\ \A d \in contexts : OWrites(d) =>
                  \A j \in DOMAIN d.need : c.need[i] = d.need[j] => c = d /\ i = j
OFlash ==
    \A ch \in Chunks :
        /\ OTidy(reg.chunk[ch])
        /\ \A p \in reg.flash[ch] : p < reg.chunk[ch].wp \/ O!Erasing(ch)
OMedia ==
    /\ reg.version = 20
    /\ O!Sendable(cmd, O!Ops20)
    /\ reg.chunk \in [Chunks -> OChunk]
    /\ reg.flash \in [Chunks -> SUBSET (0 .. PagesInChunk - 1)]
    /\ OContexts /\ OLists /\ OFlash

\* An address of the device is one of its pages.
LEMMA OPlaceIn ==
  ASSUME NEW lba \in Nat, O!Place(lba).chunk \in Chunks
  PROVE  O!Place(lba) \in OAddress
<1> DEFINE n == PagesInChunk * WriteSize
           x == lba % n
           y == x \div WriteSize
<1>1. PagesInChunk \in Nat \ {0} /\ WriteSize \in Nat \ {0}
  BY AdapterAssumption
<1>2. n \in Nat \ {0}
  BY <1>1
<1>3. x \in 0 .. n - 1
  <2> HIDE DEF n
  <2> QED BY <1>2
<1>4. y \in Nat /\ y * WriteSize <= x
  <2> HIDE DEF x
  <2> QED BY <1>1, <1>3
<1>5. y < PagesInChunk
  <2> HIDE DEF x, y
  <2>1. SUFFICES ASSUME y >= PagesInChunk PROVE FALSE
    BY <1>1, <1>4
  <2>2. y * WriteSize >= PagesInChunk * WriteSize
    BY <1>1, <1>4, <2>1
  <2>3. y * WriteSize \in Nat /\ x < n
    BY <1>1, <1>2, <1>3, <1>4
  <2> QED BY <1>1, <1>3, <1>4, <2>2, <2>3
<1>6. y \in 0 .. PagesInChunk - 1
  <2> HIDE DEF y
  <2> QED BY <1>1, <1>4, <1>5
<1>7. O!Place(lba) = [chunk |-> O!Place(lba).chunk, page |-> y]
  BY DEF O!Place
<1> HIDE DEF y
<1> QED BY <1>6, <1>7 DEF OAddress

\* A command of a workload names pages of the device.
LEMMA OAddressesIn ==
  ASSUME NEW k, k.lbas \in Seq(Nat),
         k.op \in {"read", "write"} => Len(k.lbas) = 2,
         \A i \in DOMAIN O!Addresses(k) : O!Addresses(k)[i].chunk \in Chunks
  PROVE  O!Addresses(k) \in Seq(OAddress)
<1> DEFINE A == O!Addresses(k)
<1>1. CASE k.op \in {"read", "write"}
  <2> DEFINE n == k.lbas[2] - k.lbas[1]
  <2>1. k.lbas[1] \in Nat /\ k.lbas[2] \in Nat
    BY <1>1
  <2>2. n \in Int
    BY <2>1
  <2>3. A = [i \in 1 .. n |-> O!Place(k.lbas[1] + i - 1)]
    BY <1>1 DEF O!Addresses
  <2>4. \A i \in 1 .. n : A[i] \in OAddress
    <3> SUFFICES ASSUME NEW i \in 1 .. n
                 PROVE  A[i] \in OAddress
      OBVIOUS
    <3> DEFINE l == k.lbas[1] + i - 1
    <3>1. l \in Nat
      BY <2>1, <2>2
    <3>2. A[i] = O!Place(l) /\ O!Place(l).chunk \in Chunks
      BY <2>3
    <3> HIDE DEF l, A
    <3> QED BY <3>1, <3>2, OPlaceIn
  <2>5. PICK m \in Nat : 1 .. n = 1 .. m
    <3>1. CASE n >= 0
      BY <2>2, <3>1
    <3>2. CASE n < 0
      <4>1. 1 .. n = 1 .. 0
        BY <2>2, <3>2
      <4> QED BY <4>1
    <3> QED BY <2>2, <3>1, <3>2
  <2>6. A \in [1 .. m -> OAddress]
    BY <2>3, <2>4, <2>5
  <2> QED BY <2>6
<1>2. CASE k.op \notin {"read", "write"}
  <2>1. A = [i \in DOMAIN k.lbas |-> O!Place(k.lbas[i])]
    BY <1>2 DEF O!Addresses
  <2>2. DOMAIN k.lbas = 1 .. Len(k.lbas) /\ Len(k.lbas) \in Nat
    OBVIOUS
  <2>3. \A i \in 1 .. Len(k.lbas) : A[i] \in OAddress
    <3> SUFFICES ASSUME NEW i \in 1 .. Len(k.lbas)
                 PROVE  A[i] \in OAddress
      OBVIOUS
    <3> DEFINE l == k.lbas[i]
    <3>1. l \in Nat
      BY <2>2
    <3>2. A[i] = O!Place(l) /\ O!Place(l).chunk \in Chunks
      BY <2>1, <2>2
    <3> HIDE DEF l, A
    <3> QED BY <3>1, <3>2, OPlaceIn
  <2>4. A \in [1 .. Len(k.lbas) -> OAddress]
    BY <2>1, <2>2, <2>3
  <2> QED BY <2>2, <2>4
<1> QED BY <1>1, <1>2

\* mergeList leaves out addresses and adds none.
LEMMA OMergeIn ==
  ASSUME NEW A \in Seq(OAddress), NEW block
  PROVE  O!MergeList(A, block) \in Seq(OAddress)
<1> DEFINE N == Len(A)
           op(q, a) == IF q # << >> /\ (IF block THEN O!Last(q).chunk = a.chunk
                                        ELSE O!Last(q) = a)
                       THEN q ELSE Append(q, a)
           X == Seq(OAddress)
           base == << >>
           G == [z \in X \X (1 .. N) |-> op(z[1], A[z[2]])]
           P == [k \in 0 .. N |-> X]
           body(f) == [Z \in SUBSET (1 .. N) |->
                          IF Z = {} THEN base
                          ELSE op(f[Z \ {Max(Z)}], A[Max(Z)])]
           F == CHOOSE f : f = body(f)
<1>0. /\ base \in X /\ N \in Nat /\ DOMAIN A = 1 .. N
      /\ \A i \in 1 .. N : A[i] \in OAddress
  OBVIOUS
<1>1. O!MergeList(A, block) = F[1 .. N]
  BY <1>0 DEF O!MergeList, O!FoldLeft, O!MapThenFoldSet, O!Max, Max
<1>2. ASSUME NEW q \in X, NEW i \in 1 .. N PROVE op(q, A[i]) \in X
  BY <1>0
<1> HIDE DEF op, X, N, base
<1>3. G \in [X \X (1 .. N) -> X]
  BY <1>2
<1>4. PICK f \in [SUBSET (1 .. N) -> X] : Folded(f, G, base, N)
  <2> HIDE DEF G
  <2> QED BY <1>0, <1>3, FoldExists
<1>5. f = body(f)
  <2> SUFFICES ASSUME NEW Z \in SUBSET (1 .. N)
               PROVE  f[Z] = IF Z = {} THEN base ELSE op(f[Z \ {Max(Z)}], A[Max(Z)])
    OBVIOUS
  <2>1. f[Z] = IF Z = {} THEN base ELSE G[<<f[Z \ {Max(Z)}], Max(Z)>>]
    BY <1>4 DEF Folded
  <2>2. CASE Z # {}
    <3>1. Max(Z) \in 1 .. N /\ f[Z \ {Max(Z)}] \in X
      BY <1>0, <2>2, MaxOfIndices
    <3> QED BY <2>1, <2>2, <3>1
  <2> QED BY <2>1, <2>2
<1>6. F = body(F)
  BY <1>5
<1> HIDE DEF F
<1>7. F[{}] = base
  BY <1>6
<1>8. ASSUME NEW k \in 1 .. N, F[1 .. k - 1] \in X
      PROVE  F[1 .. k] = G[<<F[1 .. k - 1], k>>]
  <2>1. /\ Max(1 .. k) = k /\ (1 .. k) \ {k} = 1 .. k - 1 /\ 1 .. k # {}
        /\ 1 .. k \in SUBSET (1 .. N)
    <3>1. k \in Nat \ {0} /\ 1 .. k \in SUBSET (1 .. N)
      BY <1>0
    <3> QED BY <3>1, LastIndex
  <2>2. F[1 .. k] = op(F[1 .. k - 1], A[k])
    BY <1>6, <2>1
  <2> QED BY <1>8, <2>2
<1>9. base \in P[0]
  BY <1>0
<1>10. ASSUME NEW k \in 1 .. N, NEW y \in P[k - 1] PROVE G[<<y, k>>] \in P[k]
  <2>1. k - 1 \in 0 .. N /\ k \in 0 .. N
    BY <1>0
  <2>2. y \in X /\ P[k] = X
    BY <1>10, <2>1
  <2> QED BY <1>3, <2>2
<1>11. P \in [0 .. N -> SUBSET X]
  BY <1>0
<1> HIDE DEF G
<1>12. F[1 .. N] \in P[N]
  <2>1. Steps(F, G, X, N)
    BY <1>8 DEF Steps
  <2> HIDE DEF P
  <2>2. Leads(G, P, N)
    BY <1>10 DEF Leads
  <2> QED BY <1>0, <1>7, <1>9, <1>11, <2>1, <2>2, FoldReaches
<1>13. N \in 0 .. N
  BY <1>0
<1>14. F[1 .. N] \in X
  BY <1>12, <1>13
<1> QED BY <1>1, <1>14 DEF X

\* One entry of the list of readInternal, writeInternal or eraseInternal.
OEntry(k, x, a) == CASE k.op \in {"vectorWrite", "write"} -> O!WriteEntry(x, a)
                     [] O!Erases(k) -> O!EraseEntry(x, a)
                     [] OTHER -> O!ReadEntry(x, a)
OState == [chunk : [Chunks -> OChunk], err : BOOLEAN, n : Nat, list : Seq(OAddress)]

\* A descriptor and the entry that it refuses; what the entry makes of it.
ORefuses(x, a) == LET d == x.chunk[a.chunk]
                  IN  x.err \/ d.state = "closed" \/ (d.state = "open" /\ d.wp > a.page)
OOpened(a) == [state |-> IF a.page = PagesInChunk - 1 THEN "closed" ELSE "open",
               wp |-> a.page + 1]
OFree == [state |-> "free", wp |-> 0]

LEMMA OWriteOf ==
  ASSUME NEW x \in OState, NEW a \in OAddress
  PROVE  LET y == O!WriteEntry(x, a)
         IN  /\ y \in OState /\ y.n = x.n + 1
             /\ ORefuses(x, a) =>
                   /\ y.chunk = x.chunk /\ y.err
                   /\ y.list = IF x.n < ResultBits THEN x.list ELSE Append(x.list, a)
             /\ ~ORefuses(x, a) =>
                   /\ y.chunk = [x.chunk EXCEPT ![a.chunk] = OOpened(a)] /\ ~y.err
                   /\ y.list = Append(x.list, a)
<1> DEFINE y == O!WriteEntry(x, a)
           T == Append(x.list, a)
           R == IF x.n < ResultBits THEN x.list ELSE T
           C == [x.chunk EXCEPT ![a.chunk] = OOpened(a)]
           m == x.n + 1
<1>1. OOpened(a) \in OChunk
  BY AdapterAssumption DEF OChunk, OAddress, OOpened
<1>2. T \in Seq(OAddress) /\ R \in Seq(OAddress)
  <2>1. x.list \in Seq(OAddress)
    BY DEF OState
  <2> HIDE DEF OAddress
  <2> QED BY <2>1
<1>3. C \in [Chunks -> OChunk]
  <2>1. x.chunk \in [Chunks -> OChunk]
    BY DEF OState
  <2> QED BY <1>1, <2>1
<1>4. m \in Nat
  BY DEF OState
<1>5. /\ ORefuses(x, a) => y = [x EXCEPT !.err = TRUE, !.n = m, !.list = R]
      /\ ~ORefuses(x, a) => y = [x EXCEPT !.chunk = C, !.n = m, !.list = T]
  BY DEF O!WriteEntry, ORefuses, OOpened, O!Refused
<1>6. ~ORefuses(x, a) => ~x.err
  BY DEF ORefuses
<1> HIDE DEF y, T, R, C, m
<1>7. CASE ORefuses(x, a)
  <2>1. y \in OState /\ y.n = m /\ y.chunk = x.chunk /\ y.err /\ y.list = R
    BY <1>2, <1>4, <1>5, <1>7 DEF OState
  <2> QED BY <1>7, <2>1 DEF y, m, R, T
<1>8. CASE ~ORefuses(x, a)
  <2>1. y \in OState /\ y.n = m /\ y.chunk = C /\ y.err = x.err /\ y.list = T
    BY <1>2, <1>3, <1>4, <1>5, <1>8 DEF OState
  <2> QED BY <1>6, <1>8, <2>1 DEF y, m, C, T
<1> QED BY <1>7, <1>8

LEMMA OEraseOf ==
  ASSUME NEW x \in OState, NEW a \in OAddress
  PROVE  LET y  == O!EraseEntry(x, a)
             ok == x.chunk[a.chunk].state = "closed"
         IN  /\ y \in OState /\ y.n = x.n + 1
             /\ ~ok => y.err /\ y.chunk = x.chunk
             /\ ok => y.err = x.err /\ y.chunk = [x.chunk EXCEPT ![a.chunk] = OFree]
             /\ y.list \in {x.list, Append(x.list, a)}
             /\ ok /\ ~x.err => y.list = Append(x.list, a)
<1> DEFINE y == O!EraseEntry(x, a)
           ok == x.chunk[a.chunk].state = "closed"
           d == IF ok THEN OFree ELSE x.chunk[a.chunk]
           T == Append(x.list, a)
           R == IF x.n < ResultBits THEN x.list ELSE T
           W == IF x.err \/ ~ok THEN R ELSE T
           C == [x.chunk EXCEPT ![a.chunk] = d]
           e == x.err \/ ~ok
           m == x.n + 1
<1>0. /\ x.chunk \in [Chunks -> OChunk] /\ a.chunk \in Chunks /\ x.list \in Seq(OAddress)
      /\ x.err \in BOOLEAN
  BY DEF OState, OAddress
<1>1. d \in OChunk
  <2>1. OFree \in OChunk
    BY AdapterAssumption DEF OChunk, OFree
  <2> HIDE DEF OChunk
  <2> QED BY <1>0, <2>1
<1>2. T \in Seq(OAddress)
  <2> HIDE DEF OAddress
  <2> QED BY <1>0
<1>3. C \in [Chunks -> OChunk]
  <2> HIDE DEF d
  <2> QED BY <1>0, <1>1
<1>4. m \in Nat
  BY DEF OState
<1>5. y = [x EXCEPT !.err = e, !.chunk = C, !.n = m, !.list = W]
  BY DEF O!EraseEntry, O!Refused, OFree
<1>6. W \in {x.list, T} /\ W \in Seq(OAddress) /\ (ok /\ ~x.err => W = T)
  <2> HIDE DEF T
  <2> QED BY <1>0, <1>2
<1>7. (~ok => C = x.chunk) /\ (ok => C = [x.chunk EXCEPT ![a.chunk] = OFree])
  BY <1>0
<1>8. e \in BOOLEAN /\ (~ok => e) /\ (ok => e = x.err)
  BY <1>0
<1> HIDE DEF y, T, W, C, m, e, ok
<1>9. y \in OState /\ y.n = m /\ y.chunk = C /\ y.err = e /\ y.list = W
  BY <1>3, <1>4, <1>5, <1>6, <1>8 DEF OState
<1> QED BY <1>6, <1>7, <1>8, <1>9 DEF y, m, T, ok

LEMMA OEntryIn ==
  ASSUME NEW k, NEW x \in OState, NEW a \in OAddress
  PROVE  OEntry(k, x, a) \in OState
<1>1. O!WriteEntry(x, a) \in OState
  BY OWriteOf
<1>2. O!EraseEntry(x, a) \in OState
  BY OEraseOf
<1>3. O!ReadEntry(x, a) \in OState
  <2> DEFINE T == Append(x.list, a)
  <2>1. T \in Seq(OAddress)
    <3>1. x.list \in Seq(OAddress)
      BY DEF OState
    <3> HIDE DEF OAddress
    <3> QED BY <3>1
  <2>2. O!ReadEntry(x, a) = [x EXCEPT !.list = T]
    BY DEF O!ReadEntry
  <2> HIDE DEF T
  <2> QED BY <2>1, <2>2 DEF OState
<1> QED BY <1>1, <1>2, <1>3 DEF OEntry

\* What holds before the list of a command and is kept by its entries holds
\* behind it.
OBegin == [chunk |-> reg.chunk, err |-> FALSE, n |-> 0, list |-> << >>]
OLeads(k, P) ==
    \A n \in 1 .. Len(O!Merge(k)) : \A y \in P[n - 1] : OEntry(k, y, O!Merge(k)[n]) \in P[n]

LEMMA OInternal ==
  ASSUME reg.chunk \in [Chunks -> OChunk], NEW k, O!Merge(k) \in Seq(OAddress),
         NEW P \in [0 .. Len(O!Merge(k)) -> SUBSET OState],
         OBegin \in P[0], OLeads(k, P)
  PROVE  O!Internal(k) \in P[Len(O!Merge(k))]
<1> DEFINE A == O!Merge(k)
           N == Len(A)
           op(q, a) == OEntry(k, q, a)
           X == OState
           base == OBegin
           G == [z \in X \X (1 .. N) |-> op(z[1], A[z[2]])]
           body(f) == [Z \in SUBSET (1 .. N) |->
                          IF Z = {} THEN base
                          ELSE op(f[Z \ {Max(Z)}], A[Max(Z)])]
           F == CHOOSE f : f = body(f)
<1>0. /\ N \in Nat /\ DOMAIN A = 1 .. N
      /\ \A i \in 1 .. N : A[i] \in OAddress
  OBVIOUS
<1>14. base \in X
  <2>1. << >> \in Seq(OAddress)
    OBVIOUS
  <2> QED BY <2>1 DEF OState, OBegin
<1>1. O!Internal(k) = F[1 .. N]
  BY <1>0 DEF O!Internal, O!FoldLeft, O!MapThenFoldSet, O!Max, Max, OEntry, OBegin,
              O!Programming
<1>2. ASSUME NEW q \in X, NEW i \in 1 .. N PROVE op(q, A[i]) \in X
  BY <1>0, <1>2, OEntryIn
<1> HIDE DEF A
<1>15. OLeads(k, P) => \A n \in 1 .. N : \A y \in P[n - 1] : op(y, A[n]) \in P[n]
  BY DEF OLeads, A
<1>16. P \in [0 .. N -> SUBSET X]
  BY DEF A
<1> HIDE DEF op, X, N, base
<1>3. G \in [X \X (1 .. N) -> X]
  BY <1>2
<1>4. PICK f \in [SUBSET (1 .. N) -> X] : Folded(f, G, base, N)
  <2> HIDE DEF G
  <2> QED BY <1>0, <1>3, <1>14, FoldExists
<1>5. f = body(f)
  <2> SUFFICES ASSUME NEW Z \in SUBSET (1 .. N)
               PROVE  f[Z] = IF Z = {} THEN base ELSE op(f[Z \ {Max(Z)}], A[Max(Z)])
    OBVIOUS
  <2>1. f[Z] = IF Z = {} THEN base ELSE G[<<f[Z \ {Max(Z)}], Max(Z)>>]
    BY <1>4 DEF Folded
  <2>2. CASE Z # {}
    <3>1. Max(Z) \in 1 .. N /\ f[Z \ {Max(Z)}] \in X
      BY <1>0, <2>2, MaxOfIndices
    <3> QED BY <2>1, <2>2, <3>1
  <2> QED BY <2>1, <2>2
<1>6. F = body(F)
  BY <1>5
<1> HIDE DEF F
<1>7. F[{}] = base
  BY <1>6
<1>8. ASSUME NEW n \in 1 .. N, F[1 .. n - 1] \in X
      PROVE  F[1 .. n] = G[<<F[1 .. n - 1], n>>]
  <2>1. /\ Max(1 .. n) = n /\ (1 .. n) \ {n} = 1 .. n - 1 /\ 1 .. n # {}
        /\ 1 .. n \in SUBSET (1 .. N)
    <3>1. n \in Nat \ {0} /\ 1 .. n \in SUBSET (1 .. N)
      BY <1>0
    <3> QED BY <3>1, LastIndex
  <2>2. F[1 .. n] = op(F[1 .. n - 1], A[n])
    BY <1>6, <2>1
  <2> QED BY <1>8, <2>2
<1>10. ASSUME NEW n \in 1 .. N, NEW y \in P[n - 1] PROVE G[<<y, n>>] \in P[n]
  <2>1. n - 1 \in 0 .. N
    BY <1>0
  <2>2. y \in X
    BY <1>10, <1>16, <2>1
  <2> QED BY <1>10, <1>15, <2>2
<1> HIDE DEF G
<1>12. F[1 .. N] \in P[N]
  <2>1. Steps(F, G, X, N)
    BY <1>8 DEF Steps
  <2>2. Leads(G, P, N)
    BY <1>10 DEF Leads
  <2>3. base \in P[0]
    BY DEF base
  <2> QED BY <1>0, <1>3, <1>7, <1>14, <1>16, <2>1, <2>2, <2>3, FoldReaches
<1> QED BY <1>1, <1>12 DEF N, A

\* The chunks that a command changes.
LEMMA OChangedBy ==
  ASSUME NEW k, k.op \in {"vectorWrite", "write", "reset"}, O!Merge(k) \in Seq(OAddress)
  PROVE  \A i \in 1 .. Len(O!Merge(k)) : O!Merge(k)[i].chunk \in O!Changed(k)
<1> DEFINE A == O!Merge(k)
<1>1. O!Changed(k) = {b.chunk : b \in O!ToSet(A)}
  BY DEF O!Changed, O!Erases, O!Programming
<1>2. \A i \in 1 .. Len(A) : A[i] \in O!ToSet(A)
  BY DEF O!ToSet
<1> HIDE DEF A
<1> QED BY <1>1, <1>2 DEF A

\* Its list names these chunks only, and their descriptors alone change.
OWithin(Z, x) ==
    /\ \A i \in DOMAIN x.list : x.list[i].chunk \in Z
    /\ \A ch \in Chunks \ Z : x.chunk[ch] = reg.chunk[ch]

LEMMA OStaysWithin ==
  ASSUME NEW k, k.op \in {"vectorWrite", "write", "reset"}, NEW x \in OState, NEW Z,
         OWithin(Z, x), NEW a \in OAddress, a.chunk \in Z
  PROVE  OWithin(Z, OEntry(k, x, a))
<1> DEFINE y == OEntry(k, x, a)
<1>0. x.list \in Seq(OAddress) /\ x.chunk \in [Chunks -> OChunk]
  BY DEF OState
<1>1. /\ y.list \in {x.list, Append(x.list, a)}
      /\ y.chunk = x.chunk \/ \E d : y.chunk = [x.chunk EXCEPT ![a.chunk] = d]
  <2>1. CASE k.op = "reset"
    <3>1. y = O!EraseEntry(x, a)
      BY <2>1 DEF OEntry, O!Erases
    <3> DEFINE z == O!EraseEntry(x, a)
               ok == x.chunk[a.chunk].state = "closed"
    <3>2. /\ z.list \in {x.list, Append(x.list, a)}
          /\ ~ok => z.chunk = x.chunk
          /\ ok => z.chunk = [x.chunk EXCEPT ![a.chunk] = OFree]
      BY OEraseOf
    <3> HIDE DEF y, z, ok
    <3>3. z.chunk = x.chunk \/ \E d : z.chunk = [x.chunk EXCEPT ![a.chunk] = d]
      BY <3>2
    <3> QED BY <3>1, <3>2, <3>3 DEF z
  <2>2. CASE k.op \in {"vectorWrite", "write"}
    <3>1. y = O!WriteEntry(x, a)
      BY <2>2 DEF OEntry, O!Erases
    <3> DEFINE z == O!WriteEntry(x, a)
    <3>2. /\ z.list = x.list \/ z.list = Append(x.list, a)
          /\ \/ z.chunk = x.chunk
             \/ z.chunk = [x.chunk EXCEPT ![a.chunk] = OOpened(a)]
      BY OWriteOf
    <3> HIDE DEF y, z
    <3>3. z.chunk = x.chunk \/ \E d : z.chunk = [x.chunk EXCEPT ![a.chunk] = d]
      BY <3>2
    <3> QED BY <3>1, <3>2, <3>3 DEF z
  <2> QED BY <2>1, <2>2
<1> HIDE DEF y
<1>2. \A ch \in Chunks \ Z : y.chunk[ch] = x.chunk[ch]
  BY <1>0, <1>1
<1>3. \A i \in DOMAIN y.list : y.list[i].chunk \in Z
  <2>1. CASE y.list = x.list
    BY <2>1 DEF OWithin
  <2>2. CASE y.list = Append(x.list, a)
    <3>1. /\ \A i \in DOMAIN y.list : i \in DOMAIN x.list \/ i = Len(x.list) + 1
          /\ y.list[Len(x.list) + 1] = a
          /\ \A i \in DOMAIN x.list : y.list[i] = x.list[i]
      BY <1>0, <2>2, AppendTo
    <3> QED BY <3>1 DEF OWithin
  <2> QED BY <1>1, <2>1, <2>2
<1> QED BY <1>2, <1>3 DEF OWithin, y

LEMMA OInternalWithin ==
  ASSUME reg.chunk \in [Chunks -> OChunk], NEW k, k.op \in {"vectorWrite", "write", "reset"},
         O!Merge(k) \in Seq(OAddress)
  PROVE  OWithin(O!Changed(k), O!Internal(k))
<1> DEFINE A == O!Merge(k)
           N == Len(A)
           Z == O!Changed(k)
           Y == {x \in OState : OWithin(Z, x)}
           P == [n \in 0 .. N |-> Y]
<1>0. N \in Nat /\ \A i \in 1 .. N : A[i] \in OAddress /\ A[i].chunk \in Z
  BY OChangedBy
<1>1. P \in [0 .. N -> SUBSET OState]
  OBVIOUS
<1>2. OBegin \in Y
  <2>1. << >> \in Seq(OAddress) /\ DOMAIN << >> = {}
    OBVIOUS
  <2>2. OBegin \in OState /\ OBegin.chunk = reg.chunk /\ OBegin.list = << >>
    BY <2>1 DEF OBegin, OState
  <2> QED BY <2>1, <2>2 DEF OWithin
<1>3. \A x \in Y : \A a \in OAddress : a.chunk \in Z => OEntry(k, x, a) \in Y
  BY OEntryIn, OStaysWithin
<1>4. \A n \in 0 .. N : P[n] = Y
  OBVIOUS
<1>5. OLeads(k, P)
  <2> SUFFICES ASSUME NEW n \in 1 .. N, NEW y \in P[n - 1]
               PROVE  OEntry(k, y, A[n]) \in P[n]
    BY DEF OLeads
  <2>1. n - 1 \in 0 .. N /\ n \in 0 .. N
    BY <1>0
  <2> HIDE DEF P, A, Y, N, Z
  <2> QED BY <1>0, <1>3, <1>4, <2>1
<1>6. OBegin \in P[0] /\ 0 \in 0 .. N /\ N \in 0 .. N
  BY <1>0, <1>2, <1>4
<1> HIDE DEF P, Y
<1>7. O!Internal(k) \in P[N]
  BY <1>1, <1>5, <1>6, OInternal
<1> QED BY <1>4, <1>6, <1>7 DEF Y

\* Entries that are written move the write pointers over pages not written.
OGrown(x) ==
    /\ \A ch \in Chunks : OTidy(x.chunk[ch]) /\ reg.chunk[ch].wp <= x.chunk[ch].wp
    /\ \A i \in DOMAIN x.list :
          /\ reg.chunk[x.list[i].chunk].wp <= x.list[i].page
          /\ x.list[i].page < x.chunk[x.list[i].chunk].wp
    /\ \A i, j \in DOMAIN x.list : x.list[i] = x.list[j] => i = j

LEMMA OGrows ==
  ASSUME reg.chunk \in [Chunks -> OChunk], NEW x \in OState, OGrown(x), NEW a \in OAddress,
         ORefuses(x, a) => x.n < ResultBits
  PROVE  OGrown(O!WriteEntry(x, a))
<1> DEFINE d == x.chunk[a.chunk]
           e == OOpened(a)
           T == Append(x.list, a)
           C == [x.chunk EXCEPT ![a.chunk] = e]
           y == O!WriteEntry(x, a)
<1>0. /\ a.chunk \in Chunks /\ a.page \in 0 .. PagesInChunk - 1 /\ PagesInChunk \in Nat \ {0}
      /\ x.chunk \in [Chunks -> OChunk] /\ x.list \in Seq(OAddress) /\ d \in OChunk
  BY AdapterAssumption DEF OAddress, OState
<1>1. CASE ORefuses(x, a)
  <2>1. y.chunk = x.chunk /\ y.list = x.list
    BY <1>1, OWriteOf
  <2> HIDE DEF y
  <2>2. OGrown(y)
    BY <2>1 DEF OGrown
  <2> QED BY <2>2 DEF y
<1>2. CASE ~ORefuses(x, a)
  <2>2. y.chunk = C /\ y.list = T
    BY <1>2, OWriteOf
  <2> HIDE DEF y
  <2>3. d.wp <= a.page /\ d.wp \in Nat
    <3>1. OTidy(d) /\ d.state \in {"free", "open", "closed"} /\ d.wp \in Nat
      BY <1>0 DEF OGrown, OChunk
    <3> QED BY <1>0, <1>2, <3>1 DEF OTidy, ORefuses
  <2>4. OTidy(e) /\ e.wp = a.page + 1
    BY <1>0 DEF OTidy, OOpened
  <2>5. /\ C[a.chunk] = e /\ \A ch \in Chunks : ch # a.chunk => C[ch] = x.chunk[ch]
    <3> HIDE DEF e
    <3> QED BY <1>0
  <2>6. /\ Len(x.list) + 1 \in DOMAIN T /\ T[Len(x.list) + 1] = a
        /\ \A i \in DOMAIN T : i \in DOMAIN x.list \/ i = Len(x.list) + 1
        /\ \A i \in DOMAIN x.list : i \in DOMAIN T /\ T[i] = x.list[i] /\ i # Len(x.list) + 1
    BY <1>0, AppendTo
  <2> HIDE DEF C, T, e
  <2>7. /\ \A ch \in Chunks : reg.chunk[ch].wp \in Nat /\ x.chunk[ch].wp \in Nat
        /\ \A i \in DOMAIN x.list : x.list[i] \in OAddress
    BY <1>0 DEF OChunk
  <2>8. \A ch \in Chunks : x.chunk[ch].wp <= C[ch].wp
    BY <1>0, <2>3, <2>4, <2>5, <2>7
  <2>9. /\ \A ch \in Chunks : C[ch].wp \in Nat
        /\ \A i \in DOMAIN x.list : x.list[i].chunk \in Chunks /\ x.list[i].page \in Nat
    <3>1. \A ch \in Chunks : C[ch].wp \in Nat
      BY <1>0, <2>4, <2>5, <2>7
    <3>2. \A b \in OAddress : b.chunk \in Chunks /\ b.page \in Nat
      BY <1>0 DEF OAddress
    <3> QED BY <2>7, <3>1, <3>2
  <2>10. \A ch \in Chunks : OTidy(C[ch]) /\ reg.chunk[ch].wp <= C[ch].wp
    BY <2>4, <2>5, <2>7, <2>8, <2>9 DEF OGrown
  <2>11. \A i \in DOMAIN T :
            /\ reg.chunk[T[i].chunk].wp <= T[i].page
            /\ T[i].page < C[T[i].chunk].wp
    <3> SUFFICES ASSUME NEW i \in DOMAIN T
                 PROVE  /\ reg.chunk[T[i].chunk].wp <= T[i].page
                        /\ T[i].page < C[T[i].chunk].wp
      OBVIOUS
    <3>1. CASE i = Len(x.list) + 1
      <4>1. reg.chunk[a.chunk].wp <= d.wp
        BY <1>0 DEF OGrown
      <4>2. T[i] = a
        BY <2>6, <3>1
      <4>3. reg.chunk[a.chunk].wp <= a.page /\ a.page < C[a.chunk].wp
        BY <1>0, <2>3, <2>4, <2>5, <2>7, <4>1
      <4> QED BY <4>2, <4>3
    <3>2. CASE i \in DOMAIN x.list
      <4>1. /\ reg.chunk[x.list[i].chunk].wp <= x.list[i].page
            /\ x.list[i].page < x.chunk[x.list[i].chunk].wp
        BY <3>2 DEF OGrown
      <4> QED BY <2>6, <2>7, <2>8, <2>9, <3>2, <4>1
    <3> QED BY <2>6, <3>1, <3>2
  <2>12. \A i \in DOMAIN x.list : x.list[i] # a
    <3> SUFFICES ASSUME NEW i \in DOMAIN x.list, x.list[i] = a
                 PROVE  FALSE
      OBVIOUS
    <3>1. a.page < d.wp
      BY DEF OGrown
    <3> QED BY <1>0, <2>3, <3>1
  <2>13. \A i, j \in DOMAIN T : T[i] = T[j] => i = j
    BY <2>6, <2>12 DEF OGrown
  <2>14. OGrown(y)
    BY <2>2, <2>10, <2>11, <2>13 DEF OGrown
  <2> QED BY <2>14 DEF y
<1> QED BY <1>1, <1>2

\* Up to entry n of a long write nothing is refused, and what follows is above
\* the write pointers.
OAbove(A, n, x) ==
    /\ ~x.err
    /\ \A j \in n + 1 .. Len(A) : x.chunk[A[j].chunk].wp <= A[j].page

LEMMA OAboveAll ==
  ASSUME NEW A \in Seq(OAddress), O!MayWrite(A), NEW n \in 1 .. Len(A),
         NEW x \in OState, OGrown(x), OAbove(A, n - 1, x)
  PROVE  ~ORefuses(x, A[n]) /\ OAbove(A, n, O!WriteEntry(x, A[n]))
<1> DEFINE a == A[n]
           d == x.chunk[a.chunk]
           y == O!WriteEntry(x, a)
<1>0. /\ n \in Nat /\ Len(A) \in Nat /\ n - 1 + 1 = n
      /\ \A j \in 1 .. Len(A) : A[j] \in OAddress
  OBVIOUS
<1>1. /\ \A b \in OAddress : b.chunk \in Chunks /\ b.page \in 0 .. PagesInChunk - 1
      /\ PagesInChunk \in Nat \ {0} /\ x.chunk \in [Chunks -> OChunk]
  BY AdapterAssumption DEF OAddress, OState
<1>2. /\ a \in OAddress /\ d.wp \in Nat /\ OTidy(d) /\ d.wp <= a.page /\ ~x.err
  <2>1. a \in OAddress
    BY <1>0
  <2>2. d \in OChunk /\ OTidy(d)
    BY <1>1, <2>1 DEF OGrown
  <2>3. n \in n - 1 + 1 .. Len(A)
    BY <1>0
  <2>4. d.wp <= a.page /\ ~x.err
    BY <2>3 DEF OAbove
  <2> QED BY <2>1, <2>2, <2>4, <1>1 DEF OChunk
<1>3. ~ORefuses(x, a)
  <2>1. a.page \in 0 .. PagesInChunk - 1
    BY <1>1, <1>2
  <2> QED BY <1>1, <1>2, <2>1 DEF ORefuses, OTidy
<1>4. y.chunk = [x.chunk EXCEPT ![a.chunk] = OOpened(a)] /\ ~y.err
  BY <1>2, <1>3, OWriteOf
<1>5. ASSUME NEW j \in n + 1 .. Len(A)
      PROVE  y.chunk[A[j].chunk].wp <= A[j].page
  <2>1. j \in 1 .. Len(A) /\ n < j /\ j \in n - 1 + 1 .. Len(A) /\ j \in DOMAIN A /\ n \in DOMAIN A
    BY <1>0
  <2>2. A[j] \in OAddress /\ A[j].chunk \in Chunks /\ A[j].page \in Nat /\ a.page \in Nat
    BY <1>0, <1>1, <1>2, <2>1
  <2>3. CASE A[j].chunk = a.chunk
    <3>1. a.page < A[j].page
      BY <2>1, <2>3 DEF O!MayWrite
    <3>2. y.chunk[A[j].chunk].wp = a.page + 1
      <4> HIDE DEF y, a
      <4> QED BY <1>1, <1>4, <2>2, <2>3 DEF OOpened
    <3> HIDE DEF y, a
    <3> QED BY <2>2, <3>1, <3>2
  <2>4. CASE A[j].chunk # a.chunk
    <3>1. y.chunk[A[j].chunk] = x.chunk[A[j].chunk]
      <4> HIDE DEF y, a
      <4> QED BY <1>1, <1>4, <2>2, <2>4
    <3> HIDE DEF y, a
    <3> QED BY <2>1, <3>1 DEF OAbove
  <2> QED BY <2>3, <2>4
<1> QED BY <1>3, <1>4, <1>5 DEF OAbove

LEMMA OWritten ==
  ASSUME reg.chunk \in [Chunks -> OChunk], \A ch \in Chunks : OTidy(reg.chunk[ch]),
         NEW k, k.op \in {"vectorWrite", "write"}, O!Merge(k) \in Seq(OAddress), OMay(k)
  PROVE  O!Internal(k) \in OState /\ OGrown(O!Internal(k))
<1> DEFINE A == O!Merge(k)
           N == Len(A)
           Y(n) == {x \in OState : /\ OGrown(x) /\ x.n = n
                                   /\ N > ResultBits => OAbove(A, n, x)}
           P == [n \in 0 .. N |-> Y(n)]
<1>0. N \in Nat /\ ResultBits \in Nat /\ \A i \in 1 .. N : A[i] \in OAddress
  BY AdapterAssumption
<1>1. P \in [0 .. N -> SUBSET OState]
  OBVIOUS
<1>8. N > ResultBits => O!MayWrite(A)
  BY DEF OMay, O!Overlong, O!Programming
<1>2. OBegin \in Y(0)
  <2>1. << >> \in Seq(OAddress) /\ DOMAIN << >> = {}
    OBVIOUS
  <2>2. /\ OBegin \in OState /\ OBegin.chunk = reg.chunk /\ OBegin.list = << >>
        /\ OBegin.n = 0 /\ ~OBegin.err
    BY <2>1 DEF OBegin, OState
  <2>3. \A ch \in Chunks : reg.chunk[ch].wp <= reg.chunk[ch].wp
    BY DEF OChunk
  <2>4. OGrown(OBegin)
    BY <2>1, <2>2, <2>3 DEF OGrown
  <2>5. N > ResultBits => OAbove(A, 0, OBegin)
    <3> SUFFICES ASSUME N > ResultBits, NEW j \in 0 + 1 .. N
                 PROVE  reg.chunk[A[j].chunk].wp <= A[j].page
      BY <2>2 DEF OAbove
    <3>1. j \in DOMAIN A
      BY <1>0
    <3> HIDE DEF A, N
    <3> QED BY <1>8, <3>1 DEF O!MayWrite
  <2> HIDE DEF A, N
  <2> QED BY <2>2, <2>4, <2>5
<1>3. ASSUME NEW n \in 1 .. N, NEW x \in Y(n - 1)
      PROVE  OEntry(k, x, A[n]) \in Y(n)
  <2>0. /\ x \in OState /\ OGrown(x) /\ x.n = n - 1 /\ A[n] \in OAddress /\ n \in Nat
        /\ N > ResultBits => OAbove(A, n - 1, x)
    BY <1>0
  <2>1. OEntry(k, x, A[n]) = O!WriteEntry(x, A[n])
    BY DEF OEntry, O!Erases
  <2>2. /\ O!WriteEntry(x, A[n]) \in OState
        /\ O!WriteEntry(x, A[n]).n = n
    <3> DEFINE y == O!WriteEntry(x, A[n])
    <3>1. y \in OState /\ y.n = x.n + 1
      BY <2>0, OWriteOf
    <3> HIDE DEF y, A
    <3> QED BY <2>0, <3>1 DEF y
  <2>3. N > ResultBits =>
           ~ORefuses(x, A[n]) /\ OAbove(A, n, O!WriteEntry(x, A[n]))
    BY <1>8, <2>0, OAboveAll
  <2>4. ORefuses(x, A[n]) => x.n < ResultBits
    <3>1. ORefuses(x, A[n]) => ~(N > ResultBits)
      BY <2>3
    <3>2. ~(N > ResultBits) => x.n < ResultBits
      <4> HIDE DEF A, N
      <4> QED BY <1>0, <2>0
    <3> QED BY <3>1, <3>2
  <2>5. OGrown(O!WriteEntry(x, A[n]))
    BY <2>0, <2>4, OGrows
  <2> HIDE DEF A, N
  <2> QED BY <2>1, <2>2, <2>3, <2>5
<1>4. \A n \in 0 .. N : P[n] = Y(n)
  OBVIOUS
<1>5. OLeads(k, P)
  <2> SUFFICES ASSUME NEW n \in 1 .. N, NEW y \in P[n - 1]
               PROVE  OEntry(k, y, A[n]) \in P[n]
    BY DEF OLeads
  <2>1. n - 1 \in 0 .. N /\ n \in 0 .. N
    BY <1>0
  <2> HIDE DEF P, A, Y, N
  <2> QED BY <1>3, <1>4, <2>1
<1>6. OBegin \in P[0] /\ 0 \in 0 .. N /\ N \in 0 .. N
  BY <1>0, <1>2, <1>4
<1> HIDE DEF P, Y
<1>7. O!Internal(k) \in P[N]
  BY <1>1, <1>5, <1>6, OInternal
<1> QED BY <1>4, <1>6, <1>7 DEF Y

\* The chunks that a reset sets free are on the list of what is erased.
OCleared(x) ==
    \A ch \in Chunks :
        /\ OTidy(x.chunk[ch])
        /\ x.chunk[ch] = reg.chunk[ch] \/ \E i \in DOMAIN x.list : x.list[i].chunk = ch

\* Up to entry n: nothing was refused before the last entry, and the other
\* chunks are as they were.
OUpTo(A, n, x) ==
    /\ x.err => n >= Len(A)
    /\ \A ch \in Chunks : x.chunk[ch] = reg.chunk[ch] \/ \E j \in 1 .. n : A[j].chunk = ch

LEMMA OClears ==
  ASSUME NEW A \in Seq(OAddress), O!MayReset(A), NEW n \in 1 .. Len(A),
         NEW x \in OState, OCleared(x), OUpTo(A, n - 1, x)
  PROVE  OCleared(O!EraseEntry(x, A[n])) /\ OUpTo(A, n, O!EraseEntry(x, A[n]))
<1> DEFINE a == A[n]
           ok == x.chunk[a.chunk].state = "closed"
           d == IF ok THEN OFree ELSE x.chunk[a.chunk]
           C == [x.chunk EXCEPT ![a.chunk] = d]
           y == O!EraseEntry(x, a)
           T == y.list
<1>0. /\ x.chunk \in [Chunks -> OChunk] /\ x.list \in Seq(OAddress)
      /\ a \in OAddress /\ a.chunk \in Chunks /\ n \in Nat /\ Len(A) \in Nat
  <2>1. a \in OAddress
    OBVIOUS
  <2> HIDE DEF a
  <2> QED BY <2>1 DEF OState, OAddress
<1>1. /\ y.chunk = C /\ (ok => y.err = x.err)
      /\ T \in {x.list, Append(x.list, a)} /\ (ok /\ ~x.err => T = Append(x.list, a))
  <2>1. /\ ~ok => y.chunk = x.chunk
        /\ ok => y.err = x.err /\ y.chunk = [x.chunk EXCEPT ![a.chunk] = OFree]
        /\ T \in {x.list, Append(x.list, a)} /\ (ok /\ ~x.err => T = Append(x.list, a))
    BY <1>0, OEraseOf
  <2>2. ~ok => C = x.chunk
    BY <1>0
  <2> QED BY <2>1, <2>2
<1> HIDE DEF y, T
<1>2. ~x.err
  BY <1>0 DEF OUpTo
<1>3. ok \/ n = Len(A)
  <2>1. CASE Len(A) = 1
    BY <2>1, <1>0
  <2>2. CASE Len(A) # 1
    <3>1. /\ \A i \in DOMAIN A : reg.chunk[A[i].chunk].state = "closed"
          /\ \A i, j \in DOMAIN A : A[i].chunk = A[j].chunk => i = j
      <4>1. Len(A) > 1
        <5> DEFINE l == Len(A)
        <5>1. l \in Nat /\ n \in 1 .. l /\ l # 1
          BY <1>0, <2>2
        <5> HIDE DEF l
        <5>2. l > 1
          BY <5>1
        <5> QED BY <5>2 DEF l
      <4> QED BY <4>1 DEF O!MayReset
    <3>2. n \in DOMAIN A /\ \A j \in 1 .. n - 1 : j \in DOMAIN A /\ j # n
      BY <1>0
    <3>3. \A j \in 1 .. n - 1 : A[j].chunk # a.chunk
      BY <3>1, <3>2
    <3>4. x.chunk[a.chunk] = reg.chunk[a.chunk]
      BY <1>0, <3>3 DEF OUpTo
    <3> QED BY <3>1, <3>2, <3>4
  <2> QED BY <2>1, <2>2
<1>4. /\ C[a.chunk] = d /\ \A ch \in Chunks : ch # a.chunk => C[ch] = x.chunk[ch]
  <2> HIDE DEF d
  <2> QED BY <1>0
<1>5. OTidy(d)
  BY <1>0, AdapterAssumption DEF OTidy, OCleared, OFree
<1>6. /\ \A i \in DOMAIN x.list : i \in DOMAIN T /\ T[i] = x.list[i]
      /\ ok => \E i \in DOMAIN T : T[i].chunk = a.chunk
  <2> DEFINE Grown == Append(x.list, a)
  <2>1. /\ Len(x.list) + 1 \in DOMAIN Grown /\ Grown[Len(x.list) + 1] = a
        /\ \A i \in DOMAIN x.list : i \in DOMAIN Grown /\ Grown[i] = x.list[i]
    BY <1>0, AppendTo
  <2>2. T \in {x.list, Grown} /\ (ok => T = Grown)
    BY <1>1, <1>2
  <2> HIDE DEF Grown, ok
  <2> QED BY <2>1, <2>2
<1>7. ~ok => d = x.chunk[a.chunk]
  OBVIOUS
<1> HIDE DEF ok, d, C, a
<1>8. OCleared(y)
  <2> SUFFICES ASSUME NEW ch \in Chunks
               PROVE  /\ OTidy(C[ch])
                      /\ C[ch] = reg.chunk[ch] \/ \E i \in DOMAIN T : T[i].chunk = ch
    BY <1>1 DEF OCleared, T
  <2>1. CASE ch = a.chunk /\ ok
    BY <1>4, <1>5, <1>6, <2>1
  <2>2. CASE ch # a.chunk \/ ~ok
    <3>1. C[ch] = x.chunk[ch]
      BY <1>4, <1>7, <2>2
    <3> QED BY <1>6, <3>1 DEF OCleared
  <2> QED BY <2>1, <2>2
<1>9. OUpTo(A, n, y)
  <2>1. y.err => n >= Len(A)
    <3>1. ok => ~y.err
      BY <1>1, <1>2
    <3> QED BY <1>0, <1>3, <3>1
  <2>2. ASSUME NEW ch \in Chunks
        PROVE  C[ch] = reg.chunk[ch] \/ \E j \in 1 .. n : A[j].chunk = ch
    <3>1. CASE ch = a.chunk
      BY <1>0, <3>1 DEF a
    <3>2. CASE ch # a.chunk
      <4>1. C[ch] = x.chunk[ch]
        BY <1>4, <3>2
      <4>2. \A j \in 1 .. n - 1 : j \in 1 .. n
        BY <1>0
      <4> QED BY <4>1, <4>2 DEF OUpTo
    <3> QED BY <3>1, <3>2
  <2> QED BY <1>1, <2>1, <2>2 DEF OUpTo
<1> QED BY <1>8, <1>9 DEF y, a

LEMMA OErased ==
  ASSUME reg.chunk \in [Chunks -> OChunk], \A ch \in Chunks : OTidy(reg.chunk[ch]),
         NEW k, k.op = "reset", O!Merge(k) \in Seq(OAddress), O!MayReset(O!Merge(k))
  PROVE  O!Internal(k) \in OState /\ OCleared(O!Internal(k))
<1> DEFINE A == O!Merge(k)
           N == Len(A)
           Y(n) == {x \in OState : OCleared(x) /\ OUpTo(A, n, x)}
           P == [n \in 0 .. N |-> Y(n)]
<1>0. N \in Nat /\ \A i \in 1 .. N : A[i] \in OAddress
  OBVIOUS
<1>1. P \in [0 .. N -> SUBSET OState]
  OBVIOUS
<1>2. OBegin \in Y(0)
  <2>1. << >> \in Seq(OAddress)
    OBVIOUS
  <2>2. OBegin \in OState /\ OBegin.chunk = reg.chunk /\ OBegin.err = FALSE
    BY <2>1 DEF OBegin, OState
  <2> QED BY <2>2 DEF OCleared, OUpTo
<1>3. ASSUME NEW n \in 1 .. N, NEW x \in Y(n - 1)
      PROVE  OEntry(k, x, A[n]) \in Y(n)
  <2>0. x \in OState /\ OCleared(x) /\ OUpTo(A, n - 1, x) /\ A[n] \in OAddress
    BY <1>0
  <2> HIDE DEF A, Y
  <2>1. OEntry(k, x, A[n]) = O!EraseEntry(x, A[n])
    BY DEF OEntry, O!Erases
  <2>2. OEntry(k, x, A[n]) \in OState
    BY <2>0, OEntryIn
  <2>3. A \in Seq(OAddress) /\ O!MayReset(A)
    BY DEF A
  <2>4. OCleared(O!EraseEntry(x, A[n])) /\ OUpTo(A, n, O!EraseEntry(x, A[n]))
    BY <2>0, <2>3, OClears
  <2> QED BY <2>1, <2>2, <2>4 DEF Y
<1>4. \A n \in 0 .. N : P[n] = Y(n)
  OBVIOUS
<1>5. OLeads(k, P)
  <2> SUFFICES ASSUME NEW n \in 1 .. N, NEW y \in P[n - 1]
               PROVE  OEntry(k, y, A[n]) \in P[n]
    BY DEF OLeads
  <2>1. n - 1 \in 0 .. N /\ n \in 0 .. N
    BY <1>0
  <2> HIDE DEF P, A, Y, N
  <2> QED BY <1>3, <1>4, <2>1
<1>6. OBegin \in P[0] /\ 0 \in 0 .. N /\ N \in 0 .. N
  BY <1>0, <1>2, <1>4
<1> HIDE DEF P, Y
<1>7. O!Internal(k) \in P[N]
  BY <1>1, <1>5, <1>6, OInternal
<1> QED BY <1>4, <1>6, <1>7 DEF Y

\* Any other job leaves the descriptors alone.
LEMMA OListed ==
  ASSUME reg.chunk \in [Chunks -> OChunk], NEW k, ~O!Erases(k),
         k.op \notin {"vectorWrite", "write"}, O!Merge(k) \in Seq(OAddress)
  PROVE  O!Internal(k) \in OState /\ O!Internal(k).chunk = reg.chunk
<1> DEFINE A == O!Merge(k)
           N == Len(A)
           Y == {x \in OState : x.chunk = reg.chunk}
           P == [n \in 0 .. N |-> Y]
<1>0. N \in Nat /\ \A i \in 1 .. N : A[i] \in OAddress
  OBVIOUS
<1>1. P \in [0 .. N -> SUBSET OState]
  OBVIOUS
<1>2. OBegin \in Y
  <2>1. << >> \in Seq(OAddress)
    OBVIOUS
  <2> QED BY <2>1 DEF OBegin, OState
<1>3. \A x \in Y : \A a \in OAddress : OEntry(k, x, a) \in Y
  <2> SUFFICES ASSUME NEW x \in OState, x.chunk = reg.chunk, NEW a \in OAddress
               PROVE  OEntry(k, x, a) \in OState /\ OEntry(k, x, a).chunk = reg.chunk
    OBVIOUS
  <2>1. OEntry(k, x, a) = [x EXCEPT !.list = Append(@, a)]
    BY DEF OEntry, O!ReadEntry
  <2>2. OEntry(k, x, a) \in OState
    BY OEntryIn
  <2> DEFINE T == Append(x.list, a)
  <2> HIDE DEF T
  <2>3. [x EXCEPT !.list = T].chunk = x.chunk
    BY DEF OState
  <2> QED BY <2>1, <2>2, <2>3 DEF T
<1>4. \A n \in 0 .. N : P[n] = Y
  OBVIOUS
<1>5. OLeads(k, P)
  <2> SUFFICES ASSUME NEW n \in 1 .. N, NEW y \in P[n - 1]
               PROVE  OEntry(k, y, A[n]) \in P[n]
    BY DEF OLeads
  <2>1. n - 1 \in 0 .. N /\ n \in 0 .. N
    BY <1>0
  <2> HIDE DEF P, A, Y, N
  <2> QED BY <1>0, <1>3, <1>4, <2>1
<1>6. OBegin \in P[0] /\ 0 \in 0 .. N /\ N \in 0 .. N
  BY <1>0, <1>2, <1>4
<1> HIDE DEF P, Y
<1>7. O!Internal(k) \in P[N]
  BY <1>1, <1>5, <1>6, OInternal
<1> QED BY <1>4, <1>6, <1>7 DEF Y

\* Stages in a row.
LEMMA OJoin ==
  ASSUME NEW e \in Seq(OStages), NEW f \in Seq(OStages), NEW h, h = e \o f
  PROVE  /\ h \in Seq(OStages) /\ Len(h) = Len(e) + Len(f)
         /\ \A i \in 1 .. Len(e) : h[i] = e[i]
         /\ \A i \in 1 .. Len(f) : h[Len(e) + i] = f[i]
         /\ Len(e) \in Nat /\ Len(f) \in Nat
OBVIOUS

\* The stages of a command of version 2.0.
LEMMA OPathOf ==
  ASSUME NEW k, k.op \in O!Ops20
  PROVE  OPath("submit", O!Path20(k))
<1> DEFINE St(x) == x \in OStages
           p == O!Path20(k)
           many == Len(k.lbas) > 1
<1>0. St("prp") /\ St("cpu") /\ St("lbas") /\ St("job") /\ St("nand") /\ St("data")
  BY DEF OStages
<1>1. CASE k.op = "trim"
  BY <1>1 DEF O!Path20, O!DatasetManagement, OPath
<1>2. CASE k.op \in {"geometry", "log"}
  <2>1. p = <<"prp", "data">>
    BY <1>2 DEF O!Path20, O!Geometry, O!GetLogPage
  <2>2. p \in Seq(OStages) /\ Len(p) = 2 /\ p[1] = "prp" /\ p[2] = "data"
    BY <1>0, <2>1
  <2> HIDE DEF p
  <2>3. OPath("submit", p)
    BY <2>2 DEF OPath
  <2> QED BY <2>3 DEF p
<1>3. CASE k.op = "read"
  <2>1. p = <<"prp", "cpu", "job", "nand", "data">>
    BY <1>3 DEF O!Path20, O!Read
  <2>2. /\ p \in Seq(OStages) /\ Len(p) = 5
        /\ p[1] = "prp" /\ p[2] = "cpu" /\ p[3] = "job" /\ p[4] = "nand" /\ p[5] = "data"
    BY <1>0, <2>1
  <2> HIDE DEF p
  <2>3. OPath("submit", p)
    BY <2>2 DEF OPath
  <2> QED BY <2>3 DEF p
<1>4. CASE k.op = "write"
  <2>1. p = <<"prp", "cpu", "data", "job", "nand">>
    BY <1>4 DEF O!Path20, O!Write
  <2>2. /\ p \in Seq(OStages) /\ Len(p) = 5
        /\ p[1] = "prp" /\ p[2] = "cpu" /\ p[3] = "data" /\ p[4] = "job" /\ p[5] = "nand"
    BY <1>0, <2>1
  <2> HIDE DEF p
  <2>3. OPath("submit", p)
    BY <2>2 DEF OPath
  <2> QED BY <2>3 DEF p
<1>5. CASE k.op = "reset"
  <2> DEFINE e == IF many THEN <<"lbas", "cpu">> ELSE << >>
             f == <<"job", "nand">>
  <2>1. p = e \o f
    BY <1>5 DEF O!Path20, O!VectorChunkReset
  <2>2. f \in Seq(OStages) /\ Len(f) = 2 /\ f[1] = "job" /\ f[2] = "nand"
    BY <1>0
  <2>3. many => e \in Seq(OStages) /\ Len(e) = 2 /\ e[1] = "lbas" /\ e[2] = "cpu"
    BY <1>0
  <2>4. ~many => e \in Seq(OStages) /\ Len(e) = 0
    OBVIOUS
  <2> HIDE DEF e, f, p
  <2>5. /\ p \in Seq(OStages) /\ Len(p) = Len(e) + Len(f)
        /\ \A i \in 1 .. Len(e) : p[i] = e[i]
        /\ \A i \in 1 .. Len(f) : p[Len(e) + i] = f[i]
    <3>1. e \in Seq(OStages) /\ f \in Seq(OStages)
      BY <2>2, <2>3, <2>4
    <3> QED BY <2>1, <3>1, OJoin
  <2>6. OPath("submit", p)
    <3>0. p \in Seq(OStages)
      BY <2>5
    <3>1. CASE many
      <4>1. /\ Len(p) = 4 /\ p[1] = "lbas" /\ p[2] = "cpu" /\ p[3] = "job" /\ p[4] = "nand"
        <5>1. p[1] = "lbas" /\ p[2] = "cpu"
          BY <2>3, <2>5, <3>1
        <5>2. p[2 + 1] = "job" /\ p[2 + 2] = "nand" /\ Len(p) = 2 + 2
          BY <2>2, <2>3, <2>5, <3>1
        <5> QED BY <5>1, <5>2
      <4> QED BY <3>0, <4>1 DEF OPath
    <3>2. CASE ~many
      <4>1. /\ Len(p) = 2 /\ p[1] = "job" /\ p[2] = "nand"
        <5>1. p[0 + 1] = "job" /\ p[0 + 2] = "nand" /\ Len(p) = 0 + 2
          BY <2>2, <2>4, <2>5, <3>2
        <5> QED BY <5>1
      <4> QED BY <3>0, <4>1 DEF OPath
    <3> QED BY <3>1, <3>2
  <2> QED BY <2>6 DEF p
<1>6. CASE k.op \in {"vectorWrite", "vectorRead"}
  <2> DEFINE b == <<"prp", "cpu">>
             e == O!List(k)
             f == <<"job", "nand", "data">>
             g == b \o e
  <2>1. p = g \o f
    BY <1>6 DEF O!Path20, O!VectorChunkWrite, O!VectorChunkRead
  <2>2. f \in Seq(OStages) /\ Len(f) = 3 /\ f[1] = "job" /\ f[2] = "nand" /\ f[3] = "data"
    BY <1>0
  <2>3. b \in Seq(OStages) /\ Len(b) = 2 /\ b[1] = "prp" /\ b[2] = "cpu"
    BY <1>0
  <2>4. many => e \in Seq(OStages) /\ Len(e) = 1 /\ e[1] = "lbas"
    BY <1>0 DEF O!List
  <2>5. ~many => e \in Seq(OStages) /\ Len(e) = 0
    BY DEF O!List
  <2>6. g = b \o e
    OBVIOUS
  <2> HIDE DEF b, e, f, g, p
  <2>7. /\ g \in Seq(OStages) /\ Len(g) = Len(b) + Len(e)
        /\ \A i \in 1 .. Len(b) : g[i] = b[i]
        /\ \A i \in 1 .. Len(e) : g[Len(b) + i] = e[i]
    <3>1. b \in Seq(OStages) /\ e \in Seq(OStages)
      BY <2>3, <2>4, <2>5
    <3> QED BY <2>6, <3>1, OJoin
  <2>8. /\ p \in Seq(OStages) /\ Len(p) = Len(g) + Len(f)
        /\ \A i \in 1 .. Len(g) : p[i] = g[i]
        /\ \A i \in 1 .. Len(f) : p[Len(g) + i] = f[i]
    <3>1. g \in Seq(OStages) /\ f \in Seq(OStages)
      BY <2>2, <2>7
    <3> QED BY <2>1, <3>1, OJoin
  <2>9. g[1] = "prp" /\ g[2] = "cpu"
    BY <2>3, <2>7
  <2>10. OPath("submit", p)
    <3>0. p \in Seq(OStages)
      BY <2>8
    <3>1. CASE many
      <4>1. g[2 + 1] = "lbas" /\ Len(g) = 2 + 1
        BY <2>3, <2>4, <2>7, <3>1
      <4>2. p[3 + 1] = "job" /\ p[3 + 2] = "nand" /\ p[3 + 3] = "data" /\ Len(p) = 3 + 3
        <5>1. Len(g) = 3
          BY <4>1
        <5> QED BY <2>2, <2>8, <5>1
      <4>3. p[1] = "prp" /\ p[2] = "cpu" /\ p[3] = "lbas"
        BY <2>8, <2>9, <4>1
      <4>4. /\ Len(p) = 6 /\ p[1] = "prp" /\ p[2] = "cpu" /\ p[3] = "lbas"
            /\ p[4] = "job" /\ p[5] = "nand" /\ p[6] = "data"
        BY <4>2, <4>3
      <4> QED BY <3>0, <4>4 DEF OPath
    <3>2. CASE ~many
      <4>1. Len(g) = 2
        BY <2>3, <2>5, <2>7, <3>2
      <4>2. p[2 + 1] = "job" /\ p[2 + 2] = "nand" /\ p[2 + 3] = "data" /\ Len(p) = 2 + 3
        BY <2>2, <2>8, <4>1
      <4>3. p[1] = "prp" /\ p[2] = "cpu"
        BY <2>8, <2>9, <4>1
      <4>4. /\ Len(p) = 5 /\ p[1] = "prp" /\ p[2] = "cpu"
            /\ p[3] = "job" /\ p[4] = "nand" /\ p[5] = "data"
        BY <4>2, <4>3
      <4> QED BY <3>0, <4>4 DEF OPath
    <3> QED BY <3>1, <3>2
  <2> QED BY <2>10 DEF p
<1> QED BY <1>1, <1>2, <1>3, <1>4, <1>5, <1>6 DEF O!Ops20

\* The next stage.
LEMMA ORest ==
  ASSUME NEW stage, NEW p, OPath(stage, p), p # << >>
  PROVE  /\ OPath(Head(p), Tail(p)) /\ Head(p) = p[1] /\ Head(p) \in OStages
         /\ 1 \in 1 .. Len(p)
         /\ (\E i \in 1 .. Len(Tail(p)) : Tail(p)[i] = "job")
              => (\E i \in 1 .. Len(p) : p[i] = "job")
         /\ Head(p) = "job" => ~\E i \in 1 .. Len(Tail(p)) : Tail(p)[i] = "job"
         /\ Head(p) = "nand" <=> stage = "job"
<1> DEFINE t == Tail(p)
           h == Head(p)
<1>1. /\ p \in Seq(OStages) /\ t \in Seq(OStages) /\ h = p[1] /\ h \in OStages
      /\ Len(p) \in Nat \ {0} /\ Len(t) = Len(p) - 1
      /\ \A i \in 1 .. Len(t) : i + 1 \in 1 .. Len(p) /\ t[i] = p[i + 1]
  BY DEF OPath
<1> HIDE DEF t, h
<1>2. t # << >> => 1 \in 1 .. Len(t)
  <2>1. t = << >> <=> Len(t) = 0
    BY <1>1, EmptyLen
  <2> QED BY <1>1, <2>1
<1>3. /\ 1 \in 1 .. Len(p)
      /\ \A i \in 1 .. Len(p) : p[i] = "job" <=> (i < Len(p) /\ p[i + 1] = "nand")
      /\ \A i, j \in 1 .. Len(p) : p[i] = "job" /\ p[j] = "job" => i = j
      /\ stage = "job" <=> p[1] = "nand"
  BY <1>1 DEF OPath
<1>4. h = "job" <=> t # << >> /\ t[1] = "nand"
  <2>1. CASE Len(p) = 1
    <3>1. t = << >> /\ ~(1 < Len(p))
      BY <1>1, <2>1, EmptyLen
    <3> QED BY <1>1, <1>3, <3>1
  <2>2. CASE Len(p) # 1
    <3>1. 1 < Len(p) /\ 1 \in 1 .. Len(t) /\ t # << >> /\ t[1] = p[2]
      BY <1>1, <2>2
    <3> QED BY <1>1, <1>3, <3>1
  <2> QED BY <2>1, <2>2
<1>5. \A i \in 1 .. Len(t) : t[i] = "job" <=> (i < Len(t) /\ t[i + 1] = "nand")
  <2> SUFFICES ASSUME NEW i \in 1 .. Len(t)
               PROVE  t[i] = "job" <=> (i < Len(t) /\ t[i + 1] = "nand")
    OBVIOUS
  <2>1. i + 1 \in 1 .. Len(p) /\ t[i] = p[i + 1] /\ (i < Len(t) <=> i + 1 < Len(p))
    BY <1>1
  <2>2. i < Len(t) => t[i + 1] = p[(i + 1) + 1]
    BY <1>1
  <2> QED BY <1>3, <2>1, <2>2
<1>6. \A i, j \in 1 .. Len(t) : t[i] = "job" /\ t[j] = "job" => i = j
  BY <1>1, <1>3
<1>7. \A i \in 1 .. Len(t) : t[i] = "job" => h # "job"
  <2> SUFFICES ASSUME NEW i \in 1 .. Len(t), t[i] = "job", h = "job"
               PROVE  FALSE
    OBVIOUS
  <2>1. i + 1 \in 1 .. Len(p) /\ p[i + 1] = "job" /\ p[1] = "job" /\ i + 1 # 1
    BY <1>1
  <2> QED BY <1>3, <2>1
<1>8. OPath(h, t)
  BY <1>1, <1>4, <1>5, <1>6, <1>7 DEF OPath
<1> QED BY <1>1, <1>3, <1>7, <1>8 DEF t, h

\* What a command of a run of version 2.0 names.
LEMMA OMergeOf ==
  ASSUME O!Sendable(cmd, O!Ops20), NEW r \in Requests
  PROVE  O!Merge(cmd[r]) \in Seq(OAddress) /\ cmd[r].op \in O!Ops20
<1>1. /\ cmd[r].op \in O!Ops20 /\ cmd[r].lbas \in Seq(Nat)
      /\ cmd[r].op \in {"read", "write"} => Len(cmd[r].lbas) = 2
      /\ \A i \in DOMAIN O!Addresses(cmd[r]) : O!Addresses(cmd[r])[i].chunk \in Chunks
  BY DEF O!Sendable
<1>2. O!Addresses(cmd[r]) \in Seq(OAddress)
  BY <1>1, OAddressesIn
<1> QED BY <1>1, <1>2, OMergeIn DEF O!Merge

\* The registers of the model are the version, the descriptors and the flash.
ORegister == \E v, a, b : reg = [version |-> v, chunk |-> a, flash |-> b]

LEMMA ORegisters ==
  ASSUME ORegister, NEW X
  PROVE  /\ reg' = [reg EXCEPT !.chunk = X] =>
              /\ ORegister' /\ reg'.version = reg.version
              /\ reg'.chunk = X /\ reg'.flash = reg.flash
         /\ reg' = [reg EXCEPT !.flash = X] =>
              /\ ORegister' /\ reg'.version = reg.version
              /\ reg'.chunk = reg.chunk /\ reg'.flash = X
<1>1. PICK v, a, b : reg = [version |-> v, chunk |-> a, flash |-> b]
  BY DEF ORegister
<1>2. /\ reg.version = v /\ reg.chunk = a /\ reg.flash = b
      /\ [reg EXCEPT !.chunk = X] = [version |-> v, chunk |-> X, flash |-> b]
      /\ [reg EXCEPT !.flash = X] = [version |-> v, chunk |-> a, flash |-> X]
  BY <1>1
<1>3. ASSUME reg' = [version |-> v, chunk |-> X, flash |-> b]
      PROVE  ORegister' /\ reg'.version = v /\ reg'.chunk = X /\ reg'.flash = b
  BY <1>3 DEF ORegister
<1>4. ASSUME reg' = [version |-> v, chunk |-> a, flash |-> X]
      PROVE  ORegister' /\ reg'.version = v /\ reg'.chunk = a /\ reg'.flash = X
  BY <1>4 DEF ORegister
<1> QED BY <1>2, <1>3, <1>4

\* The initial states.
LEMMA OInitMedia ==
  ASSUME O!OCSSDInit
  PROVE  ORegister /\ (reg.version = 20 => OMedia)
<1> DEFINE v == IF \E r \in Requests : cmd[r].op \in O!Ops12 THEN 12 ELSE 20
           free == [state |-> "free", wp |-> 0]
           a == [c \in Chunks |-> free]
           b == [c \in Chunks |-> {}]
<1>1. /\ contexts = {} /\ cmd \in Workloads["ocssd"]
      /\ reg = [version |-> v, chunk |-> a, flash |-> b]
  BY OSame DEF O!OCSSDInit, CommonInit
<1>2. reg.version = v /\ reg.chunk = a /\ reg.flash = b
  BY <1>1
<1>3. ORegister
  BY <1>1 DEF ORegister
<1>4. ASSUME reg.version = 20
      PROVE  OMedia
  <2>1. O!Sendable(cmd, O!Ops20)
    <3>1. CASE O!Sendable(cmd, O!Ops12)
      <4>1. ~\E r \in Requests : cmd[r].op \in O!Ops12
        BY <1>2, <1>4
      <4>2. \A r \in Requests : cmd[r].op \in O!Ops12
        BY <3>1 DEF O!Sendable
      <4>3. Requests = {}
        BY <4>1, <4>2
      <4> QED BY <4>3 DEF O!Sendable
    <3> QED BY <1>1, <3>1, AdapterAssumption
  <2>2. free \in OChunk /\ OTidy(free)
    BY AdapterAssumption DEF OChunk, OTidy
  <2>3. reg.chunk \in [Chunks -> OChunk]
    BY <1>2, <2>2
  <2>4. reg.flash \in [Chunks -> SUBSET (0 .. PagesInChunk - 1)]
    BY <1>2
  <2>5. OFlash
    BY <1>2, <2>2 DEF OFlash
  <2>6. OContexts /\ OLists
    BY <1>1 DEF OContexts, OLists
  <2> QED BY <1>4, <2>1, <2>3, <2>4, <2>5, <2>6 DEF OMedia
<1> QED BY <1>3, <1>4

\* A context that programs nothing and is in order.
OSound(e) ==
    /\ OPath(e.stage, e.rest)
    /\ e.stage = "job" => e.need \in Seq(OAddress) /\ ONear(cmd[e.req], e.need)
    /\ ~OWrites(e)
    /\ OJob(e) => OMay(cmd[e.req])

\* The commands stay what they are.
LEMMA OCommandsStay ==
  ASSUME UNCHANGED cmd, NEW r
  PROVE  /\ O!Merge(cmd[r])' = O!Merge(cmd[r])
         /\ O!Changed(cmd[r])' = O!Changed(cmd[r])
         /\ O!Overlong(cmd[r])' <=> O!Overlong(cmd[r])
         /\ O!Erases(cmd[r])' <=> O!Erases(cmd[r])
         /\ \A list : ONear(cmd[r], list)' <=> ONear(cmd[r], list)
BY DEF O!Merge, O!Changed, O!Overlong, O!Erases, O!Programming, ONear, O!Addresses, O!Place

\* What the host keeps to stays true of a command when its chunks stay as they are.
LEMMA OMayStill ==
  ASSUME UNCHANGED cmd, NEW r, O!Merge(cmd[r]) \in Seq(OAddress), OMay(cmd[r]),
         cmd[r].op = "reset" \/ O!Overlong(cmd[r]) =>
            \A i \in DOMAIN O!Merge(cmd[r]) :
               reg'.chunk[O!Merge(cmd[r])[i].chunk] = reg.chunk[O!Merge(cmd[r])[i].chunk]
  PROVE  OMay(cmd[r])'
<1> DEFINE A == O!Merge(cmd[r])
           L == O!Overlong(cmd[r])
<1>1. A' = A /\ (L' <=> L)
  BY OCommandsStay
<1>2. /\ cmd[r].op = "reset" => O!MayReset(A)
      /\ L => O!MayWrite(A)
  BY DEF OMay
<1>3. cmd[r].op = "reset" \/ L =>
        \A i \in DOMAIN A : reg'.chunk[A[i].chunk] = reg.chunk[A[i].chunk]
  OBVIOUS
<1>4. OMay(cmd[r])' <=> (/\ cmd[r].op = "reset" => O!MayReset(A)'
                         /\ L' => O!MayWrite(A)')
  BY DEF OMay
<1> HIDE DEF A, L
<1>5. cmd[r].op = "reset" => O!MayReset(A)'
  BY <1>1, <1>2, <1>3 DEF O!MayReset
<1>6. L => O!MayWrite(A)'
  BY <1>1, <1>2, <1>3 DEF O!MayWrite
<1> QED BY <1>1, <1>4, <1>5, <1>6

\* A step that leaves descriptors and flash as they are, adds no list of pages
\* to program and ends no erase.
LEMMA OKept ==
  ASSUME OCommands, OMedia, UNCHANGED cmd, reg'.version = reg.version,
         reg'.chunk = reg.chunk, reg'.flash = reg.flash,
         \A e \in contexts' : e.req \in Requests /\ (e \in contexts \/ OSound(e)),
         \A e \in contexts : e.stage = "job" /\ O!Erases(cmd[e.req]) => e \in contexts'
  PROVE  OMedia'
<1>1. reg'.version = 20 /\ O!Sendable(cmd, O!Ops20)'
  BY DEF OMedia, O!Sendable, O!Ops20, O!Addresses, O!Place
<1>2. /\ (reg.chunk \in [Chunks -> OChunk])'
      /\ (reg.flash \in [Chunks -> SUBSET (0 .. PagesInChunk - 1)])'
  BY DEF OMedia
<1>3. OContexts'
  <2> SUFFICES ASSUME NEW e \in contexts'
               PROVE  /\ OPath(e.stage, e.rest)
                      /\ e.stage = "job" => e.need \in Seq(OAddress)
                                            /\ ONear(cmd[e.req], e.need)'
                      /\ OJob(e) => OMay(cmd[e.req])'
    BY DEF OContexts, OJob, OPath
  <2>1. /\ OPath(e.stage, e.rest)
        /\ e.stage = "job" => e.need \in Seq(OAddress) /\ ONear(cmd[e.req], e.need)
        /\ OJob(e) => OMay(cmd[e.req])
    BY DEF OMedia, OContexts, OSound
  <2>2. O!Merge(cmd[e.req]) \in Seq(OAddress)
    BY OMergeOf DEF OMedia
  <2>3. OMay(cmd[e.req]) => OMay(cmd[e.req])'
    BY <2>2, OMayStill
  <2>4. ONear(cmd[e.req], e.need)' <=> ONear(cmd[e.req], e.need)
    BY OCommandsStay
  <2> QED BY <2>1, <2>3, <2>4
<1>4. OLists'
  <2> SUFFICES ASSUME NEW e \in contexts', OWrites(e), NEW i \in DOMAIN e.need,
                      NEW d \in contexts', OWrites(d), NEW j \in DOMAIN d.need
               PROVE  /\ e.need[i].page < reg.chunk[e.need[i].chunk].wp
                      /\ e.need[i].page \notin reg.flash[e.need[i].chunk]
                      /\ e.need[i] = d.need[j] => e = d /\ i = j
    BY DEF OLists, OWrites
  <2>1. e \in contexts /\ d \in contexts
    BY DEF OSound
  <2> QED BY <2>1 DEF OMedia, OLists
<1>5. OFlash'
  <2>1. \A ch \in Chunks : O!Erasing(ch) => O!Erasing(ch)'
    BY DEF O!Erasing, O!Erases
  <2>2. \A ch \in Chunks : OTidy(reg.chunk[ch])'
    BY DEF OMedia, OFlash, OTidy
  <2> QED BY <2>1, <2>2 DEF OMedia, OFlash
<1> QED BY <1>1, <1>2, <1>3, <1>4, <1>5 DEF OMedia

\* A command is sent.
LEMMA OIssueMedia ==
  ASSUME OCommands, OMedia, NEW r \in Requests, NEW s \in Slots, O!Issue(r, s)
  PROVE  OMedia'
<1> DEFINE d == O!Submitted(s, r)
<1>1. contexts' = contexts \cup {d} /\ UNCHANGED <<cmd, reg>> /\ OMay(cmd[r])
  BY DEF O!Issue, O!MaySend, OMay
<1>2. cmd[r].op \in O!Ops20
  BY OMergeOf DEF OMedia
<1>3. d.req = r /\ d.stage = "submit" /\ d.rest = O!Path20(cmd[r])
  BY OSame DEF OMedia, O!Submitted, Context
<1> HIDE DEF d
<1>4. OSound(d)
  <2>1. OPath("submit", O!Path20(cmd[r]))
    BY <1>2, OPathOf
  <2> QED BY <1>1, <1>3, <2>1 DEF OSound, OWrites
<1>5. \A e \in contexts' : e.req \in Requests
  BY <1>1, <1>3 DEF OCommands
<1> QED BY <1>1, <1>4, <1>5, OKept

\* What a reset or a long write changes, no other command does.
LEMMA ODisjoint ==
  ASSUME OCommands, NEW c \in contexts, NEW d \in contexts, c # d,
         O!Exclusive(cmd[c.req])
  PROVE  O!Changed(cmd[c.req]) \cap O!Changed(cmd[d.req]) = {}
<1>1. /\ c.slot \in Slots /\ d.slot \in Slots
      /\ held[c.slot] = c.req /\ held[d.slot] = d.req
      /\ held[c.slot] # 0 /\ held[d.slot] # 0
  BY SlotsAssumption DEF OCommands
<1>2. c.slot # d.slot
  BY <1>1 DEF OCommands
<1>3. O!Apart(cmd[c.req], cmd[d.req])
  BY <1>1, <1>2 DEF OCommands
<1> QED BY <1>3 DEF O!Apart

\* A context that is about to erase a chunk.
OClearing(d, ch) == /\ d.stage = "job" /\ O!Erases(cmd[d.req])
                    /\ \E i \in DOMAIN d.need : d.need[i].chunk = ch

LEMMA OClearingApart ==
  ASSUME OCommands, OMedia, NEW c \in contexts, NEW d \in contexts, c # d,
         NEW ch, OClearing(d, ch)
  PROVE  ch \notin O!Changed(cmd[c.req])
<1>1. cmd[d.req].op = "reset"
  <2>1. cmd[d.req].op \in O!Ops20
    BY OMergeOf DEF OMedia, OCommands
  <2> QED BY <2>1 DEF OClearing, O!Erases, O!Ops20
<1>2. ch \in O!Changed(cmd[d.req])
  BY <1>1 DEF OClearing, OMedia, OContexts, ONear
<1>3. O!Exclusive(cmd[d.req])
  BY DEF OClearing, O!Exclusive
<1> QED BY <1>2, <1>3, ODisjoint

\* The other commands may do what they might when one has changed its chunks.
LEMMA OMayOther ==
  ASSUME OCommands, OMedia, UNCHANGED cmd, NEW c \in contexts, NEW e \in contexts,
         e # c, OJob(e),
         \A ch \in Chunks \ O!Changed(cmd[c.req]) : reg'.chunk[ch] = reg.chunk[ch]
  PROVE  OMay(cmd[e.req])'
<1> DEFINE k == cmd[e.req]
           A == O!Merge(k)
<1>1. OMay(k)
  BY DEF OMedia, OContexts
<1>2. A \in Seq(OAddress)
  BY OMergeOf DEF OMedia, OCommands
<1>3. ASSUME k.op = "reset" \/ O!Overlong(k)
      PROVE  \A i \in DOMAIN A : reg'.chunk[A[i].chunk] = reg.chunk[A[i].chunk]
  <2>1. O!Exclusive(k)
    BY <1>3 DEF O!Exclusive, O!Erases
  <2>2. O!Changed(k) \cap O!Changed(cmd[c.req]) = {}
    BY <2>1, ODisjoint
  <2>3. k.op \in {"vectorWrite", "write", "reset"}
    BY <1>3 DEF O!Overlong, O!Programming
  <2>4. \A i \in 1 .. Len(A) : A[i].chunk \in O!Changed(k)
    BY <1>2, <2>3, OChangedBy
  <2>5. \A i \in DOMAIN A : i \in 1 .. Len(A) /\ A[i].chunk \in Chunks
    <3>1. \A i \in DOMAIN A : i \in 1 .. Len(A) /\ A[i] \in OAddress
      BY <1>2
    <3> QED BY <3>1 DEF OAddress
  <2> HIDE DEF k, A
  <2> QED BY <2>2, <2>4, <2>5 
<1> QED BY <1>1, <1>2, <1>3, OMayStill

\* The context of a command at its next stage.
ONext(c, todo) == Context(c.slot, c.req, Head(c.rest), Tail(c.rest), todo)

LEMMA ONexts ==
  ASSUME OMedia, NEW c \in contexts, c.rest # << >>, NEW todo
  PROVE  /\ ONext(c, todo).slot = c.slot /\ ONext(c, todo).req = c.req
         /\ ONext(c, todo).stage = Head(c.rest) /\ ONext(c, todo).rest = Tail(c.rest)
         /\ ONext(c, todo).need = todo
         /\ OPath(Head(c.rest), Tail(c.rest))
         /\ OJob(ONext(c, todo)) => OJob(c)
         /\ Head(c.rest) = "job" => OJob(c) /\ ~OJob(ONext(c, todo)) /\ c.stage # "job"
         /\ Head(c.rest) = "nand" <=> c.stage = "job"
<1>1. /\ ONext(c, todo).slot = c.slot /\ ONext(c, todo).req = c.req
      /\ ONext(c, todo).stage = Head(c.rest) /\ ONext(c, todo).rest = Tail(c.rest)
      /\ ONext(c, todo).need = todo
  BY DEF ONext, Context
<1>2. OPath(c.stage, c.rest)
  BY DEF OMedia, OContexts
<1> DEFINE p == c.rest
           t == Tail(p)
           h == Head(p)
<1>3. /\ OPath(h, t) /\ h = p[1]
      /\ 1 \in 1 .. Len(p)
      /\ (\E i \in 1 .. Len(t) : t[i] = "job") => (\E i \in 1 .. Len(p) : p[i] = "job")
      /\ h = "job" => ~\E i \in 1 .. Len(t) : t[i] = "job"
      /\ h = "nand" <=> c.stage = "job"
  BY <1>2, ORest
<1>4. OJob(ONext(c, todo)) <=> \E i \in 1 .. Len(t) : t[i] = "job"
  BY <1>1 DEF OJob
<1>5. OJob(c) <=> \E i \in 1 .. Len(p) : p[i] = "job"
  BY DEF OJob
<1> HIDE DEF p, t, h
<1>6. h = "job" => c.stage # "job"
  BY <1>3
<1> QED BY <1>1, <1>3, <1>4, <1>5, <1>6 DEF p, t, h

\* The contexts behind a step of one of them.
LEMMA OContextsKept ==
  ASSUME OCommands, OMedia, UNCHANGED cmd, NEW c \in contexts, NEW n,
         contexts' = (contexts \ {c}) \cup {n}, n.req = c.req, OPath(n.stage, n.rest),
         n.stage = "job" => n.need \in Seq(OAddress) /\ ONear(cmd[c.req], n.need),
         OJob(n) => OJob(c) /\ reg'.chunk = reg.chunk,
         \A ch \in Chunks \ O!Changed(cmd[c.req]) : reg'.chunk[ch] = reg.chunk[ch]
  PROVE  OContexts'
<1> SUFFICES ASSUME NEW e \in contexts'
             PROVE  /\ OPath(e.stage, e.rest)
                    /\ e.stage = "job" => e.need \in Seq(OAddress)
                                          /\ ONear(cmd[e.req], e.need)'
                    /\ OJob(e) => OMay(cmd[e.req])'
  BY DEF OContexts, OJob, OPath
<1>1. ONear(cmd[e.req], e.need)' <=> ONear(cmd[e.req], e.need)
  BY OCommandsStay
<1>2. CASE e = n
  <2>1. ASSUME OJob(n)
        PROVE  OMay(cmd[c.req])'
    <3>1. OMay(cmd[c.req])
      BY <2>1 DEF OMedia, OContexts
    <3>2. O!Merge(cmd[c.req]) \in Seq(OAddress)
      BY OMergeOf DEF OMedia, OCommands
    <3> QED BY <2>1, <3>1, <3>2, OMayStill
  <2> QED BY <1>1, <1>2, <2>1
<1>3. CASE e \in contexts /\ e # c
  <2>1. OJob(e) => OMay(cmd[e.req])'
    BY <1>3, OMayOther
  <2> QED BY <1>1, <1>3, <2>1 DEF OMedia, OContexts
<1> QED BY <1>2, <1>3

\* A command goes on, or is done, without its job or the flash.
LEMMA OStageMedia ==
  ASSUME OCommands, OMedia, ORegister, NEW c \in contexts,
         c.rest = << >> \/ Head(c.rest) \notin {"job", "nand"},
         O!Proceed(contexts \ {c}, c.slot, c.req, c.rest, c.need), UNCHANGED cmd
  PROVE  OMedia'
<1>0. OPath(c.stage, c.rest) /\ \A e \in contexts : e.req \in Requests
  BY DEF OMedia, OContexts, OCommands
<1>1. CASE c.rest = << >>
  <2>1. contexts' = contexts \ {c} /\ UNCHANGED reg
    BY <1>1 DEF O!Proceed
  <2>2. c.stage # "job"
    BY <1>0, <1>1 DEF OPath
  <2> QED BY <1>0, <2>1, <2>2, OKept
<1>2. CASE c.rest # << >>
  <2>1. /\ contexts' = (contexts \ {c}) \cup {ONext(c, c.need)}
        /\ UNCHANGED reg
    BY <1>2, OSame DEF O!Proceed, ONext
  <2> DEFINE d == ONext(c, c.need)
  <2>2. /\ d.req = c.req /\ d.stage = Head(c.rest) /\ d.rest = Tail(c.rest)
        /\ OPath(Head(c.rest), Tail(c.rest)) /\ (OJob(d) => OJob(c)) /\ c.stage # "job"
    BY <1>2, ONexts
  <2> HIDE DEF d
  <2>3. OSound(d)
    BY <1>2, <2>2 DEF OSound, OWrites, OMedia, OContexts
  <2> QED BY <1>0, <2>1, <2>2, <2>3, OKept DEF d
<1> QED BY <1>1, <1>2

\* writeInternal: the pages on its list are above everything written.
LEMMA OWriteMedia ==
  ASSUME OCommands, OMedia, NEW c \in contexts, c.rest # << >>, Head(c.rest) = "job",
         cmd[c.req].op \in {"vectorWrite", "write"}, UNCHANGED cmd,
         NEW x \in OState, OGrown(x), OWithin(O!Changed(cmd[c.req]), x),
         contexts' = (contexts \ {c}) \cup {ONext(c, x.list)},
         reg'.version = reg.version, reg'.chunk = x.chunk, reg'.flash = reg.flash
  PROVE  OMedia'
<1> DEFINE n == ONext(c, x.list)
           T == x.list
           Z == O!Changed(cmd[c.req])
<1>1. /\ n.req = c.req /\ n.stage = "job" /\ n.rest = Tail(c.rest) /\ n.need = T
      /\ OPath("job", Tail(c.rest)) /\ c.stage # "job" /\ ~OJob(n)
  BY ONexts
<1>2. x.chunk \in [Chunks -> OChunk] /\ T \in Seq(OAddress)
  BY DEF OState
<1>3. contexts' = (contexts \ {c}) \cup {n}
  OBVIOUS
<1> HIDE DEF n, T, Z
<1>4. /\ n \in contexts' /\ \A e \in contexts' : e = n \/ (e \in contexts /\ e # c)
      /\ \A e \in contexts : e = c \/ e \in contexts'
  BY <1>3
<1>5. /\ \A i \in DOMAIN T : T[i].chunk \in Z
      /\ \A ch \in Chunks \ Z : reg'.chunk[ch] = reg.chunk[ch]
  BY DEF OWithin, T, Z
<1>6. \A ch \in Chunks : O!Erasing(ch) => ch \notin Z /\ O!Erasing(ch)'
  <2> SUFFICES ASSUME NEW ch \in Chunks, NEW d \in contexts, OClearing(d, ch)
               PROVE  ch \notin Z /\ O!Erasing(ch)'
    BY DEF O!Erasing, OClearing
  <2>1. d # c /\ d \in contexts'
    BY <1>1, <1>4 DEF OClearing
  <2>2. ch \notin Z
    BY <2>1, OClearingApart DEF Z
  <2> QED BY <2>1, <2>2 DEF O!Erasing, OClearing, O!Erases
<1>7. reg'.version = 20 /\ O!Sendable(cmd, O!Ops20)'
  BY DEF OMedia, O!Sendable, O!Ops20, O!Addresses, O!Place
<1>8. /\ (reg.chunk \in [Chunks -> OChunk])'
      /\ (reg.flash \in [Chunks -> SUBSET (0 .. PagesInChunk - 1)])'
  BY <1>2 DEF OMedia
<1>9. OContexts'
  <2>1. ONear(cmd[c.req], T)
    BY <1>5 DEF ONear, Z
  <2> QED BY <1>1, <1>2, <1>3, <1>5, <2>1, OContextsKept DEF Z
<1>10. \A ch \in Chunks : /\ OTidy(x.chunk[ch]) /\ reg.chunk[ch].wp <= x.chunk[ch].wp
                          /\ reg.chunk[ch].wp \in Nat /\ x.chunk[ch].wp \in Nat
  BY <1>2 DEF OGrown, OMedia, OChunk
<1>11. \A i \in DOMAIN T :
          /\ T[i].chunk \in Chunks /\ T[i].page \in Nat
          /\ reg.chunk[T[i].chunk].wp <= T[i].page
          /\ T[i].page < x.chunk[T[i].chunk].wp
          /\ \A j \in DOMAIN T : T[i] = T[j] => i = j
  <2>1. \A i \in DOMAIN T : T[i] \in OAddress
    BY <1>2
  <2>2. \A i \in DOMAIN T : T[i].chunk \in Chunks /\ T[i].page \in Nat
    BY <2>1 DEF OAddress
  <2> QED BY <2>2 DEF OGrown, T
<1>12. \A ch \in Chunks : \A p \in reg.flash[ch] :
          p \in Nat /\ (p < reg.chunk[ch].wp \/ (ch \notin Z /\ O!Erasing(ch)'))
  BY <1>6 DEF OMedia, OFlash
<1>13. \A e \in contexts : OWrites(e) => \A i \in DOMAIN e.need :
          /\ e.need[i].chunk \in Chunks /\ e.need[i].page \in Nat
          /\ e.need[i].page < reg.chunk[e.need[i].chunk].wp
          /\ e.need[i].page \notin reg.flash[e.need[i].chunk]
  <2> SUFFICES ASSUME NEW e \in contexts, OWrites(e), NEW i \in DOMAIN e.need
               PROVE  /\ e.need[i].chunk \in Chunks /\ e.need[i].page \in Nat
                      /\ e.need[i].page < reg.chunk[e.need[i].chunk].wp
                      /\ e.need[i].page \notin reg.flash[e.need[i].chunk]
    OBVIOUS
  <2>1. e.need \in Seq(OAddress)
    BY DEF OMedia, OContexts, OWrites
  <2>2. e.need[i] \in OAddress
    BY <2>1
  <2>3. e.need[i].chunk \in Chunks /\ e.need[i].page \in Nat
    BY <2>2 DEF OAddress
  <2> QED BY <2>3 DEF OMedia, OLists
<1>14. \A e \in contexts : OWrites(e) =>
          \A i \in DOMAIN e.need : \A j \in DOMAIN T : e.need[i] # T[j]
  <2> SUFFICES ASSUME NEW e \in contexts, OWrites(e), NEW i \in DOMAIN e.need,
                      NEW j \in DOMAIN T, e.need[i] = T[j]
               PROVE  FALSE
    OBVIOUS
  <2>1. T[j].chunk \in Chunks /\ T[j].page \in Nat /\ T[j].page < reg.chunk[T[j].chunk].wp
    BY <1>13
  <2> QED BY <1>10, <1>11, <2>1
<1>15. OLists'
  <2> SUFFICES ASSUME NEW e \in contexts', OWrites(e), NEW i \in DOMAIN e.need
               PROVE  /\ e.need[i].page < x.chunk[e.need[i].chunk].wp
                      /\ e.need[i].page \notin reg.flash[e.need[i].chunk]
                      /\ \A d \in contexts' : OWrites(d) =>
                           \A j \in DOMAIN d.need : e.need[i] = d.need[j] => e = d /\ i = j
    BY DEF OLists, OWrites
  <2>1. CASE e = n
    <3>1. e.need[i].page < x.chunk[e.need[i].chunk].wp
      BY <1>1, <1>11, <2>1
    <3>2. e.need[i].page \notin reg.flash[e.need[i].chunk]
      <4>1. e.need[i].chunk \in Z
        BY <1>1, <1>5, <2>1
      <4> QED BY <1>1, <1>10, <1>11, <1>12, <2>1, <4>1
    <3>3. ASSUME NEW d \in contexts', OWrites(d), NEW j \in DOMAIN d.need,
                 e.need[i] = d.need[j]
          PROVE  e = d /\ i = j
      BY <1>1, <1>4, <1>11, <1>14, <2>1, <3>3
    <3> QED BY <3>1, <3>2, <3>3
  <2>2. CASE e \in contexts
    <3>1. e.need[i].page < x.chunk[e.need[i].chunk].wp
      BY <1>10, <1>13, <2>2
    <3>2. e.need[i].page \notin reg.flash[e.need[i].chunk]
      BY <1>13, <2>2
    <3>3. ASSUME NEW d \in contexts', OWrites(d), NEW j \in DOMAIN d.need,
                 e.need[i] = d.need[j]
          PROVE  e = d /\ i = j
      BY <1>1, <1>4, <1>14, <2>2, <3>3 DEF OMedia, OLists
    <3> QED BY <3>1, <3>2, <3>3
  <2> QED BY <1>4, <2>1, <2>2
<1>16. OFlash'
  <2>1. \A ch \in Chunks : OTidy(reg.chunk[ch])'
    BY <1>10 DEF OTidy
  <2>2. \A ch \in Chunks : \A p \in reg'.flash[ch] :
           p < reg'.chunk[ch].wp \/ O!Erasing(ch)'
    BY <1>10, <1>12
  <2> QED BY <2>1, <2>2 DEF OFlash
<1> QED BY <1>7, <1>8, <1>9, <1>15, <1>16 DEF OMedia

\* eraseInternal: the chunks it sets free are about to be erased.
LEMMA OResetMedia ==
  ASSUME OCommands, OMedia, NEW c \in contexts, c.rest # << >>, Head(c.rest) = "job",
         cmd[c.req].op = "reset", UNCHANGED cmd,
         NEW x \in OState, OCleared(x), OWithin(O!Changed(cmd[c.req]), x),
         contexts' = (contexts \ {c}) \cup {ONext(c, x.list)},
         reg'.version = reg.version, reg'.chunk = x.chunk, reg'.flash = reg.flash
  PROVE  OMedia'
<1> DEFINE n == ONext(c, x.list)
           T == x.list
           Z == O!Changed(cmd[c.req])
<1>1. /\ n.req = c.req /\ n.stage = "job" /\ n.rest = Tail(c.rest) /\ n.need = T
      /\ OPath("job", Tail(c.rest)) /\ c.stage # "job" /\ ~OJob(n)
  BY ONexts
<1>2. x.chunk \in [Chunks -> OChunk] /\ T \in Seq(OAddress)
  BY DEF OState
<1>3. contexts' = (contexts \ {c}) \cup {n}
  OBVIOUS
<1> HIDE DEF n, T, Z
<1>4. /\ n \in contexts' /\ \A e \in contexts' : e = n \/ (e \in contexts /\ e # c)
      /\ \A e \in contexts : e = c \/ e \in contexts'
  BY <1>3
<1>5. /\ \A i \in DOMAIN T : T[i].chunk \in Z
      /\ \A ch \in Chunks \ Z : reg'.chunk[ch] = reg.chunk[ch]
  BY DEF OWithin, T, Z
<1>6. \A ch \in Chunks : O!Erasing(ch) => O!Erasing(ch)'
  <2> SUFFICES ASSUME NEW ch \in Chunks, NEW d \in contexts, OClearing(d, ch)
               PROVE  O!Erasing(ch)'
    BY DEF O!Erasing, OClearing
  <2>1. d \in contexts'
    BY <1>1, <1>4 DEF OClearing
  <2> QED BY <2>1 DEF O!Erasing, OClearing, O!Erases
<1>7. reg'.version = 20 /\ O!Sendable(cmd, O!Ops20)'
  BY DEF OMedia, O!Sendable, O!Ops20, O!Addresses, O!Place
<1>8. /\ (reg.chunk \in [Chunks -> OChunk])'
      /\ (reg.flash \in [Chunks -> SUBSET (0 .. PagesInChunk - 1)])'
  BY <1>2 DEF OMedia
<1>9. OContexts'
  <2>1. ONear(cmd[c.req], T)
    BY <1>5 DEF ONear, Z
  <2> QED BY <1>1, <1>2, <1>3, <1>5, <2>1, OContextsKept DEF Z
<1>10. \A e \in contexts' : OWrites(e) =>
          /\ e \in contexts /\ e # c
          /\ \A i \in DOMAIN e.need : e.need[i].chunk \in Chunks \ Z
  <2> SUFFICES ASSUME NEW e \in contexts', OWrites(e)
               PROVE  /\ e \in contexts /\ e # c
                      /\ \A i \in DOMAIN e.need : e.need[i].chunk \in Chunks \ Z
    OBVIOUS
  <2>1. e \in contexts /\ e # c
    BY <1>1, <1>4 DEF OWrites
  <2>2. e.need \in Seq(OAddress) /\ ONear(cmd[e.req], e.need)
    BY <2>1 DEF OMedia, OContexts, OWrites
  <2>3. Z \cap O!Changed(cmd[e.req]) = {}
    BY <2>1, ODisjoint DEF Z, O!Exclusive, O!Erases
  <2>4. \A i \in DOMAIN e.need : e.need[i] \in OAddress
    BY <2>2
  <2>5. \A i \in DOMAIN e.need : e.need[i].chunk \in Chunks
    BY <2>4 DEF OAddress
  <2> QED BY <2>1, <2>2, <2>3, <2>5 DEF ONear, OWrites
<1>11. OLists'
  <2> SUFFICES ASSUME NEW e \in contexts', OWrites(e), NEW i \in DOMAIN e.need
               PROVE  /\ e.need[i].page < reg'.chunk[e.need[i].chunk].wp
                      /\ e.need[i].page \notin reg.flash[e.need[i].chunk]
                      /\ \A d \in contexts' : OWrites(d) =>
                           \A j \in DOMAIN d.need : e.need[i] = d.need[j] => e = d /\ i = j
    BY DEF OLists, OWrites
  <2>1. reg'.chunk[e.need[i].chunk] = reg.chunk[e.need[i].chunk]
    BY <1>5, <1>10
  <2> QED BY <1>10, <2>1 DEF OMedia, OLists
<1>12. OFlash'
  <2> SUFFICES ASSUME NEW ch \in Chunks
               PROVE  /\ OTidy(reg.chunk[ch])'
                      /\ \A p \in reg.flash[ch] : p < x.chunk[ch].wp \/ O!Erasing(ch)'
    BY DEF OFlash
  <2>1. OTidy(x.chunk[ch])
    BY DEF OCleared
  <2>2. \A p \in reg.flash[ch] : p < reg.chunk[ch].wp \/ O!Erasing(ch)'
    BY <1>6 DEF OMedia, OFlash
  <2>3. ASSUME NEW i \in DOMAIN T, T[i].chunk = ch
        PROVE  O!Erasing(ch)'
    <3>1. n \in contexts' /\ i \in DOMAIN n.need /\ n.need[i].chunk = ch
      BY <1>1, <1>4, <2>3
    <3>2. n.stage = "job" /\ O!Erases(cmd[n.req])'
      BY <1>1 DEF O!Erases
    <3> QED BY <3>1, <3>2 DEF O!Erasing
  <2>4. x.chunk[ch] = reg.chunk[ch] \/ \E i \in DOMAIN T : T[i].chunk = ch
    BY DEF OCleared, T
  <2> QED BY <2>1, <2>2, <2>3, <2>4 DEF OTidy
<1> QED BY <1>7, <1>8, <1>9, <1>11, <1>12 DEF OMedia

\* A command enters its job.
LEMMA OJobMedia ==
  ASSUME OCommands, OMedia, ORegister, NEW c \in contexts, c.rest # << >>,
         Head(c.rest) = "job",
         O!Proceed(contexts \ {c}, c.slot, c.req, c.rest, c.need), UNCHANGED cmd
  PROVE  OMedia'
<1> DEFINE k == cmd[c.req]
           x == O!Internal(k)
<1>1. /\ contexts' = (contexts \ {c}) \cup {ONext(c, x.list)}
      /\ reg' = [reg EXCEPT !.chunk = x.chunk]
  BY OSame DEF O!Proceed, ONext
<1>2. c.req \in Requests
  BY DEF OCommands
<1>3. O!Merge(k) \in Seq(OAddress) /\ k.op \in O!Ops20
  BY <1>2, OMergeOf DEF OMedia
<1>4. /\ reg.chunk \in [Chunks -> OChunk] /\ \A ch \in Chunks : OTidy(reg.chunk[ch])
  BY DEF OMedia, OFlash
<1>5. OJob(c) /\ c.stage # "job" /\ OMay(k)
  <2>1. OJob(c) /\ c.stage # "job"
    BY ONexts
  <2> QED BY <2>1 DEF OMedia, OContexts
<1> HIDE DEF x
<1>6. reg'.version = reg.version /\ reg'.chunk = x.chunk /\ reg'.flash = reg.flash
  BY <1>1, ORegisters
<1>7. CASE k.op \in {"vectorWrite", "write"}
  <2>1. x \in OState /\ OGrown(x)
    BY <1>3, <1>4, <1>5, <1>7, OWritten DEF x
  <2>2. OWithin(O!Changed(k), x)
    BY <1>3, <1>4, <1>7, OInternalWithin DEF x
  <2> QED BY <1>1, <1>6, <1>7, <2>1, <2>2, OWriteMedia
<1>8. CASE k.op = "reset"
  <2>1. O!MayReset(O!Merge(k))
    BY <1>5, <1>8 DEF OMay
  <2>2. x \in OState /\ OCleared(x)
    BY <1>3, <1>4, <1>8, <2>1, OErased DEF x
  <2>3. OWithin(O!Changed(k), x)
    BY <1>3, <1>4, <1>8, OInternalWithin DEF x
  <2> QED BY <1>1, <1>6, <1>8, <2>2, <2>3, OResetMedia
<1>9. CASE k.op \notin {"vectorWrite", "write", "reset"}
  <2>1. ~O!Erases(k) /\ k.op \notin {"vectorWrite", "write"} /\ k.op # "reset"
    BY <1>3, <1>9 DEF O!Erases, O!Ops20
  <2>2. x \in OState /\ x.chunk = reg.chunk
    BY <1>3, <1>4, <2>1, OListed DEF x
  <2> DEFINE n == ONext(c, x.list)
  <2>3. /\ n.req = c.req /\ n.stage = "job" /\ n.rest = Tail(c.rest) /\ n.need = x.list
        /\ OPath("job", Tail(c.rest)) /\ ~OJob(n)
    BY ONexts
  <2>4. x.list \in Seq(OAddress)
    BY <2>2 DEF OState
  <2> HIDE DEF n
  <2>5. OSound(n)
    BY <1>9, <2>1, <2>3, <2>4 DEF OSound, OWrites, ONear
  <2>6. \A e \in contexts : e.stage = "job" /\ O!Erases(cmd[e.req]) => e \in contexts'
    BY <1>1, <1>5
  <2>7. \A e \in contexts' : e.req \in Requests /\ (e \in contexts \/ OSound(e))
    BY <1>1, <1>2, <2>3, <2>5 DEF n, OCommands
  <2> QED BY <1>6, <2>2, <2>6, <2>7, OKept
<1> QED BY <1>7, <1>8, <1>9

\* The flash programs the pages of a list.
LEMMA OProgramMedia ==
  ASSUME OCommands, OMedia, NEW c \in contexts, c.rest # << >>, Head(c.rest) = "nand",
         cmd[c.req].op \in {"vectorWrite", "write"}, UNCHANGED cmd,
         contexts' = (contexts \ {c}) \cup {ONext(c, c.need)},
         reg'.version = reg.version, reg'.chunk = reg.chunk,
         reg'.flash = [ch \in Chunks |-> reg.flash[ch] \cup O!Ahead(c, ch)]
  PROVE  OMedia'
<1> DEFINE n == ONext(c, c.need)
           T == c.need
<1>1. /\ n.req = c.req /\ n.stage = "nand" /\ n.rest = Tail(c.rest)
      /\ OPath("nand", Tail(c.rest)) /\ c.stage = "job" /\ (OJob(n) => OJob(c))
  BY ONexts
<1>2. T \in Seq(OAddress) /\ OWrites(c)
  BY <1>1 DEF OMedia, OContexts, OWrites
<1>3. contexts' = (contexts \ {c}) \cup {n}
  OBVIOUS
<1> HIDE DEF n, T
<1>4. \A e \in contexts' : e = n \/ (e \in contexts /\ e # c)
  BY <1>3
<1>5. \A i \in DOMAIN T : T[i] \in OAddress /\ T[i].chunk \in Chunks
                          /\ T[i].page \in 0 .. PagesInChunk - 1
                          /\ T[i].page < reg.chunk[T[i].chunk].wp
  <2>1. \A i \in DOMAIN T : T[i] \in OAddress
    BY <1>2
  <2>2. \A i \in DOMAIN T : T[i].chunk \in Chunks /\ T[i].page \in 0 .. PagesInChunk - 1
    BY <2>1 DEF OAddress
  <2> QED BY <1>2, <2>1, <2>2 DEF OMedia, OLists, T
<1>6. \A ch \in Chunks : \A p \in O!Ahead(c, ch) :
          \E i \in DOMAIN T : T[i].chunk = ch /\ T[i].page = p
  BY DEF O!Ahead, T
<1>7. reg'.version = 20 /\ O!Sendable(cmd, O!Ops20)'
  BY DEF OMedia, O!Sendable, O!Ops20, O!Addresses, O!Place
<1>8. /\ (reg.chunk \in [Chunks -> OChunk])'
      /\ (reg.flash \in [Chunks -> SUBSET (0 .. PagesInChunk - 1)])'
  BY <1>5, <1>6 DEF OMedia
<1>9. OContexts'
  BY <1>1, <1>3, OContextsKept
<1>10. OLists'
  <2> SUFFICES ASSUME NEW e \in contexts', OWrites(e), NEW i \in DOMAIN e.need
               PROVE  /\ e.need[i].page < reg.chunk[e.need[i].chunk].wp
                      /\ e.need[i].page \notin reg'.flash[e.need[i].chunk]
                      /\ \A d \in contexts' : OWrites(d) =>
                           \A j \in DOMAIN d.need : e.need[i] = d.need[j] => e = d /\ i = j
    BY DEF OLists, OWrites
  <2>1. e \in contexts /\ e # c
    BY <1>1, <1>4 DEF OWrites
  <2>2. e.need[i] \in OAddress
    <3>1. e.need \in Seq(OAddress)
      BY <2>1 DEF OMedia, OContexts, OWrites
    <3> QED BY <3>1
  <2> DEFINE a == e.need[i]
  <2>3. a.chunk \in Chunks /\ a = [chunk |-> a.chunk, page |-> a.page]
    BY <2>2 DEF OAddress
  <2>4. a.page < reg.chunk[a.chunk].wp /\ a.page \notin reg.flash[a.chunk]
    BY <2>1 DEF OMedia, OLists
  <2>5. a.page \notin O!Ahead(c, a.chunk)
    <3> SUFFICES ASSUME NEW j \in DOMAIN T, T[j].chunk = a.chunk, T[j].page = a.page
                 PROVE  FALSE
      BY <1>6, <2>3
    <3>1. T[j] = [chunk |-> T[j].chunk, page |-> T[j].page]
      BY <1>5 DEF OAddress
    <3>2. T[j] = a
      BY <2>3, <3>1
    <3> QED BY <1>2, <2>1, <3>2 DEF OMedia, OLists, T
  <2>6. ASSUME NEW d \in contexts', OWrites(d), NEW j \in DOMAIN d.need,
               e.need[i] = d.need[j]
        PROVE  e = d /\ i = j
    <3>1. d \in contexts
      BY <1>1, <1>4, <2>6 DEF OWrites
    <3> QED BY <2>1, <2>6, <3>1 DEF OMedia, OLists
  <2>7. a.page \notin reg'.flash[a.chunk]
    BY <2>3, <2>4, <2>5
  <2> QED BY <2>4, <2>6, <2>7
<1>11. OFlash'
  <2>1. \A ch \in Chunks : OTidy(reg.chunk[ch])'
    BY DEF OMedia, OFlash, OTidy
  <2>2. \A ch \in Chunks : O!Erasing(ch) => O!Erasing(ch)'
    <3> SUFFICES ASSUME NEW ch \in Chunks, NEW d \in contexts, OClearing(d, ch)
                 PROVE  O!Erasing(ch)'
      BY DEF O!Erasing, OClearing
    <3>1. d \in contexts'
      BY <1>3 DEF OClearing, O!Erases
    <3> QED BY <3>1 DEF O!Erasing, OClearing, O!Erases
  <2>3. \A ch \in Chunks : \A p \in reg'.flash[ch] :
           p < reg'.chunk[ch].wp \/ O!Erasing(ch)'
    <3> SUFFICES ASSUME NEW ch \in Chunks, NEW p \in reg'.flash[ch]
                 PROVE  p < reg.chunk[ch].wp \/ O!Erasing(ch)'
      OBVIOUS
    <3>1. CASE p \in reg.flash[ch]
      BY <2>2, <3>1 DEF OMedia, OFlash
    <3>2. CASE p \in O!Ahead(c, ch)
      BY <1>5, <1>6, <3>2
    <3> QED BY <3>1, <3>2
  <2> QED BY <2>1, <2>3 DEF OFlash
<1> QED BY <1>7, <1>8, <1>9, <1>10, <1>11 DEF OMedia

\* The flash erases the chunks of a list.
LEMMA OEraseMedia ==
  ASSUME OCommands, OMedia, NEW c \in contexts, c.rest # << >>, Head(c.rest) = "nand",
         cmd[c.req].op = "reset", UNCHANGED cmd,
         contexts' = (contexts \ {c}) \cup {ONext(c, c.need)},
         reg'.version = reg.version, reg'.chunk = reg.chunk,
         reg'.flash = [ch \in Chunks |->
                         IF \E i \in DOMAIN c.need : c.need[i].chunk = ch THEN {}
                         ELSE reg.flash[ch]]
  PROVE  OMedia'
<1> DEFINE n == ONext(c, c.need)
<1>1. /\ n.req = c.req /\ n.stage = "nand" /\ n.rest = Tail(c.rest)
      /\ OPath("nand", Tail(c.rest))
      /\ OJob(n) => OJob(c)
  BY ONexts
<1>3. contexts' = (contexts \ {c}) \cup {n}
  OBVIOUS
<1> HIDE DEF n
<1>4. /\ \A e \in contexts' : e = n \/ (e \in contexts /\ e # c)
      /\ \A e \in contexts : e = c \/ e \in contexts'
  BY <1>3
<1>7. reg'.version = 20 /\ O!Sendable(cmd, O!Ops20)'
  BY DEF OMedia, O!Sendable, O!Ops20, O!Addresses, O!Place
<1>8. /\ (reg.chunk \in [Chunks -> OChunk])'
      /\ (reg.flash \in [Chunks -> SUBSET (0 .. PagesInChunk - 1)])'
  <2>1. \A ch \in Chunks : reg'.flash[ch] \in SUBSET (0 .. PagesInChunk - 1)
    BY DEF OMedia
  <2> QED BY <2>1 DEF OMedia
<1>9. OContexts'
  BY <1>1, <1>3, OContextsKept
<1>10. OLists'
  <2> SUFFICES ASSUME NEW e \in contexts', OWrites(e), NEW i \in DOMAIN e.need
               PROVE  /\ e.need[i].page < reg.chunk[e.need[i].chunk].wp
                      /\ e.need[i].page \notin reg'.flash[e.need[i].chunk]
                      /\ \A d \in contexts' : OWrites(d) =>
                           \A j \in DOMAIN d.need : e.need[i] = d.need[j] => e = d /\ i = j
    BY DEF OLists, OWrites
  <2>1. \A d \in contexts' : OWrites(d) => d \in contexts
    BY <1>1, <1>4 DEF OWrites
  <2>2. e.need[i].chunk \in Chunks
    <3>1. e.need \in Seq(OAddress)
      BY <2>1 DEF OMedia, OContexts, OWrites
    <3>2. e.need[i] \in OAddress
      BY <3>1
    <3> QED BY <3>2 DEF OAddress
  <2> QED BY <2>1, <2>2 DEF OMedia, OLists
<1>11. OFlash'
  <2>1. \A ch \in Chunks : OTidy(reg.chunk[ch])'
    BY DEF OMedia, OFlash, OTidy
  <2>2. ASSUME NEW ch \in Chunks, NEW p \in reg'.flash[ch]
        PROVE  p < reg.chunk[ch].wp \/ O!Erasing(ch)'
    <3>1. p \in reg.flash[ch] /\ ~\E i \in DOMAIN c.need : c.need[i].chunk = ch
      BY <2>2
    <3>2. ASSUME NEW d \in contexts, OClearing(d, ch)
          PROVE  O!Erasing(ch)'
      <4>1. d \in contexts'
        BY <1>4, <3>1, <3>2 DEF OClearing
      <4> QED BY <3>2, <4>1 DEF O!Erasing, OClearing, O!Erases
    <3>3. O!Erasing(ch) => O!Erasing(ch)'
      BY <3>2 DEF O!Erasing, OClearing
    <3> QED BY <3>1, <3>3 DEF OMedia, OFlash
  <2> QED BY <2>1, <2>2 DEF OFlash
<1> QED BY <1>7, <1>8, <1>9, <1>10, <1>11 DEF OMedia

\* The flash is called.
LEMMA ONandMedia ==
  ASSUME OCommands, OMedia, ORegister, NEW c \in contexts, c.rest # << >>,
         Head(c.rest) = "nand",
         O!Proceed(contexts \ {c}, c.slot, c.req, c.rest, c.need), UNCHANGED cmd
  PROVE  OMedia'
<1> DEFINE k == cmd[c.req]
           F == O!Flash(k, c.need)
<1>1. /\ contexts' = (contexts \ {c}) \cup {ONext(c, c.need)}
      /\ reg' = [reg EXCEPT !.flash = F]
  BY OSame DEF O!Proceed, ONext, OMedia
<1>2. k.op \in O!Ops20
  BY OMergeOf DEF OMedia, OCommands
<1> HIDE DEF F
<1>3. reg'.version = reg.version /\ reg'.chunk = reg.chunk /\ reg'.flash = F
  BY <1>1, ORegisters
<1>4. CASE k.op \in {"vectorWrite", "write"}
  <2>1. F = [ch \in Chunks |-> reg.flash[ch] \cup O!Ahead(c, ch)]
    BY <1>4 DEF F, O!Flash, O!Erases, O!Programming, O!Ahead
  <2> QED BY <1>1, <1>3, <1>4, <2>1, OProgramMedia
<1>5. CASE k.op = "reset"
  <2>1. F = [ch \in Chunks |->
               IF \E i \in DOMAIN c.need : c.need[i].chunk = ch THEN {} ELSE reg.flash[ch]]
    <3>1. F = [ch \in Chunks |-> IF ch \in {c.need[i].chunk : i \in DOMAIN c.need} THEN {}
                                 ELSE reg.flash[ch]]
      BY <1>5 DEF F, O!Flash, O!Erases
    <3>2. \A ch : ch \in {c.need[i].chunk : i \in DOMAIN c.need}
                    <=> \E i \in DOMAIN c.need : c.need[i].chunk = ch
      OBVIOUS
    <3> QED BY <3>1, <3>2, Zenon
  <2> QED BY <1>1, <1>3, <1>5, <2>1, OEraseMedia
<1>6. CASE k.op \notin {"vectorWrite", "write", "reset"}
  <2>1. ~O!Erases(k) /\ k.op \notin {"vectorWrite", "write", "pageWrite"} /\ k.op # "reset"
    BY <1>2, <1>6 DEF O!Erases, O!Ops20
  <2>2. F = reg.flash
    BY <2>1 DEF F, O!Flash, O!Programming
  <2> DEFINE n == ONext(c, c.need)
  <2>3. /\ n.req = c.req /\ n.stage = "nand" /\ n.rest = Tail(c.rest)
        /\ OPath("nand", Tail(c.rest)) /\ (OJob(n) => OJob(c))
    BY ONexts
  <2> HIDE DEF n
  <2>4. OSound(n)
    BY <2>1, <2>3 DEF OSound, OWrites, OMedia, OContexts
  <2>5. \A e \in contexts : e.stage = "job" /\ O!Erases(cmd[e.req]) => e \in contexts'
    BY <1>1, <2>1
  <2>6. \A e \in contexts' : e.req \in Requests /\ (e \in contexts \/ OSound(e))
    BY <1>1, <2>3, <2>4 DEF n, OCommands
  <2> QED BY <1>3, <2>2, <2>5, <2>6, OKept
<1> QED BY <1>4, <1>5, <1>6

\* The inductive invariant of the open-channel device.
OInv == /\ OCommands /\ ORegister
        /\ reg.version = 20 => OMedia

LEMMA OInitHolds ==
  ASSUME O!OCSSDInit
  PROVE  OInv
<1>1. CommonInit
  BY OSame DEF O!OCSSDInit
<1> QED BY <1>1, OInitCommands, OInitMedia DEF OInv

LEMMA OStill ==
  ASSUME OInv, UNCHANGED <<contexts, reg, cmd>>
  PROVE  ORegister' /\ (reg'.version = 20 => OMedia')
<1>1. ORegister'
  BY DEF OInv, ORegister
<1>2. ASSUME reg'.version = 20
      PROVE  OMedia'
  <2>1. \A e \in contexts' : e.req \in Requests /\ e \in contexts
    BY DEF OInv, OCommands
  <2> QED BY <1>2, <2>1, OKept DEF OInv
<1> QED BY <1>1, <1>2

LEMMA ONextKeeps ==
  ASSUME OInv, O!OCSSDNext
  PROVE  OInv' /\ Serves
<1>1. OCommands' /\ Serves
  BY ONextCommands DEF OInv
<1>2. ASSUME NEW r \in Requests, NEW s \in Slots, O!Issue(r, s)
      PROVE  ORegister' /\ (reg'.version = 20 => OMedia')
  <2>1. UNCHANGED reg
    BY <1>2 DEF O!Issue
  <2>2. ORegister'
    BY <2>1 DEF OInv, ORegister
  <2>3. reg'.version = 20 => OMedia'
    BY <1>2, <2>1, OIssueMedia DEF OInv
  <2> QED BY <2>2, <2>3
<1>3. ASSUME NEW c \in contexts, UNCHANGED cmd,
             O!Proceed(contexts \ {c}, c.slot, c.req, c.rest, c.need)
      PROVE  ORegister' /\ (reg'.version = 20 => OMedia')
  <2>1. \/ reg' = reg
        \/ \E X : reg' = [reg EXCEPT !.chunk = X]
        \/ \E X : reg' = [reg EXCEPT !.flash = X]
    BY <1>3 DEF O!Proceed
  <2>2. ORegister' /\ reg'.version = reg.version
    <3>1. CASE reg' = reg
      BY <3>1 DEF OInv, ORegister
    <3> QED BY <2>1, <3>1, ORegisters DEF OInv
  <2>3. ASSUME reg'.version = 20
        PROVE  OMedia'
    <3>1. OMedia
      BY <2>2, <2>3 DEF OInv
    <3>2. CASE c.rest # << >> /\ Head(c.rest) = "job"
      BY <1>3, <3>1, <3>2, OJobMedia DEF OInv
    <3>3. CASE c.rest # << >> /\ Head(c.rest) = "nand"
      BY <1>3, <3>1, <3>3, ONandMedia DEF OInv
    <3>4. CASE c.rest = << >> \/ Head(c.rest) \notin {"job", "nand"}
      BY <1>3, <3>1, <3>4, OStageMedia DEF OInv
    <3> QED BY <3>2, <3>3, <3>4
  <2> QED BY <2>2, <2>3
<1>4. ASSUME NEW s \in Slots, O!Answered(s)
      PROVE  UNCHANGED <<contexts, reg, cmd>>
  BY <1>4 DEF O!Answered
<1>5. O!Over => UNCHANGED <<contexts, reg, cmd>>
  BY DEF O!Over, O!vars
<1>6. ORegister' /\ (reg'.version = 20 => OMedia')
  <2>1. CASE O!StageDone
    BY <1>3, <2>1 DEF O!StageDone
  <2> QED BY <1>2, <1>4, <1>5, <2>1, OStill DEF O!OCSSDNext
<1> QED BY <1>1, <1>6 DEF OInv

LEMMA OSameCardinality ==
  ASSUME NEW T
  PROVE  O!Cardinality(T) = Cardinality(T)
BY DEF O!Cardinality, Cardinality

\* Lists and flash agree with the descriptors.
LEMMA OAgrees ==
  ASSUME OMedia, NEW ch \in Chunks
  PROVE  /\ \A c \in O!Programs :
               /\ O!Ahead(c, ch) \cap reg.flash[ch] = {}
               /\ \A i, j \in DOMAIN c.need : c.need[i] = c.need[j] => i = j
               /\ \A d \in O!Programs \ {c} : O!Ahead(c, ch) \cap O!Ahead(d, ch) = {}
         /\ \A p \in reg.flash[ch] \cup UNION {O!Ahead(c, ch) : c \in O!Programs} :
               p < reg.chunk[ch].wp \/ O!Erasing(ch)
         /\ (reg.chunk[ch].state = "closed") <=> (reg.chunk[ch].wp = PagesInChunk)
<1>1. \A c \in O!Programs : c \in contexts /\ OWrites(c) /\ c.need \in Seq(OAddress)
  BY DEF O!Programs, O!Programming, OWrites, OMedia, OContexts
<1>2. \A c \in O!Programs : \A p \in O!Ahead(c, ch) :
          \E i \in DOMAIN c.need : c.need[i].chunk = ch /\ c.need[i].page = p
  BY DEF O!Ahead
<1>3. \A c \in O!Programs : \A i \in DOMAIN c.need :
          c.need[i] = [chunk |-> c.need[i].chunk, page |-> c.need[i].page]
  <2> SUFFICES ASSUME NEW c \in O!Programs, NEW i \in DOMAIN c.need
               PROVE  c.need[i] = [chunk |-> c.need[i].chunk, page |-> c.need[i].page]
    OBVIOUS
  <2>1. c.need[i] \in OAddress
    BY <1>1
  <2> QED BY <2>1 DEF OAddress
<1>4. ASSUME NEW c \in O!Programs
      PROVE  /\ O!Ahead(c, ch) \cap reg.flash[ch] = {}
             /\ \A i, j \in DOMAIN c.need : c.need[i] = c.need[j] => i = j
             /\ \A d \in O!Programs \ {c} : O!Ahead(c, ch) \cap O!Ahead(d, ch) = {}
             /\ \A p \in O!Ahead(c, ch) : p < reg.chunk[ch].wp
  <2>1. /\ \A i \in DOMAIN c.need :
              /\ c.need[i].page < reg.chunk[c.need[i].chunk].wp
              /\ c.need[i].page \notin reg.flash[c.need[i].chunk]
        /\ \A d \in O!Programs : \A i \in DOMAIN c.need : \A j \in DOMAIN d.need :
              c.need[i] = d.need[j] => c = d /\ i = j
    BY <1>1 DEF OMedia, OLists
  <2>2. \A p \in O!Ahead(c, ch) : p < reg.chunk[ch].wp /\ p \notin reg.flash[ch]
    BY <1>2, <2>1
  <2>3. ASSUME NEW d \in O!Programs, d # c, NEW p \in O!Ahead(c, ch), p \in O!Ahead(d, ch)
        PROVE  FALSE
    <3>1. PICK i \in DOMAIN c.need : c.need[i].chunk = ch /\ c.need[i].page = p
      BY <1>2
    <3>2. PICK j \in DOMAIN d.need : d.need[j].chunk = ch /\ d.need[j].page = p
      BY <1>2, <2>3
    <3>3. c.need[i] = d.need[j]
      BY <1>3, <3>1, <3>2
    <3> QED BY <2>1, <2>3, <3>3
  <2> QED BY <2>1, <2>2, <2>3
<1>5. \A p \in reg.flash[ch] : p < reg.chunk[ch].wp \/ O!Erasing(ch)
  BY DEF OMedia, OFlash
<1>6. (reg.chunk[ch].state = "closed") <=> (reg.chunk[ch].wp = PagesInChunk)
  BY DEF OMedia, OFlash, OTidy
<1> QED BY <1>4, <1>5, <1>6

\* The invariant counts the contexts of a command.
LEMMA OAccounts ==
  ASSUME OInv
  PROVE  O!Accounted
<1>1. ASSUME NEW s \in O!Outstanding
      PROVE  O!Cardinality({c \in contexts : c.req = held[s]})
               = (IF status[held[s]] = "issued" THEN 1 ELSE 0)
  <2> DEFINE Z == {c \in contexts : c.req = held[s]}
  <2>1. s \in Slots /\ held[s] # 0
    BY DEF O!Outstanding
  <2>2. /\ \A x, y \in Z : x = y
        /\ Z # {} <=> status[held[s]] = "issued"
    BY <2>1 DEF OInv, OCommands, Has
  <2> HIDE DEF Z
  <2>3. /\ Z = {} => Cardinality(Z) = 0
        /\ Z # {} => Cardinality(Z) = 1
    BY <2>2, AtMostOne
  <2>4. O!Cardinality(Z) = IF status[held[s]] = "issued" THEN 1 ELSE 0
    BY <2>2, <2>3, OSameCardinality
  <2> QED BY <2>4 DEF Z
<1>2. reg.version = 20 => OMedia
  BY DEF OInv
<1> QED BY <1>1, <1>2, OAgrees DEF O!Accounted

-----------------------------------------------------------------------------
(* The adapters *)

\* Each interface keeps its own invariant.
AdapterInv ==
    /\ interface \in {"sata", "ufs", "ocssd"}
    /\ interface = "sata" => SInv
    /\ interface = "ufs" => UInv
    /\ interface = "ocssd" => OInv

\* No step changes the interface.
LEMMA OneInterface ==
  ASSUME Next
  PROVE  UNCHANGED interface
<1>1. S!SATANext => UNCHANGED interface
  BY DEF S!SATANext, S!Comreset, S!Thaw, S!Start, S!Stop, S!Issue, S!HandleRequest,
         S!DeviceStep, S!FrameWritten, S!Interrupt, S!Collect
<1>2. U!UFSNext => UNCHANGED interface
  BY DEF U!UFSNext, U!LinkStartup, U!UIC, U!Issue, U!HandleRequest, U!DeviceStep,
         U!Completion, U!Interrupt, U!WriteIS, U!Collect
<1>3. O!OCSSDNext => UNCHANGED interface
  BY DEF O!OCSSDNext, O!Issue, O!StageDone, O!Answered, O!Over, O!vars
<1> QED BY <1>1, <1>2, <1>3 DEF Next

LEMMA AdapterInit ==
  ASSUME Init
  PROVE  AdapterInv /\ Service!Init
<1>1. CommonInit
  BY SSame, USame, OSame DEF Init, S!SATAInit, U!UFSInit, O!OCSSDInit
<1>2. Service!Init
  BY <1>1 DEF CommonInit, Service!Init
<1>3. AdapterInv
  BY SInitHolds, UInitHolds, OInitHolds DEF Init, AdapterInv
<1> QED BY <1>2, <1>3

LEMMA AdapterNext ==
  ASSUME AdapterInv, Next
  PROVE  AdapterInv' /\ Serves
<1>1. UNCHANGED interface
  BY OneInterface
<1>2. CASE interface = "sata"
  <2>1. SInv' /\ Serves
    BY <1>2, SNextKeeps DEF AdapterInv, Next
  <2> QED BY <1>1, <1>2, <2>1 DEF AdapterInv
<1>3. CASE interface = "ufs"
  <2>1. UInv' /\ Serves
    BY <1>3, UNextKeeps DEF AdapterInv, Next
  <2> QED BY <1>1, <1>3, <2>1 DEF AdapterInv
<1>4. CASE interface = "ocssd"
  <2>1. OInv' /\ Serves
    BY <1>4, ONextKeeps DEF AdapterInv, Next
  <2> QED BY <1>1, <1>4, <2>1 DEF AdapterInv
<1> QED BY <1>2, <1>3, <1>4 DEF AdapterInv

\* Nothing happens.
LEMMA AdapterStutters ==
  ASSUME AdapterInv, UNCHANGED vars
  PROVE  AdapterInv' /\ Serves
<1>0. UNCHANGED <<interface, boot, events, requestQueue, contexts, responses, reg,
                  line, irq, held, cmd, status>>
  BY DEF vars
<1>1. SInv => SInv'
  <2> SUFFICES ASSUME SInv
               PROVE  SInv'
    OBVIOUS
  <2>1. SFrames' = SFrames
    BY <1>0 DEF SFrames
  <2>2. SCore(requestQueue', contexts', SFrames', reg'.ci, reg'.sact, held', status')
    BY <1>0, <2>1 DEF SInv, SCommands
  <2>3. SCommands'
    BY <1>0, <2>2, SPrimes
  <2>4. SBoot' /\ SCalls'
    BY <1>0, <2>1 DEF SInv, SBoot, SCalls
  <2>5. cmd' \in [Requests -> S!Kinds] /\ reg' \in SRegisters /\ responses' \in Seq(SFrame)
    BY <1>0 DEF SInv
  <2> QED BY <2>3, <2>4, <2>5 DEF SInv
<1>2. UInv => UInv'
  BY <1>0 DEF UInv, UCalls, UCommands, UType, Holding, UQueue, UContexts, UContext,
              UIssued, UResponses, UDoorbell, Has
<1>3. OInv => OInv'
  <2> SUFFICES ASSUME OInv
               PROVE  OInv'
    OBVIOUS
  <2>1. OCommands'
    BY <1>0 DEF OInv, OCommands, Holding, Has, O!Erases
  <2> QED BY <1>0, <2>1, OStill DEF OInv
<1> QED BY <1>0, <1>1, <1>2, <1>3 DEF AdapterInv, Serves

LEMMA AdapterStep ==
  ASSUME AdapterInv, [Next]_vars
  PROVE  AdapterInv' /\ [Service!Next]_status
<1>1. AdapterInv' /\ Serves
  BY AdapterNext, AdapterStutters
<1> QED BY <1>1 DEF Serves

\* The inductive invariant of the three devices.
THEOREM AdapterInvariant == Spec => []AdapterInv
<1>1. Init => AdapterInv
  BY AdapterInit
<1>2. AdapterInv /\ [Next]_vars => AdapterInv'
  BY AdapterStep
<1> QED BY <1>1, <1>2, PTL DEF Spec

\* No slot is forgotten, served twice or reported free too early
\* (processCommand, interruptCleared; processUTPTransfer, completion), and no
\* page of a chunk is programmed twice (writeInternal, eraseInternal).  Of the
\* open-channel host it supposes what MaySend says: no other command under way
\* changes the chunks of a reset, or of a write that is longer than its result;
\* a reset of several chunks and such a write name nothing that is refused.
THEOREM AccountedHolds == Spec => []Accounted
<1>1. AdapterInv => Accounted
  BY SAccounts, UAccounts, OAccounts DEF AdapterInv, Accounted
<1> QED BY <1>1, AdapterInvariant, PTL

\* No frame, completion or status bit waits without anything under way that
\* announces it (submitFIS, handleResponse; completion, writeRegister).
THEOREM AwakeHolds == Spec => []Awake
<1>1. AdapterInv => Awake
  BY SAwakes, UAwakes DEF AdapterInv, Awake
<1> QED BY <1>1, AdapterInvariant, PTL

\* Every step of a device is a step of the service or none: a request is
\* executed once, and reported only then.
THEOREM ServiceRefinement == Spec => Service!Init /\ [][Service!Next]_status
<1>1. Init => Service!Init
  BY AdapterInit
<1>2. AdapterInv /\ [Next]_vars => [Service!Next]_status
  BY AdapterStep
<1> QED BY <1>1, <1>2, AdapterInvariant, PTL DEF Spec

=============================================================================
