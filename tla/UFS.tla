-------------------------------- MODULE UFS ---------------------------------
(***************************************************************************)
(* The UFS host controller and device (hil/ufs/host.cc, device.cc).  A     *)
(* transfer request is fetched, answered by a response UPIU and by its     *)
(* descriptor written back, and completed by an event that clears its      *)
(* doorbell bit.  Interrupt enable bits are kept but never looked at.      *)
(*                                                                         *)
(* A completion is queued with the tick of its arrival, so all of them are *)
(* due when the event runs.  Commands of a type that processCommand leaves *)
(* unanswered (native UFS, device management as a command UPIU) and task   *)
(* management, which panics, are not sent by the driver.                   *)
(***************************************************************************)
EXTENDS CommandSlots, SequencesExt

CONSTANT MaxUIC      \* UIC commands the driver sends after link startup

UFSInit ==
    /\ CommonInit
    /\ cmd \in Workloads["ufs"]
    /\ reg = [utrldbr |-> {}, pending |-> {}, is |-> {}, seen |-> {},
              counter |-> 0, uic |-> 0]

Kinds == {"nop", "query", "inquiry", "modeSense", "capacity", "luns", "status",
          "verify", "flush", "read", "write"}

\* The stages of a command before it is answered: "nand" is the layer below
\* (module HIL), "data" the transfer by the PRDT, "cpu" the firmware.
ProcessNOP == << >>
ProcessQueryCommand == <<"cpu">>
Inquiry == <<"data", "cpu">>
Parameters == <<"data", "cpu">>
ModeSense == Parameters                 \* of an unknown page: JustResponse
ReadCapacity == Parameters
ReportLUNs == Parameters
JustResponse == <<"cpu">>               \* no data, or not implemented
Verify == <<"cpu">>
SynchronizeCache == <<"nand", "cpu">>   \* with IMMED: JustResponse
Read == <<"nand", "data", "cpu">>
Write == <<"data", "nand", "cpu">>

Work(k) == [nop |-> ProcessNOP, query |-> ProcessQueryCommand,
            inquiry |-> Inquiry, modeSense |-> ModeSense,
            capacity |-> ReadCapacity, luns |-> ReportLUNs,
            status |-> JustResponse, verify |-> Verify,
            flush |-> SynchronizeCache, read |-> Read, write |-> Write][k]

\* Mutant: the descriptor goes out before the work is done.
DescriptorFirst(k) == <<"response", "descriptor">> \o Work(k)

\* ... then the response UPIU and the descriptor are written.
Path(k) == Work(k) \o <<"response", "descriptor">>

HasPRDT(k) == \E i \in DOMAIN Work(k) : Work(k)[i] = "data"

-----------------------------------------------------------------------------
(* The controller *)

\* Mutant: every bit that is set is queued, not only the new ones.
AllBits(doorbell) == doorbell
NewBits(doorbell) == doorbell \ reg.pending

\* The doorbell has 32 bits.
Enqueue(bits) ==
    FoldLeft(LAMBDA q, i : IF i - 1 \in bits THEN Append(q, i - 1) ELSE q,
             requestQueue, [i \in 1 .. 32 |-> i])

ProcessUTPTransfer(doorbell) ==
    /\ requestQueue' = Enqueue(NewBits(doorbell))
    /\ reg' = [reg EXCEPT !.utrldbr = doorbell, !.pending = @ \cup doorbell]

\* requestCounter counts for ever: after MaxRequest requests only the work
\* event is left.  (Counted up to there.)
HandleRequest ==
    LET counter == IF requestQueue = << >> \/ reg.counter = MaxRequest
                   THEN reg.counter ELSE reg.counter + 1
    IN  /\ \E e \in {"work", "request"} : TakeRequest(e, counter)
        /\ reg' = [reg EXCEPT !.counter = counter]
        /\ UNCHANGED <<interface, boot, responses, line, irq, held, cmd, status>>

Replace(c, d) == contexts' = (contexts \ {c}) \cup d

DescriptorRead(c) ==
    /\ c.stage = "header"
    /\ Replace(c, {Context(c.slot, c.req, "fetch", << >>,
                     {"request"} \cup (IF HasPRDT(cmd[c.req]) THEN {"prdt"} ELSE {}))})
    /\ UNCHANGED <<responses, events, status>>

\* The request UPIU and the PRDT are read side by side; doRequest.
Fetched(c, part) ==
    /\ c.stage = "fetch" /\ part \in c.need
    /\ Replace(c, {IF c.need = {part} THEN Enter(c.slot, c.req, Path(cmd[c.req]))
                   ELSE [c EXCEPT !.need = @ \ {part}]})
    /\ UNCHANGED <<responses, events, status>>

Advance(c) ==
    /\ Replace(c, IF c.rest = << >> THEN {} ELSE {Enter(c.slot, c.req, c.rest)})
    /\ status' = IF c.rest = << >> THEN [status EXCEPT ![c.req] = "executed"]
                 ELSE status

\* The layer below has served read, write or flush.
HILDone(c) == c.stage = "nand" /\ Advance(c) /\ UNCHANGED <<responses, events>>

\* prdtRead or prdtWrite has moved the data.
PRDTDone(c) == c.stage = "data" /\ Advance(c) /\ UNCHANGED <<responses, events>>

\* The firmware has run, or the response UPIU is in host memory.
DoWrite(c) ==
    /\ c.stage \in {"cpu", "response"}
    /\ Advance(c)
    /\ UNCHANGED <<responses, events>>

\* A completion is queued when the descriptor is in host memory.
DescriptorWritten(c) ==
    /\ c.stage = "descriptor"
    /\ Advance(c)
    /\ responses' = Append(responses, c.slot)
    /\ events' = events \cup {"completion"}

DeviceStep ==
    /\ \E c \in contexts :
          \/ DescriptorRead(c)
          \/ \E part \in {"request", "prdt"} : Fetched(c, part)
          \/ HILDone(c) \/ PRDTDone(c) \/ DoWrite(c) \/ DescriptorWritten(c)
    /\ UNCHANGED <<interface, boot, requestQueue, reg, line, irq, held, cmd>>

Completion ==
    /\ "completion" \in events
    /\ LET done == {responses[i] : i \in DOMAIN responses}
       IN  reg' = [reg EXCEPT !.utrldbr = @ \ done, !.pending = @ \ done,
                              !.is = IF done = {} THEN @ ELSE @ \cup {"utp"}]
    /\ line' = (line \/ responses # << >>)
    /\ responses' = << >>
    /\ events' = events \ {"completion"}
    /\ UNCHANGED <<interface, boot, requestQueue, contexts, irq, held, cmd, status>>

\* processUIC is done at once; link startup starts the polling.
ProcessUIC ==
    /\ reg' = [reg EXCEPT !.is = @ \cup {"uic"}, !.uic = @ + 1]
    /\ line' = TRUE

-----------------------------------------------------------------------------
(* The driver *)

LinkStartup ==
    /\ boot = "off" /\ boot' = "linking"
    /\ ProcessUIC
    /\ events' = events \cup {"work"}
    /\ UNCHANGED <<interface, requestQueue, contexts, responses, irq, held, cmd, status>>

\* DME_GET and the like; one at a time.
UIC ==
    /\ boot = "ready" /\ reg.uic <= MaxUIC
    /\ "uic" \notin reg.is \cup reg.seen
    /\ ProcessUIC
    /\ UNCHANGED <<interface, boot, events, requestQueue, contexts, responses,
                   irq, held, cmd, status>>

Issue(r, s) ==
    /\ boot = "ready"
    /\ Put(r, s)
    /\ ProcessUTPTransfer(reg.utrldbr \cup {s})
    /\ UNCHANGED <<interface, boot, events, contexts, responses, line, irq, cmd>>

Interrupt ==
    /\ line /\ irq = "idle" /\ irq' = "seen"
    /\ reg' = [reg EXCEPT !.seen = reg.is]
    /\ UNCHANGED <<interface, boot, events, requestQueue, contexts, responses,
                   line, held, cmd, status>>

\* A write to IS clears the bits written, and the interrupt whatever is left.
WriteIS ==
    /\ irq = "seen" /\ irq' = "collect"
    /\ reg' = [reg EXCEPT !.is = @ \ reg.seen]
    /\ line' = FALSE
    /\ UNCHANGED <<interface, boot, events, requestQueue, contexts, responses,
                   held, cmd, status>>

\* The driver takes what the doorbell says is done, and looks at IS again.
Collect ==
    /\ irq = "collect"
    /\ boot' = IF "uic" \in reg.seen THEN "ready" ELSE boot
    /\ TakeBack(IF "utp" \in reg.seen THEN Outstanding \ reg.utrldbr ELSE {})
    /\ reg' = [reg EXCEPT !.seen = reg.is]
    /\ irq' = IF reg.is = {} THEN "idle" ELSE "seen"
    /\ UNCHANGED <<interface, events, requestQueue, contexts, responses, line, cmd>>

UFSNext ==
    \/ LinkStartup \/ UIC
    \/ \E r \in Requests, s \in Slots : Issue(r, s)
    \/ HandleRequest \/ DeviceStep \/ Completion
    \/ Interrupt \/ WriteIS \/ Collect

-----------------------------------------------------------------------------
(* Properties *)

\* The command of a slot is in one place until its completion is queued, and
\* its doorbell bit is set until the completion event ran: no ring of the
\* doorbell queues a slot twice or overlooks one.
Accounted ==
    /\ reg.pending = reg.utrldbr
    /\ \A s \in Outstanding :
          LET r == held[s]
              queued == Count(LAMBDA x : x = s, responses)
          IN  /\ Places(r, s, LAMBDA c : TRUE) = (IF status[r] = "issued" THEN 1 ELSE 0)
              /\ (s \in reg.utrldbr) <=> (status[r] = "issued" \/ queued = 1)
    /\ reg.utrldbr \subseteq Outstanding

\* Whoever has something to do is going to be called: completions have their
\* event, a set status bit has raised the interrupt or is seen by the handler
\* that runs, although clearing one bit lowers the interrupt for all; one
\* event polls the requests.
Awake ==
    /\ responses # << >> => "completion" \in events
    /\ reg.is # {} => line \/ irq # "idle"
    /\ boot # "off" => Cardinality(events \ {"completion"}) = 1
=============================================================================
