-------------------------------- MODULE SATA --------------------------------
(***************************************************************************)
(* The AHCI host bus adapter and the SATA device (hil/sata/hba.cc,         *)
(* device.cc).  A command ends with a frame (FIS) that the adapter writes  *)
(* to host memory; queued commands (NCQ) also get a register frame when    *)
(* they are accepted and a DMA setup frame before their data.  The adapter *)
(* retires the oldest frame when the driver clears the interrupt status.   *)
(*                                                                         *)
(* submitFISPending is never set, so every new frame makes the adapter     *)
(* write the oldest one again.  PxIS is left out: the bits of a frame are  *)
(* set when it has been written, and any write to PxIS clears all of them  *)
(* (it keeps no more than 0x037FFF50, and they are bits 0, 2, 3, 5 and     *)
(* 30), so interruptCleared always finds the bits of the oldest frame      *)
(* clear.  The driver keeps interrupts enabled once it has cleared the     *)
(* status after COMRESET.                                                  *)
(***************************************************************************)
EXTENDS CommandSlots

CONSTANT MaxStops    \* how often the driver stops an idle port

SATAInit ==
    /\ CommonInit
    /\ cmd \in Workloads["sata"]
    /\ reg = [started |-> FALSE, ci |-> {}, sact |-> {}, writes |-> 0,
              stops |-> 0]

Kinds == {"read", "write", "readQueued", "writeQueued", "flush", "identify",
          "feature", "verify", "invalid"}
Queued(k) == k \in {"readQueued", "writeQueued"}

\* The stages of a command once it is dispatched: "nand" is the layer below
\* (module HIL), "data" the transfer by the PRDT.
ReadDMA == <<"nand", "data">>
WriteDMA == <<"data", "nand">>
ReadNCQ == <<"nand", "data">>
WriteNCQ == <<"data", "nand">>
FlushCache == <<"nand">>
IdentifyDevice == <<"data">>
SetMode == << >>
ReadVerify == << >>
Invalid == << >>

\* The opcodes of submitCommand.
Path(k) == [read |-> ReadDMA, write |-> WriteDMA, readQueued |-> ReadNCQ,
            writeQueued |-> WriteNCQ, flush |-> FlushCache,
            identify |-> IdentifyDevice, feature |-> SetMode,
            verify |-> ReadVerify, invalid |-> Invalid][k]

HasPRDT(k) == \E i \in DOMAIN Path(k) : Path(k)[i] = "data"

\* A frame: the PxCI bit it clears, and the queued write whose data it lets
\* start.  Only register frames are given a slot; the others keep slot 0.
Frame(slot, starts) == [slot |-> slot, starts |-> starts]
DMASetup == Frame(0, 0)
DeviceBits == Frame(0, 0)
Signature == Frame(0, 0)

-----------------------------------------------------------------------------
(* Frames to the host *)

System == [reg |-> reg, contexts |-> contexts, responses |-> responses]
Becomes(x) == /\ reg' = x.reg
              /\ contexts' = x.contexts
              /\ responses' = x.responses

\* The oldest frame is written.
HandleResponse(x) ==
    [x EXCEPT !.reg.writes = @ + 1]

\* A Set Device Bits frame resets PxSACT before it is written.
SubmitFIS(x, frame, tags) ==
    HandleResponse([x EXCEPT !.responses = Append(@, frame),
                             !.reg.sact = @ \ tags])

\* A frame has reached host memory.
FrameWritten ==
    /\ reg.writes > 0
    /\ reg' = [reg EXCEPT !.writes = @ - 1]
    /\ line' = TRUE
    /\ UNCHANGED <<interface, boot, events, requestQueue, contexts, responses,
                   irq, held, cmd, status>>

\* _writeDMASetup, called when the register frame of a queued write retires.
WriteDMASetup(x, s, r) ==
    IF r = 0 THEN x
    ELSE SubmitFIS([x EXCEPT !.contexts = @ \cup {Enter(s, r, Path(cmd[r]))}],
                   DMASetup, {})

\* Mutant: the frames that wait are written when the next one is submitted.
WriteNextLate(x) == x

WriteNext(x) == IF x.responses = << >> THEN x ELSE HandleResponse(x)

\* interruptCleared.
Retire(x) ==
    LET frame == Head(x.responses)
    IN  WriteDMASetup(WriteNext([x EXCEPT !.reg.ci = @ \ {frame.slot},
                                          !.responses = Tail(@)]),
                      frame.slot, frame.starts)

\* The driver writes PxIS.
ClearStatus ==
    /\ Becomes(IF responses = << >> THEN System ELSE Retire(System))
    /\ line' = (line /\ responses = << >>)

-----------------------------------------------------------------------------
(* Commands *)

WithContext(x, c) == [x EXCEPT !.contexts = @ \cup {c}]
WithoutContext(c) == [System EXCEPT !.contexts = @ \ {c}]

\* The command is done and answered.
Answer(x, c) ==
    IF Queued(cmd[c.req]) THEN SubmitFIS(x, DeviceBits, {c.slot})
    ELSE SubmitFIS(x, Frame(c.slot, 0), {})

\* submitCommand, doRequest: a queued read starts at once, a queued write
\* when its register frame has been retired.
Accept(x, c) == WithContext(x, Context(c.slot, c.req, "accept", << >>, {}))

Dispatch(c) ==
    LET k == cmd[c.req]
        x == WithoutContext(c)
        run == WithContext(x, Enter(c.slot, c.req, Path(k)))
    IN  /\ Becomes(CASE Path(k) = << >> -> Answer(x, c)
                     [] k = "writeQueued" -> Accept(x, c)
                     [] k = "readQueued" -> Accept(run, c)
                     [] OTHER -> run)
        /\ status' = IF Path(k) = << >> THEN [status EXCEPT ![c.req] = "executed"]
                     ELSE status

HeaderRead(c) ==
    /\ c.stage = "header"
    /\ Becomes(WithContext(WithoutContext(c),
          Context(c.slot, c.req, "fetch", << >>,
                  {"table"} \cup (IF HasPRDT(cmd[c.req]) THEN {"prdt"} ELSE {}))))
    /\ UNCHANGED status

\* The command table and the PRDT are read side by side.
Fetched(c, part) ==
    /\ c.stage = "fetch" /\ part \in c.need
    /\ IF c.need = {part} THEN Dispatch(c)
       ELSE /\ Becomes(WithContext(WithoutContext(c), [c EXCEPT !.need = @ \ {part}]))
            /\ UNCHANGED status

Accepted(c) ==
    /\ c.stage = "accept"
    /\ Becomes(SubmitFIS(WithoutContext(c),
          Frame(c.slot, IF cmd[c.req] = "writeQueued" THEN c.req ELSE 0), {}))
    /\ UNCHANGED status

\* The next stage; _readDMASetup announces the data of a queued read.
NextStage(c) ==
    LET x == WithContext(WithoutContext(c), Enter(c.slot, c.req, c.rest))
    IN  IF cmd[c.req] = "readQueued" THEN SubmitFIS(x, DMASetup, {}) ELSE x

Advance(c) ==
    IF c.rest = << >>
    THEN /\ Becomes(Answer(WithoutContext(c), c))
         /\ status' = [status EXCEPT ![c.req] = "executed"]
    ELSE /\ Becomes(NextStage(c))
         /\ UNCHANGED status

\* The layer below has served read, write or flush.
HILDone(c) == c.stage = "nand" /\ Advance(c)

\* prdtRead or prdtWrite has moved the data.
PRDTDone(c) == c.stage = "data" /\ Advance(c)

DeviceStep ==
    /\ \E c \in contexts :
          \/ HeaderRead(c)
          \/ \E part \in {"table", "prdt"} : Fetched(c, part)
          \/ Accepted(c)
          \/ HILDone(c)
          \/ PRDTDone(c)
    /\ UNCHANGED <<interface, boot, events, requestQueue, line, irq, held, cmd>>

\* requestCounter stays 0.
HandleRequest ==
    /\ \E e \in {"work", "request"} : TakeRequest(e, 0)
    /\ UNCHANGED <<interface, boot, responses, reg, line, irq, held, cmd, status>>

-----------------------------------------------------------------------------
(* The driver *)

\* PxSCTL: COMRESET makes the device send its signature (submitSignal).
Comreset ==
    /\ boot = "off" /\ boot' = "reset"
    /\ Becomes(HandleResponse([System EXCEPT
          !.responses = Append(@, Signature)]))
    /\ UNCHANGED <<interface, events, requestQueue, line, irq, held, cmd, status>>

Thaw ==
    /\ boot = "reset" /\ boot' = "thawed"
    /\ ClearStatus
    /\ UNCHANGED <<interface, events, requestQueue, irq, held, cmd, status>>

\* PxCMD.ST.
Start ==
    /\ boot = "thawed" /\ ~reg.started
    /\ reg' = [reg EXCEPT !.started = TRUE]
    /\ events' = IF events = {} THEN {"work"} ELSE events
    /\ UNCHANGED <<interface, boot, requestQueue, contexts, responses, line,
                   irq, held, cmd, status>>

Stop ==
    /\ reg.started /\ Outstanding = {} /\ irq = "idle"
    /\ reg.stops < MaxStops
    /\ reg' = [reg EXCEPT !.started = FALSE, !.stops = @ + 1]
    /\ events' = events \ {"work"}
    /\ UNCHANGED <<interface, boot, requestQueue, contexts, responses, line,
                   irq, held, cmd, status>>

\* processCommand queues the bits that PxCI did not have.
ProcessCommand(old, bits) == bits \ old

\* The driver does not mix queued and other commands, as ATA demands, and
\* gives slot 0 to other commands only if it never sent a queued one: the
\* frames of queued commands clear PxCI bit 0 whenever they retire.
MayUse(s, k) ==
    /\ \A q \in Outstanding : Queued(cmd[held[q]]) = Queued(k)
    /\ (s = 0 /\ ~Queued(k)) =>
          \A r \in Requests : status[r] # "idle" => ~Queued(cmd[r])

Issue(r, s) ==
    /\ reg.started
    /\ MayUse(s, cmd[r])
    /\ Put(r, s)
    /\ reg' = [reg EXCEPT !.ci = @ \cup {s},
                          !.sact = IF Queued(cmd[r]) THEN @ \cup {s} ELSE @]
    /\ requestQueue' = requestQueue
          \o (IF s \in ProcessCommand(reg.ci, {s}) THEN <<s>> ELSE << >>)
    /\ UNCHANGED <<interface, boot, events, contexts, responses, line, irq, cmd>>

Interrupt ==
    /\ boot = "thawed" /\ line /\ irq = "idle"
    /\ ClearStatus
    /\ irq' = "collect"
    /\ UNCHANGED <<interface, boot, events, requestQueue, held, cmd, status>>

Collect ==
    /\ irq = "collect" /\ irq' = "idle"
    /\ TakeBack(Outstanding \ (reg.ci \cup reg.sact))
    /\ UNCHANGED <<interface, boot, events, requestQueue, contexts, responses,
                   reg, line, cmd>>

SATANext ==
    \/ Comreset \/ Thaw \/ Start \/ Stop
    \/ \E r \in Requests, s \in Slots : Issue(r, s)
    \/ HandleRequest \/ DeviceStep \/ FrameWritten
    \/ Interrupt \/ Collect

-----------------------------------------------------------------------------
(* Properties *)

\* The command of a slot is in one place until it is done; its bits stay set
\* until then, and PxCI of a command that is not queued until its own frame
\* retires; a free slot has no bit set, so that the next command in it is
\* not taken for one that is already issued.
Accounted ==
    /\ \A s \in Outstanding :
          LET r == held[s]
              k == cmd[r]
              places == Places(r, s, LAMBDA c : c.stage # "accept" \/ k = "writeQueued")
                          + Count(LAMBDA f : f.starts = r, responses)
          IN  /\ places = (IF status[r] = "issued" THEN 1 ELSE 0)
              /\ Queued(k) => (s \in reg.sact <=> status[r] = "issued")
              /\ ~Queued(k) =>
                    (s \in reg.ci <=> places + Count(LAMBDA f : f.slot = s, responses) = 1)
    /\ \A s \in Slots \ Outstanding :
          s \notin reg.ci \cup reg.sact /\ ~\E i \in DOMAIN requestQueue : requestQueue[i] = s

\* Whoever has something to do is going to be called: a frame that waits is
\* being written or interrupts, although the adapter writes frames twice and
\* retires some before they are written; exactly one event polls a started
\* port.
Awake ==
    /\ responses # << >> => reg.writes > 0 \/ line
    /\ reg.started => Cardinality(events) = 1
=============================================================================
