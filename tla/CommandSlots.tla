---------------------------- MODULE CommandSlots ----------------------------
(***************************************************************************)
(* What the SATA host bus adapter (hil/sata) and the UFS host controller   *)
(* (hil/ufs) have in common: the host puts a command in a slot and sets    *)
(* its bit in a register; the slots go through a queue that two events     *)
(* poll; each command is fetched by DMA and worked on in stages.  Modules  *)
(* SATA and UFS say what each of them makes of it; module OpenChannel uses *)
(* the slots and stages only.  A configuration has one of the three.  The  *)
(* host is a driver outside the repository.                                *)
(***************************************************************************)
EXTENDS Integers, Sequences, FiniteSets

CONSTANTS
    Slots,           \* command slots in use, from 0
    Requests,        \* requests of the host, from 1
    Workloads,       \* for each interface, the runs considered: the command
                     \* of each request
    MaxRequest       \* SATA_MAX_REQUEST_COUNT, UFS_MAX_REQUEST_COUNT

ASSUME SlotsAssumption ==
    /\ Slots \subseteq 0 .. 31 /\ 0 \in Slots
    /\ Requests \subseteq Nat \ {0}
    /\ MaxRequest \in Nat \ {0}

VARIABLES
    interface,       \* "sata", "ufs" or "ocssd"
    boot,            \* how far the driver has brought the interface up
    events,          \* events scheduled: "work", "request", "completion"
    requestQueue,    \* lRequestQueue
    contexts,        \* commands between DMA, firmware and flash
    responses,       \* lResponseQueue
    reg,             \* the registers, and what only one interface has
    line,            \* the interrupt is raised
    irq,             \* where the driver's interrupt handler is
    held,            \* the request the driver has put in each slot, or 0
    cmd,             \* the command of each request of this run
    status           \* "idle", "issued", "executed" or "answered"

vars == <<interface, boot, events, requestQueue, contexts, responses, reg,
          line, irq, held, cmd, status>>

CommonInit ==
    /\ boot = "off"
    /\ events = {}
    /\ requestQueue = << >>
    /\ contexts = {}
    /\ responses = << >>
    /\ line = FALSE
    /\ irq = "idle"
    /\ held = [s \in Slots |-> 0]
    /\ status = [r \in Requests |-> "idle"]

Outstanding == {s \in Slots : held[s] # 0}
Count(P(_), seq) == Cardinality({i \in DOMAIN seq : P(seq[i])})

\* The driver puts the next request in a free slot.
Put(r, s) ==
    /\ status[r] = "idle" /\ \A q \in Requests : q < r => status[q] # "idle"
    /\ held[s] = 0
    /\ held' = [held EXCEPT ![s] = r]
    /\ status' = [status EXCEPT ![r] = "issued"]

\* ... and takes back the slots that are done.
TakeBack(done) ==
    /\ status' = [r \in Requests |->
          IF \E s \in done : held[s] = r THEN "answered" ELSE status[r]]
    /\ held' = [s \in Slots |-> IF s \in done THEN 0 ELSE held[s]]

\* A command at a stage, with the stages that follow it; "fetch" waits for
\* the DMA reads in need.
Context(s, r, stage, rest, need) ==
    [slot |-> s, req |-> r, stage |-> stage, rest |-> rest, need |-> need]

Enter(s, r, path) == Context(s, r, Head(path), Tail(path), {})

\* handleRequest: one slot is taken, and the next poll is armed.
TakeRequest(e, counter) ==
    /\ e \in events
    /\ requestQueue' = IF requestQueue = << >> THEN << >> ELSE Tail(requestQueue)
    /\ contexts' = contexts \cup
          (IF requestQueue = << >> THEN {}
           ELSE LET s == Head(requestQueue)
                IN  {Context(s, held[s], "header", << >>, {})})
    /\ events' = (events \ {e}) \cup
          {IF requestQueue' # << >> /\ counter < MaxRequest THEN "request"
           ELSE "work"}

\* Where the one unfinished command of a request can be.
Places(r, s, waits(_)) ==
    Count(LAMBDA x : x = s, requestQueue)
      + Cardinality({c \in contexts : c.req = r /\ waits(c)})
=============================================================================
