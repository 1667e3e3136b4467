----------------------------- MODULE OpenChannel ----------------------------
(***************************************************************************)
(* The open-channel subsystems of the NVMe controller (hil/nvme/ocssd.cc), *)
(* version 1.2, where the host names flash pages and is trusted, and 2.0,  *)
(* where each chunk has a state and a write pointer.  A command of 2.0     *)
(* updates the descriptors of its chunks when its list is known and the    *)
(* flash when a core has run its job; commands of several queues overlap.  *)
(*                                                                         *)
(* Queues and answers are those of the NVMe controller (NVMePath), the     *)
(* completion queue with its event is that of module HIL: here a finished  *)
(* operation calls back at any later moment.  The sizes are powers of two, *)
(* as the address masks require.  No code makes a chunk offline.  Not sent *)
(* by the host: trim with deallocation, which takes one kind of context    *)
(* for another.                                                            *)
(***************************************************************************)
EXTENDS CommandSlots, SequencesExt

CONSTANTS
    Chunks,          \* chunks, from 0
    PagesInChunk,    \* param.page
    WriteSize,       \* logical blocks in a page
    ResultBits       \* 64: bits of dword0 and reserved of a completion

\* The operations of version 1.2 and of 2.0.
Ops12 == {"pageWrite", "pageRead", "blockErase", "identification",
          "setBadBlocks", "getBadBlocks"}
Ops20 == {"vectorWrite", "vectorRead", "reset", "read", "write", "trim",
          "geometry", "log"}

OCSSDInit ==
    /\ CommonInit
    /\ cmd \in Workloads["ocssd"]
    /\ reg = [version |-> IF \E r \in Requests : cmd[r].op \in Ops12 THEN 12 ELSE 20,
              chunk |-> [c \in Chunks |-> [state |-> "free", wp |-> 0]],
              flash |-> [c \in Chunks |-> {}]]

-----------------------------------------------------------------------------
(* Addresses *)

\* parseLBA; the page is what the write size makes of the sector.
Place(lba) == [chunk |-> lba \div (PagesInChunk * WriteSize),
               page |-> (lba % (PagesInChunk * WriteSize)) \div WriteSize]

\* Scalar commands hand over {slba, nlb}, which convertUnit takes for the
\* first block and the one behind the last.
Addresses(k) ==
    IF k.op \in {"read", "write"}
    THEN [i \in 1 .. k.lbas[2] - k.lbas[1] |-> Place(k.lbas[1] + i - 1)]
    ELSE [i \in DOMAIN k.lbas |-> Place(k.lbas[i])]

\* The commands of a run name addresses of the device; those of 1.2 and of
\* 2.0 are not mixed.
Sendable(commands, ops) ==
    \A r \in Requests :
        /\ commands[r].op \in ops /\ commands[r].lbas \in Seq(Nat)
        /\ commands[r].op \in {"read", "write"} => Len(commands[r].lbas) = 2
        /\ \A i \in DOMAIN Addresses(commands[r]) :
              Addresses(commands[r])[i].chunk \in Chunks

Erases(k) == k.op \in {"reset", "blockErase"}
Programming(k) == k.op \in {"vectorWrite", "write"}

\* mergeList: an address in the place of the one before it is left out.
MergeList(addresses, block) ==
    FoldLeft(LAMBDA list, a :
                IF list # << >> /\ (IF block THEN Last(list).chunk = a.chunk
                                    ELSE Last(list) = a)
                THEN list ELSE Append(list, a),
             << >>, addresses)

\* convertUnit: the pages or chunks a command names.
Merge(k) == MergeList(Addresses(k), Erases(k))

-----------------------------------------------------------------------------
(* Chunk descriptors *)

\* Behind an error all entries are refused.  "Remove invalid LBAs" takes them
\* off the list, as far as the result has a bit for them: idx is shifted out
\* of its 64 bits.  x.n: the entries before this one.
Refused(x, list, a) == IF x.n < ResultBits THEN list ELSE Append(list, a)

WriteEntry(x, a) ==
    LET d == x.chunk[a.chunk]
    IN  IF x.err \/ d.state = "closed" \/ (d.state = "open" /\ d.wp > a.page)
        THEN [x EXCEPT !.err = TRUE, !.n = @ + 1, !.list = Refused(x, @, a)]
        ELSE [x EXCEPT
                !.chunk[a.chunk] =
                    [state |-> IF a.page = PagesInChunk - 1 THEN "closed" ELSE "open",
                     wp |-> a.page + 1],
                !.n = @ + 1,
                !.list = Append(@, a)]

\* ... here in what is erased, not in the descriptor.
EraseEntry(x, a) ==
    LET ok == x.chunk[a.chunk].state = "closed"
    IN  [x EXCEPT !.err = @ \/ ~ok,
                  !.chunk[a.chunk] = IF ok THEN [state |-> "free", wp |-> 0] ELSE @,
                  !.n = @ + 1,
                  !.list = IF x.err \/ ~ok THEN Refused(x, @, a) ELSE Append(@, a)]

ReadEntry(x, a) == [x EXCEPT !.list = Append(@, a)]

\* readInternal, writeInternal, eraseInternal up to their job: the chunks
\* after it and the list for the flash.
Internal(k) ==
    FoldLeft(LAMBDA x, a : CASE Programming(k) -> WriteEntry(x, a)
                             [] Erases(k) -> EraseEntry(x, a)
                             [] OTHER -> ReadEntry(x, a),
             [chunk |-> reg.chunk, err |-> FALSE, n |-> 0, list |-> << >>], Merge(k))

-----------------------------------------------------------------------------
(* Commands *)

\* The stages of a command: "prp" reads the list of its data pages, "cpu"
\* runs a core, "lbas" reads the list of addresses, "data" moves the data,
\* "job" runs the job that calls the flash, "nand" is the flash.
List(k) == IF Len(k.lbas) > 1 THEN <<"lbas">> ELSE << >>
VectorChunkWrite(k) == <<"prp", "cpu">> \o List(k) \o <<"job", "nand", "data">>
VectorChunkRead(k) == <<"prp", "cpu">> \o List(k) \o <<"job", "nand", "data">>
VectorChunkReset(k) ==
    (IF Len(k.lbas) > 1 THEN <<"lbas", "cpu">> ELSE << >>) \o <<"job", "nand">>
Read(k) == <<"prp", "cpu", "job", "nand", "data">>
Write(k) == <<"prp", "cpu", "data", "job", "nand">>
\* Without deallocation a trim is ignored.
DatasetManagement(k) == << >>
Geometry(k) == <<"prp", "data">>
GetLogPage(k) == <<"prp", "data">>
PhysicalPageWrite(k) == <<"prp", "cpu">> \o List(k) \o <<"data", "nand">>
PhysicalPageRead(k) == <<"prp", "cpu">> \o List(k) \o <<"nand", "data">>
PhysicalBlockErase(k) ==
    IF Len(k.lbas) > 1 THEN <<"prp", "cpu", "lbas", "nand">> ELSE <<"cpu", "nand">>
DeviceIdentification(k) == <<"prp", "data">>
SetBadBlockTable(k) == <<"prp", "data">>
GetBadBlockTable(k) == <<"prp", "data">>

\* submitCommand of 1.2 and of 2.0, after a core has handed over the command.
Path12(k) ==
    CASE k.op = "pageWrite" -> PhysicalPageWrite(k)
      [] k.op = "pageRead" -> PhysicalPageRead(k)
      [] k.op = "blockErase" -> PhysicalBlockErase(k)
      [] k.op = "identification" -> DeviceIdentification(k)
      [] k.op = "setBadBlocks" -> SetBadBlockTable(k)
      [] k.op = "getBadBlocks" -> GetBadBlockTable(k)
Path20(k) ==
    CASE k.op = "vectorWrite" -> VectorChunkWrite(k)
      [] k.op = "vectorRead" -> VectorChunkRead(k)
      [] k.op = "reset" -> VectorChunkReset(k)
      [] k.op = "read" -> Read(k)
      [] k.op = "write" -> Write(k)
      [] k.op = "trim" -> DatasetManagement(k)
      [] k.op = "geometry" -> Geometry(k)
      [] k.op = "log" -> GetLogPage(k)

\* The flash programs or erases what is on the list.
Flash(k, list) ==
    LET pages(c) == {list[i].page : i \in {j \in DOMAIN list : list[j].chunk = c}}
        touched == {list[i].chunk : i \in DOMAIN list}
    IN  IF Erases(k) THEN [c \in Chunks |-> IF c \in touched THEN {} ELSE reg.flash[c]]
        ELSE IF Programming(k) \/ k.op = "pageWrite"
        THEN [c \in Chunks |-> reg.flash[c] \cup pages(c)]
        ELSE reg.flash

\* A command enters the next stage of its path: before "job" the descriptors
\* change, "nand" begins with the calls of PAL.  rest = << >>: it is done.
Proceed(others, s, r, path, list) ==
    LET k == cmd[r]
        stage == IF path = << >> THEN "done" ELSE Head(path)
        todo == CASE stage = "job" -> Internal(k).list
                  [] stage = "nand" /\ reg.version = 12 -> Merge(k)
                  [] OTHER -> list
    IN  /\ reg' = CASE stage = "job" -> [reg EXCEPT !.chunk = Internal(k).chunk]
                    [] stage = "nand" -> [reg EXCEPT !.flash = Flash(k, todo)]
                    [] OTHER -> reg
        /\ contexts' = others \cup
              (IF path = << >> THEN {} ELSE {Context(s, r, stage, Tail(path), todo)})

StageDone ==
    \E c \in contexts :
        /\ Proceed(contexts \ {c}, c.slot, c.req, c.rest, c.need)
        /\ status' = IF c.rest = << >> THEN [status EXCEPT ![c.req] = "executed"]
                     ELSE status
        /\ UNCHANGED <<interface, boot, events, requestQueue, responses, line,
                       irq, held, cmd>>

Submitted(s, r) ==
    Context(s, r, "submit", IF reg.version = 12 THEN Path12(cmd[r]) ELSE Path20(cmd[r]),
            << >>)

-----------------------------------------------------------------------------
(* The host *)

\* A reset of several chunks names each of them once, and closed ones only:
\* behind one that is refused eraseInternal sets the others free but leaves
\* them out of what it erases.
MayReset(list) ==
    Len(list) > 1 =>
        /\ \A i \in DOMAIN list : reg.chunk[list[i].chunk].state = "closed"
        /\ \A i, j \in DOMAIN list : list[i].chunk = list[j].chunk => i = j

\* A write with more pages than its result has bits (a scalar one: vector
\* commands name 64 blocks at most) has pages above the write pointers, in
\* order: once a page is refused, those without a bit are programmed all the
\* same, over what is there.
Overlong(k) == Programming(k) /\ Len(Merge(k)) > ResultBits
MayWrite(list) ==
    /\ \A i \in DOMAIN list : reg.chunk[list[i].chunk].wp <= list[i].page
    /\ \A i, j \in DOMAIN list :
          i < j /\ list[i].chunk = list[j].chunk => list[i].page < list[j].page

\* The chunks a command changes.
Changed(k) == IF Erases(k) \/ Programming(k) \/ k.op = "pageWrite"
              THEN {a.chunk : a \in ToSet(Merge(k))} ELSE {}

\* The host lets commands overlap, repeated and out of order as they may be;
\* but what a reset, or such a long write, changes is not changed by another
\* command under way.
Exclusive(k) == Erases(k) \/ Overlong(k)
Apart(k, l) == Exclusive(k) \/ Exclusive(l) => Changed(k) \cap Changed(l) = {}
MaySend(k) ==
    /\ \A s \in Outstanding : Apart(k, cmd[held[s]])
    /\ k.op = "reset" => MayReset(Merge(k))
    /\ Overlong(k) => MayWrite(Merge(k))

Issue(r, s) ==
    /\ Put(r, s)
    /\ MaySend(cmd[r])
    /\ contexts' = contexts \cup {Submitted(s, r)}
    /\ UNCHANGED <<interface, boot, events, requestQueue, responses, reg, line,
                   irq, cmd>>

Answered(s) ==
    /\ held[s] # 0 /\ status[held[s]] = "executed"
    /\ TakeBack({s})
    /\ UNCHANGED <<interface, boot, events, requestQueue, contexts, responses,
                   reg, line, irq, cmd>>

Over == (\A r \in Requests : status[r] = "answered") /\ UNCHANGED vars

OCSSDNext ==
    \/ \E r \in Requests, s \in Slots : Issue(r, s)
    \/ StageDone
    \/ \E s \in Slots : Answered(s)
    \/ Over

-----------------------------------------------------------------------------
(* Properties *)

Programs == {c \in contexts : c.stage = "job" /\ Programming(cmd[c.req])}
Ahead(c, ch) == {c.need[i].page : i \in {j \in DOMAIN c.need : c.need[j].chunk = ch}}
Erasing(ch) == \E c \in contexts : /\ c.stage = "job" /\ Erases(cmd[c.req])
                                   /\ \E i \in DOMAIN c.need : c.need[i].chunk = ch

\* A command is in one place until it is done.  In version 2.0 the descriptors
\* say what the flash is or is about to be: no page is on two lists or on a
\* list again, however writes overlap; all of them are below the write pointer
\* of their chunk; a free chunk is erased.
Accounted ==
    /\ \A s \in Outstanding :
          Cardinality({c \in contexts : c.req = held[s]})
            = (IF status[held[s]] = "issued" THEN 1 ELSE 0)
    /\ reg.version = 20 => \A ch \in Chunks :
          /\ \A c \in Programs :
                /\ Ahead(c, ch) \cap reg.flash[ch] = {}
                /\ \A i, j \in DOMAIN c.need : c.need[i] = c.need[j] => i = j
                /\ \A d \in Programs \ {c} : Ahead(c, ch) \cap Ahead(d, ch) = {}
          /\ \A p \in reg.flash[ch] \cup UNION {Ahead(c, ch) : c \in Programs} :
                p < reg.chunk[ch].wp \/ Erasing(ch)
          /\ (reg.chunk[ch].state = "closed") <=> (reg.chunk[ch].wp = PagesInChunk)
=============================================================================
