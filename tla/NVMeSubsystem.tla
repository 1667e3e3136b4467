--------------------------- MODULE NVMeSubsystem ---------------------------
(***************************************************************************)
(* The NVMe subsystem (src/simplessd/hil/nvme/subsystem.cc) and its        *)
(* namespaces (src/simplessd/hil/nvme/namespace.cc): what a command does   *)
(* between handleRequest and submit of the controller.                     *)
(*                                                                         *)
(* A command that waits for a core, a DMA transfer or the HIL is a job     *)
(* with the stage it waits in.  An operator takes x = [c, s], the records  *)
(* of the controller and of the subsystem, and returns both after a call.  *)
(* A status is reduced to success or error, and payload is not modelled.   *)
(***************************************************************************)
EXTENDS NVMeController

CONSTANTS
    TotalLogicalPages,
    LogicalPageSize,
    LBASizes,        \* lbaSize: the size of a block for each format
    MaxQueueEntries, \* cfgdata.maxQueueEntry
    DefaultNamespaces, \* NVME_ENABLE_DEFAULT_NAMESPACE
    DefaultFormat,   \* index of NVME_LBA_SIZE in LBASizes
    Word             \* 2^64, the modulus of uint64_t

ASSUME SubsystemAssumption ==
    /\ {TotalLogicalPages, LogicalPageSize, MaxQueueEntries} \subseteq Nat \ {0}
    /\ LBASizes \in Seq(Nat \ {0})
    /\ DefaultNamespaces \in Nat /\ DefaultFormat \in DOMAIN LBASizes
    /\ Word \in Nat /\ Word > TotalLogicalPages

AllNamespaces == -1      \* NSID_ALL
NSIDLowest == 1

-----------------------------------------------------------------------------
(* Namespaces: createNamespace, destroyNamespace, convertUnit *)

Pages(n) == n.slpn .. n.slpn + n.nlp - 1

\* The pages a namespace of size blocks gets, in the code's order of
\* divisions.
RequestedPages(size, fmt) == (size \div LogicalPageSize) * LBASizes[fmt]

\* The first gap between the ranges in use that is long enough.
Fits(ns, at, pages) ==
    /\ at + pages <= TotalLogicalPages
    /\ \A i \in DOMAIN ns : Pages(ns[i]) \cap (at .. at + pages - 1) = {}

Gaps(ns, pages) ==
    {at \in {0} \cup {ns[i].slpn + ns[i].nlp : i \in DOMAIN ns} :
        Fits(ns, at, pages)}

CanCreateNamespace(s, size, fmt) ==
    LET pages == RequestedPages(size, fmt) IN
    /\ pages <= (TotalLogicalPages - s.allocated) % Word
    /\ pages > 0
    /\ Gaps(s.ns, pages) # {}

CreateNamespace(s, nsid, size, fmt) ==
    LET pages == RequestedPages(size, fmt)
        n == [nsid |-> nsid, slpn |-> Min(Gaps(s.ns, pages)), nlp |-> pages,
              size |-> size, lba |-> LBASizes[fmt], attached |-> FALSE]
    IN  [s EXCEPT !.allocated = (@ + pages) % Word,
                  !.ns = SortSeq(Append(@, n), LAMBDA a, b : a.nsid < b.nsid)]

\* The index of a namespace, 0 if there is none.
Find(s, nsid) ==
    LET found == {i \in DOMAIN s.ns : s.ns[i].nsid = nsid}
    IN  IF found = {} THEN 0 ELSE Min(found)

\* Mutant: the pages stay allocated.
DestroyUncounted(s, i) == [s EXCEPT !.ns = RemoveAt(@, i)]

DestroyNamespace(s, i) ==
    [s EXCEPT !.allocated = (@ - (s.ns[i].size * s.ns[i].lba)
                                    \div LogicalPageSize) % Word,
              !.ns = RemoveAt(@, i)]

\* convertUnit: the pages that nlb blocks from slba on are in.
ConvertUnit(n, slba, nlb) ==
    IF n.lba <= LogicalPageSize
    THEN LET ratio == LogicalPageSize \div n.lba
             first == n.slpn + slba \div ratio
             count == (nlb + (slba % ratio) + ratio - 1) \div ratio
         IN  first .. first + count - 1
    ELSE LET ratio == n.lba \div LogicalPageSize
             first == n.slpn + slba * ratio
         IN  first .. first + nlb * ratio - 1

\* init: the namespaces that exist from the start are attached.
AttachedFrom(s) == [s EXCEPT !.ns = [i \in DOMAIN @ |->
                                        [@[i] EXCEPT !.attached = TRUE]]]

SubsystemInit ==
    LET blocks == (TotalLogicalPages * LogicalPageSize)
                     \div LBASizes[DefaultFormat]
        empty  == [ns |-> << >>, allocated |-> 0, jobs |-> {},
                   freedUsed |-> FALSE]
    IN  AttachedFrom(
          FoldLeft(LAMBDA s, i : CreateNamespace(s, NSIDLowest + i - 1,
                                       blocks \div DefaultNamespaces,
                                       DefaultFormat),
                   empty, [i \in 1 .. DefaultNamespaces |-> i]))

-----------------------------------------------------------------------------
(* Jobs and answers *)

\* The command w waits; nsid and parts are what it still has to use or do.
Wait(x, w, stage, nsid, parts) ==
    [x EXCEPT !.s.jobs = @ \cup {[w |-> w, stage |-> stage, nsid |-> nsid,
                                  parts |-> parts]}]

Drop(x, j) == [x EXCEPT !.s.jobs = @ \ {j}]

Reply(x, w, ok) == [x EXCEPT !.c = Submit(@, Response(w, ok))]

\* handleRequest hands the command to a core.
Accept(x, w) == Wait(x, w, "submit", 0, {})

-----------------------------------------------------------------------------
(* Commands: Subsystem::submitCommand and the admin commands *)

\* A command for a namespace; one that names all goes to the first there is.
Target(s, nsid) == IF nsid # AllNamespaces THEN Find(s, nsid)
                   ELSE Min({Len(s.ns), 1})
Dispatch(x, w) ==
    IF Target(x.s, w.nsid) = 0 THEN Reply(x, w, FALSE)
    ELSE Wait(x, w, "namespace", w.nsid, {})

\* createCQueue and createSQueue answer when the list of the queue's pages
\* is built; a refused creation builds none and is not answered.
CreateCQ(x, w) ==
    IF w.arg[2] > MaxQueueEntries THEN Reply(x, w, FALSE)
    ELSE IF ~CanCreateCQueue(x.c, w.arg[1]) THEN x
    ELSE Wait([x EXCEPT !.c = CreateCQueue(@, w.arg[1], w.arg[2], w.arg[3],
                                           TRUE)],
              w, "reply", 0, {})

CreateSQ(x, w) ==
    IF w.arg[2] > MaxQueueEntries THEN Reply(x, w, FALSE)
    ELSE IF ~CanCreateSQueue(x.c, w.arg[1], w.arg[3]) THEN x
    ELSE Wait([x EXCEPT !.c = CreateSQueue(@, w.arg[1], w.arg[2], w.arg[3],
                                           w.arg[4])],
              w, "reply", 0, {})

DeleteSQ(x, w) ==
    LET can == CanDeleteSQueue(x.c, w.arg[1]) IN
    Reply(IF can THEN [x EXCEPT !.c = DeleteSQueue(@, w.arg[1])] ELSE x, w, can)

DeleteCQ(x, w) ==
    LET can == CanDeleteCQueue(x.c, w.arg[1]) IN
    Reply(IF can THEN [x EXCEPT !.c = DeleteCQueue(@, w.arg[1])] ELSE x, w, can)

AbortCommand(x, w) ==
    Reply([x EXCEPT !.c = Abort(@, w.arg[1], w.arg[2])], w, TRUE)

SetFeatures(x, w) ==
    Reply(IF w.arg[1] = "coalescing"
          THEN [x EXCEPT !.c = SetCoalescing(@, w.arg[2], w.arg[3])] ELSE x,
          w, TRUE)

\* The health log of one namespace is answered here and by the namespace.
GetLogPage(x, w) ==
    CASE w.arg[1] # "health"     -> Reply(x, w, TRUE)
      [] w.arg[1] = "health" /\ w.nsid = AllNamespaces ->
            Wait(x, w, "reply", 0, {})
      [] w.arg[1] = "health" /\ w.nsid # AllNamespaces ->
            Dispatch(Reply(x, w, TRUE), w)

\* namespaceManagement, create: the identifier is chosen before the
\* description is read.
FreeNSID(s) == Min({i \in 1 .. Len(s.ns) + 1 :
                      \/ i = Len(s.ns) + 1
                      \/ s.ns[i].nsid # NSIDLowest + i - 1})
NamespaceCreate(x, w) ==
    Wait(x, w, "create", NSIDLowest + FreeNSID(x.s) - 1, {})

NamespaceDelete(x, w) ==
    LET i == Find(x.s, w.nsid) IN
    Reply(IF i = 0 THEN x ELSE [x EXCEPT !.s = DestroyNamespace(@, i)], w,
          i # 0)

\* formatNVM: the namespace gets the size of the whole device.
FormatNVM(x, w) ==
    LET i == Find(x.s, w.nsid)
        lba == LBASizes[w.arg[1]]
    IN  IF i = 0 THEN Reply(x, w, FALSE)
        ELSE Wait([x EXCEPT !.s.ns[i].lba = lba,
                            !.s.ns[i].size =
                               (TotalLogicalPages * LogicalPageSize) \div lba],
                  w, "reply", 0, {})

\* identify writes a page of data, except a list from the last identifier on.
Identify(x, w) ==
    IF w.arg[1] = "list" /\ w.nsid = AllNamespaces THEN Reply(x, w, FALSE)
    ELSE Wait(x, w, "reply", 0, {})

\* submitCommand, run by the core
SubmitCommand(y, j) ==
    LET w == j.w
        x == Drop(y, j)
    IN  IF w.sq # 0 THEN Dispatch(x, w)
        ELSE CASE w.op = "createCQ"   -> CreateCQ(x, w)
               [] w.op = "createSQ"   -> CreateSQ(x, w)
               [] w.op = "deleteCQ"   -> DeleteCQ(x, w)
               [] w.op = "deleteSQ"   -> DeleteSQ(x, w)
               [] w.op = "identify"   -> Identify(x, w)
               [] w.op = "abort"      -> AbortCommand(x, w)
               [] w.op = "features"   -> SetFeatures(x, w)
               [] w.op = "log"        -> GetLogPage(x, w)
               [] w.op = "create"     -> NamespaceCreate(x, w)
               [] w.op = "delete"     -> NamespaceDelete(x, w)
               [] w.op \in {"attach", "detach"} -> Wait(x, w, "attach", w.nsid, {})
               [] w.op = "format"     -> FormatNVM(x, w)
               [] OTHER               -> Dispatch(x, w)

\* A transfer of an admin command ends and its callback answers.
AdminDone(y, j) ==
    LET w == j.w
        x == Drop(y, j)
        i == Find(x.s, j.nsid)
    IN  CASE j.stage = "reply" -> Reply(x, w, TRUE)
          [] j.stage = "create" ->
               LET can == CanCreateNamespace(x.s, w.arg[1], w.arg[2]) IN
               Reply(IF can
                     THEN [x EXCEPT !.s = CreateNamespace(@, j.nsid, w.arg[1],
                                                          w.arg[2])]
                     ELSE x, w, can)
          [] j.stage = "attach" ->
               LET ok == IF i = 0 THEN w.op = "detach"
                         ELSE x.s.ns[i].attached = (w.op = "detach")
               IN  Reply([x EXCEPT !.s.ns = [k \in DOMAIN @ |->
                                      IF @[k].nsid # j.nsid THEN @[k]
                                      ELSE [@[k] EXCEPT
                                              !.attached = (w.op = "attach")]]],
                         w, ok)

-----------------------------------------------------------------------------
(* Namespace::submitCommand and the NVM commands *)

\* The job of the core calls the namespace through a pointer, or the first of
\* the list as it is by then.
NamespaceSubmit(y, j) ==
    LET w == j.w
        x == Drop(y, j)
        i == Target(x.s, j.nsid)
    IN  CASE i = 0 -> [x EXCEPT !.s.freedUsed = TRUE]
          [] i # 0 /\ w.sq = 0 -> IF w.op = "log"
                                  THEN Wait(x, w, "reply", 0, {})
                                  ELSE Reply(x, w, FALSE)
          [] i # 0 /\ w.sq # 0 ->
               IF ~x.s.ns[i].attached \/ w.op = "none" THEN Reply(x, w, FALSE)
               ELSE IF w.op = "flush"
               THEN Wait(x, w, "data", j.nsid, {"hil"})
               ELSE Wait(x, w, "list", j.nsid, {})

\* The list of the host's pages is complete.  A trim reads its range before
\* it is sent to the HIL; the others transfer data meanwhile.
ListDone(y, j) ==
    Wait(Drop(y, j), j.w, "data", j.nsid,
         IF j.w.op = "trim" THEN {"range"} ELSE {"dma", "hil"})

\* One of the parts of a command is done; the last one answers.
PartDone(y, j, part) ==
    LET x == Drop(y, j) IN
    IF part = "range" THEN Wait(x, j.w, "data", j.nsid, {"hil"})
    ELSE IF j.parts = {part} THEN Reply(x, j.w, TRUE)
    ELSE Wait(x, j.w, "data", j.nsid, j.parts \ {part})
=============================================================================
