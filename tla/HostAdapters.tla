---------------------------- MODULE HostAdapters ----------------------------
(***************************************************************************)
(* The devices of the library that this repository's simulator has no      *)
(* driver for, each under a host that does what they expect: SATA, UFS and *)
(* the open-channel SSD.                                                   *)
(***************************************************************************)
EXTENDS CommandSlots

CONSTANTS MaxStops, MaxUIC, Chunks, PagesInChunk, WriteSize, ResultBits

S == INSTANCE SATA
U == INSTANCE UFS
O == INSTANCE OpenChannel

ASSUME AdapterAssumption ==
    /\ PagesInChunk \in Nat \ {0} /\ WriteSize \in Nat \ {0}
    /\ ResultBits \in Nat \ {0}
    /\ Workloads["sata"] \subseteq [Requests -> S!Kinds]
    /\ Workloads["ufs"] \subseteq [Requests -> U!Kinds]
    /\ \A k \in Workloads["ocssd"] : O!Sendable(k, O!Ops12) \/ O!Sendable(k, O!Ops20)

Init == \/ interface = "sata" /\ S!SATAInit
        \/ interface = "ufs" /\ U!UFSInit
        \/ interface = "ocssd" /\ O!OCSSDInit

Next == \/ interface = "sata" /\ S!SATANext
        \/ interface = "ufs" /\ U!UFSNext
        \/ interface = "ocssd" /\ O!OCSSDNext

\* Events run at a finite tick, transfers and the layers below end, and the
\* driver goes through its bring-up, issues its requests and runs its handler
\* when it is interrupted.  It need never stop a port or send a UIC command.
Fairness ==
    /\ \A r \in Requests :
          /\ WF_vars(interface = "sata" /\ \E s \in Slots : S!Issue(r, s))
          /\ WF_vars(interface = "ufs" /\ \E s \in Slots : U!Issue(r, s))
          /\ WF_vars(interface = "ocssd" /\ \E s \in Slots : O!Issue(r, s))
    /\ WF_vars(interface = "sata" /\ (S!Comreset \/ S!Thaw \/ S!Start))
    /\ WF_vars(interface = "sata" /\ (S!HandleRequest \/ S!DeviceStep))
    /\ WF_vars(interface = "sata" /\ S!FrameWritten)
    /\ WF_vars(interface = "sata" /\ (S!Interrupt \/ S!Collect))
    /\ WF_vars(interface = "ufs" /\ U!LinkStartup)
    /\ WF_vars(interface = "ufs" /\ (U!HandleRequest \/ U!DeviceStep))
    /\ WF_vars(interface = "ufs" /\ U!Completion)
    /\ WF_vars(interface = "ufs" /\ (U!Interrupt \/ U!WriteIS \/ U!Collect))
    /\ WF_vars(interface = "ocssd" /\ O!StageDone)
    /\ WF_vars(interface = "ocssd" /\ \E s \in Slots : O!Answered(s))

Spec == Init /\ [][Next]_vars /\ Fairness

-----------------------------------------------------------------------------
(* Properties *)

\* No slot is forgotten, served twice or reported free too early
\* (SATA!Accounted: processCommand, interruptCleared; UFS!Accounted:
\* processUTPTransfer, completion), and no page of a chunk is programmed
\* twice (OpenChannel!Accounted: writeInternal, eraseInternal).
Accounted == /\ interface = "sata" => S!Accounted
             /\ interface = "ufs" => U!Accounted
             /\ interface = "ocssd" => O!Accounted

\* No frame, completion or status bit waits without anything under way that
\* announces it (SATA!Awake: submitFIS, handleResponse; UFS!Awake:
\* completion, writeRegister).
Awake == /\ interface = "sata" => S!Awake
         /\ interface = "ufs" => U!Awake

\* All of them execute every request of the driver once, report it only
\* when it was executed, and report every one eventually.
Service == INSTANCE CommandService
ImplementsService == Service!Spec
=============================================================================
