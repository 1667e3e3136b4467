---------------------------- MODULE MCNVMeAdmin ----------------------------
(***************************************************************************)
(* The instance of NVMeAdmin that TLC checks.                              *)
(***************************************************************************)
EXTENDS NVMeAdmin

MCLBASizes == <<1, 2>>
MCPriorities == <<High, Medium>>

QueueOps == {"deleteSQ", "createSQ", "deleteCQ", "createCQ"}
NamespaceOps == {"create", "delete", "attach", "detach"}

\* A queue pair is taken down and built up again; queues and namespaces come
\* and go around a request; requests are aborted and coalesced.
MCPlans ==
    {[ops |-> QueueOps, admin |-> 4, io |-> 0],
     [ops |-> QueueOps \cup {"shutdown"}, admin |-> 2, io |-> 1],
     [ops |-> NamespaceOps, admin |-> 4, io |-> 0],
     [ops |-> NamespaceOps \cup {"log"}, admin |-> 2, io |-> 1],
     [ops |-> {"abort", "features"}, admin |-> 1, io |-> 2]}
=============================================================================
