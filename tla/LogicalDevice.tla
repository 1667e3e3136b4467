---------------------------- MODULE LogicalDevice ----------------------------
(***************************************************************************)
(* What the flash translation layer promises to the layers above it        *)
(* (AbstractFTL in src/simplessd/ftl/abstract_ftl.hh): which units of      *)
(* which logical pages hold data.  A write adds exactly the units it       *)
(* names, a trim or a format drops whole logical pages, and nothing else   *)
(* - no collection, no wear, no retired block - changes the set.  The      *)
(* device may go down at any time; then nothing changes any more.          *)
(***************************************************************************)
CONSTANTS LPNs, Units

VARIABLES
    mapped,   \* set of <<lpn, unit>> that hold data
    up        \* the process is running

dvars == <<mapped, up>>

DInit == mapped = {} /\ up = TRUE

\* The process may end right after the write was applied.
Put(l, F) ==
    /\ up
    /\ mapped' = mapped \cup ({l} \X F)
    /\ up' \in BOOLEAN

Drop(L) ==
    /\ up
    /\ mapped' = mapped \ (L \X Units)
    /\ UNCHANGED up

Fail == up /\ up' = FALSE /\ UNCHANGED mapped

DNext ==
    \/ \E l \in LPNs, F \in SUBSET Units : Put(l, F)
    \/ \E L \in SUBSET LPNs : Drop(L)
    \/ Fail

DSpec == DInit /\ [][DNext]_dvars

=============================================================================
