------------------------------- MODULE MCPAL -------------------------------
(***************************************************************************)
(* The instance of PAL that TLC checks.  The ticks keep the order of the   *)
(* default NAND timing: a read sends a short command and a page back, a    *)
(* write a page and a short status, an erase two short ones.               *)
(***************************************************************************)
EXTENDS PAL

MCTiming ==
    [dma0 |-> [read |-> 1, write |-> 3, erase |-> 1],
     dma1 |-> [read |-> 3, write |-> 1, erase |-> 1],
     mem |-> [read |-> [lsb |-> 2, csb |-> 2, msb |-> 3],
              write |-> [lsb |-> 5, csb |-> 6, msb |-> 7]],
     erase |-> 9]

Device(size, blocks, alloc, super, multi, type, pages, commands, ticks) ==
    [size |-> size, blocks |-> blocks, alloc |-> alloc, super |-> super,
     multi |-> multi, type |-> type, pages |-> pages, commands |-> commands, ticks |-> ticks]

Sizes(c, w, d, p) == [k \in Dimensions |->
    CASE k = "C" -> c [] k = "W" -> w [] k = "D" -> d [] k = "P" -> p]

\* Two dies that share a channel, alone and as one superblock.
Shared(super, pages, commands) ==
    Device(Sizes(1, 1, 2, 1), 1, <<"C", "W", "D", "P">>, super, FALSE, "MLC",
           pages, commands, 3)

\* Every order of the dimensions and every extent of a superblock.
Layouts == {Device(Sizes(3, 1, 2, 2), 2, alloc, super, multi, "TLC", {8}, 0, 0) :
               alloc \in SetToSeqs(Dimensions), super \in SUBSET Dimensions,
               multi \in BOOLEAN}

MCDevices == {Shared({}, {0}, 3), Shared({"D"}, {0, 1}, 2)} \cup Layouts
=============================================================================
