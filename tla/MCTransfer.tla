----------------------------- MODULE MCTransfer -----------------------------
(***************************************************************************)
(* Data pointers for TLC.  A page has 4 units, a page of a PRP list two    *)
(* entries, the FIFO moves 2 units at a time and holds 4.                  *)
(***************************************************************************)
EXTENDS Transfer

With(j, dir) == j @@ [dir |-> dir, offset |-> 0]

\* The page that the last entry of a full list names holds data; nobody
\* follows it.
Behind(lists) == {Last(lists[p]) : p \in DOMAIN lists} \ ({0} \cup DOMAIN lists)
Readable(j) == [j EXCEPT !.lists = @ @@ [p \in Behind(@) |-> <<0>>]]

\* The driver's commands: one page, two, and as many as one page of list
\* names, not all of them full.
FromDriver == {With(Readable(HostPRP(n)), d) : n \in {3, 7, 11}, d \in {"read", "write"}}

\* A host that does not align its buffer: the rest of a page and a page, or
\* the rest of a page and a list.
Unaligned == {
    With([via |-> "prp", size |-> 3, prp1 |-> 6, prp2 |-> 12, lists |-> << >>,
          where |-> 0 :> 6 @@ 1 :> 7 @@ 2 :> 12], "write"),
    With([via |-> "prp", size |-> 5, prp1 |-> 7, prp2 |-> 12,
          lists |-> 12 :> <<16, 0>>,
          where |-> 0 :> 7 @@ [k \in 1 .. 4 |-> 15 + k]], "read")}

\* An entry of a queue: a slot of one unit in a ring of three.
Slots == {[via |-> "ring", dir |-> d, prp1 |-> 4, ring |-> 3, offset |-> 1,
           size |-> 1, where |-> 0 :> 5] : d \in {"read", "write"}}

\* A host that uses SGLs: a block that is larger than the FIFO, and two
\* segments with a part that is skipped.
Block(type, at, size) == [type |-> type, at |-> at, size |-> size]
Lists == {With([via |-> "sgl", size |-> 7, first |-> Block("data", 8, 7),
                where |-> [k \in 0 .. 6 |-> 8 + k]], d) : d \in {"read", "write"}}
         \cup {With([via |-> "sgl", size |-> 6, first |-> Block("segment", 40, 2),
                lists |-> 40 :> <<Block("data", 8, 1), Block("segment", 48, 2)>>
                          @@ 48 :> <<Block("bucket", 0, 2), Block("data", 20, 3)>>,
                where |-> 0 :> 8 @@ [k \in 3 .. 5 |-> 17 + k]], "read")}

MCJobs == FromDriver \cup Unaligned \cup Slots \cup Lists
=============================================================================
