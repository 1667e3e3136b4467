-------------------------------- MODULE DMA ---------------------------------
(***************************************************************************)
(* Data pointers of NVMe commands: the lists a host builds                 *)
(* (src/sil/nvme/prp.cc) and the way the device reads and uses them        *)
(* (src/simplessd/hil/nvme/dma.cc, PRPList and SGL).                       *)
(*                                                                         *)
(* Memory positions and sizes are numbers; a page has PageSize of them and *)
(* a page of a PRP list EntriesPerPage entries.                            *)
(***************************************************************************)
EXTENDS Integers, Sequences, SequencesExt, FiniteSetsExt

CONSTANTS PageSize, EntriesPerPage

ASSUME DMAAssumption ==
    /\ PageSize \in Nat \ {0}
    /\ EntriesPerPage \in Nat /\ EntriesPerPage > 1

-----------------------------------------------------------------------------
(* The host: PRP::PRP *)

Pages(size) == (size + PageSize - 1) \div PageSize

\* Pages of list that n entries need; all but the last page give their last
\* entry to the pointer to the next one.
ListCount(n) ==
    Min({k \in 1 .. n : n - (k - 1) * (EntriesPerPage - 1) <= EntriesPerPage})

\* The allocation starts at page 1: the first data page, then each page of
\* list followed by the data pages it names.
ListPage(k) == 2 + (k - 1) * EntriesPerPage

ListEntries(n, k) ==
    LET L    == ListCount(n)
        last == n - (L - 1) * (EntriesPerPage - 1)
        page(i) == ListPage(k) + i
    IN  [i \in 1 .. EntriesPerPage |->
            IF k < L \/ i <= last THEN page(i) * PageSize ELSE 0]

\* Data page i of a transfer of this many pages.
DataPage(pages, i) ==
    IF i = 0 THEN 1
    ELSE IF pages <= 2 THEN 2
    ELSE LET k == Min({j \in 1 .. ListCount(pages - 1) :
                          \/ j = ListCount(pages - 1)
                          \/ i <= j * (EntriesPerPage - 1)})
         IN  ListPage(k) + (i - (k - 1) * (EntriesPerPage - 1))

\* The data pointer for size units, the memory behind it, and where the host
\* expects each unit.
HostPRP(size) ==
    LET p == Pages(size) IN
    [via   |-> "prp",
     size  |-> size,
     prp1  |-> PageSize,
     prp2  |-> IF p = 1 THEN 0 ELSE 2 * PageSize,
     lists |-> IF p <= 2 THEN << >>
               ELSE [k \in {ListPage(j) * PageSize : j \in 1 .. ListCount(p - 1)} |->
                       ListEntries(p - 1, (k \div PageSize - 2) \div EntriesPerPage + 1)],
     where |-> [k \in 0 .. size - 1 |->
                  (DataPage(p, k \div PageSize) * PageSize) + (k % PageSize)]]

-----------------------------------------------------------------------------
(* The device: PRPList *)

\* Part of a list: size units at position at; ignore for a bit bucket.
Chunk(at, size) == [at |-> at, size |-> size, ignore |-> FALSE]

\* A list while it is read: the parts known, the position of the next page
\* or segment to read (0 for none), and the size that is still missing.
Walk(list, next, left) == [list |-> list, next |-> next, left |-> left]

\* getPRPSize
PRPSize(at) == PageSize - (at % PageSize)

\* The constructor of PRPList.
PRPStart(j) ==
    LET one == Chunk(j.prp1, PRPSize(j.prp1))
        two == Chunk(j.prp2, PRPSize(j.prp2))
    IN  IF j.size <= PRPSize(j.prp1) THEN Walk(<<Chunk(j.prp1, j.size)>>, 0, 0)
        ELSE IF j.size <= PageSize
                \/ (j.size <= 2 * PageSize /\ one.size = PageSize)
             THEN Walk(<<one, two>>, 0, 0)
        ELSE Walk(<<one>>, j.prp2, j.size - one.size)

\* The panic of the constructor: two pointers that name too little.
PRPShort(j) ==
    LET w == PRPStart(j) IN
    Len(w.list) = 2 /\ w.list[1].size + w.list[2].size < j.size

\* The size that the first n entries of a page of list name.
Named(entries, n) ==
    FoldLeft(LAMBDA sum, i : sum + PRPSize(entries[i]), 0, [i \in 1 .. n |-> i])

Enough(w, entries) == {n \in DOMAIN entries : Named(entries, n) >= w.left}

\* How many entries the loop over a page of list looks at.
Used(w, entries) ==
    IF Enough(w, entries) = {} THEN Len(entries) ELSE Min(Enough(w, entries))

\* doRead of getPRPListFromPRP: the entries of one page of list.  When the
\* page ends first its last entry is the next page; that entry has been
\* counted as data.
PRPPage(w, entries) ==
    LET n     == Used(w, entries)
        found == w.list \o [i \in 1 .. n |-> Chunk(entries[i], PRPSize(entries[i]))]
    IN  IF Enough(w, entries) # {} THEN Walk(found, 0, 0)
        ELSE Walk(Front(found), entries[n], w.left - Named(entries, n))

\* The panic of that loop.
PRPInvalid(w, entries) == \E i \in 1 .. Used(w, entries) : entries[i] = 0

-----------------------------------------------------------------------------
(* The device: SGL *)

\* A descriptor: "data", "bucket", or "segment" with the position and the
\* length of the next one, which is the last descriptor (see SGLInvalid).
SGLChunks(segment) ==
    LET parts == IF Last(segment).type = "segment" THEN Front(segment) ELSE segment IN
    [i \in DOMAIN parts |-> [at |-> parts[i].at, size |-> parts[i].size,
                             ignore |-> parts[i].type = "bucket"]]

\* The constructor has a branch for a block and one for a segment; for a part
\* to be skipped it does nothing, not even call the handler.
SGLUnknown(j) == j.first.type = "bucket"

\* The constructor: one block, or the first segment.
SGLStart(j) ==
    IF j.first.type = "segment" THEN Walk(<< >>, j.first.at, 0)
    ELSE Walk(SGLChunks(<<j.first>>), 0, 0)

\* doRead of parseSGLSegment.
SGLSegment(w, segment) ==
    LET d == Last(segment) IN
    Walk(w.list \o SGLChunks(segment),
         IF d.type = "segment" THEN d.at ELSE 0, 0)

\* The panic of that loop: a segment descriptor that is not the last.
SGLInvalid(segment) ==
    \E i \in 1 .. Len(segment) - 1 : segment[i].type = "segment"

-----------------------------------------------------------------------------
(* The device: read and write *)

Lesser(a, b) == IF a < b THEN a ELSE b

SizeBefore(list, i) ==
    FoldLeft(LAMBDA sum, c : sum + c.size, 0, SubSeq(list, 1, i - 1))

\* The requests that PRPList::read(offset, length) or write makes:
\* one for every part from the one that holds the offset up to the one that
\* completes the length, which is looked for behind the first.
Pieces(list, offset, length) ==
    LET begins == {i \in DOMAIN list : SizeBefore(list, i) + list[i].size > offset}
        first == Min(begins)
        ends  == {i \in DOMAIN list :
                     i > first /\ SizeBefore(list, i + 1) >= offset + length}
        last  == Min(ends \cup {Len(list)})
        skip(i) == IF i = first THEN offset - SizeBefore(list, i) ELSE 0
        to(i) == IF i = first THEN 0
                 ELSE Lesser(SizeBefore(list, i) - offset, length)
        piece(i) == [at |-> list[i].at + skip(i), to |-> to(i),
                     size |-> Lesser(list[i].size - skip(i), length - to(i)),
                     ignore |-> list[i].ignore]
    IN  IF begins = {} THEN << >>
        ELSE [n \in 1 .. last - first + 1 |-> piece(first + n - 1)]

\* SGL::read and write step over the parts that the host wants ignored.
SGLPieces(list, offset, length) ==
    FoldLeft(LAMBDA ps, p : IF p.ignore THEN ps ELSE Append(ps, p), << >>,
             Pieces(list, offset, length))
=============================================================================
