------------------------------- MODULE KRHeap -------------------------------
(***************************************************************************)
(* The kernel heap of kernel/mm/kmalloc.c after k_malloc_init: k_malloc,   *)
(* k_morecore, k_sbrk and k_free.  bootmem.c is the same code over another *)
(* range and another chunk.                                                *)
(*                                                                         *)
(* Addresses and sizes are counted in headers (8 bytes), as the code does. *)
(* The kernel calls the heap from one processor, so calls do not overlap;  *)
(* an iteration of a loop is a step, so that loops which do not end show.  *)
(***************************************************************************)
EXTENDS Integers, FiniteSets

CONSTANTS Base,      \* the address of the static header base
          HeapStart, \* the first address of the heap
          HeapEnd,   \* heap_end
          MoreCore,  \* MORECORE_DEFAULT
          WordUnits, \* 2^32 bytes, the size of the address space
          Requests   \* the sizes in bytes the kernel asks for

HeaderSize == 8
Word == HeaderSize * WordUnits

\* A mistake to test RoomForRequest against: the bytes are rounded down.
UnitsRoundedDown(n) == (n % Word) \div HeaderSize + 1

\* The units of a request: its bytes rounded up, and a header, in 32 bits.
Units(n) == ((n + HeaderSize - 1) % Word) \div HeaderSize + 1

\* The size of the chunk k_morecore asks k_sbrk for.
Chunk(units) == IF units < MoreCore THEN MoreCore ELSE units

ASSUME LayoutAssumption ==
    /\ Base \in Nat /\ HeapStart \in Nat /\ HeapEnd \in Nat
    /\ HeapStart <= HeapEnd
    /\ Base < HeapStart \/ HeapEnd < Base
ASSUME CoreAssumption == MoreCore \in Nat /\ WordUnits \in Nat \ {0}
\* No sum of an address in the heap and a request wraps around; the code
\* does not check it.
ASSUME RequestsAssumption ==
    \A n \in Requests :
        /\ n \in Nat
        /\ n + HeaderSize <= Word
        /\ HeapEnd + Chunk(Units(n)) < WordUnits

Address == HeapStart .. HeapEnd - 1
Header == {Base} \union Address
NULL == -1

VARIABLES
    heap_brk,
    freep,
    ptr,     \* the field s.ptr of the header at each address
    size,    \* the field s.size of the header at each address
    pc,      \* "idle", "search" (k_malloc), "place" (k_free)
    n_bytes, \* the parameter of k_malloc
    prevp,   \* the local of k_malloc
    p,       \* the local of k_malloc or k_free
    bp,      \* the block k_free puts back
    more,    \* k_free was called by k_morecore
    held,    \* history: the blocks the kernel holds, with their n_bytes
    listed   \* history: the headers on the free list

vars == <<heap_brk, freep, ptr, size, pc, n_bytes, prevp, p, bp, more, held,
          listed>>

Init ==
    /\ heap_brk = HeapStart
    /\ freep = NULL
    /\ ptr = [h \in Header |-> NULL]
    /\ size = [h \in Header |-> 0]
    /\ pc = "idle"
    /\ n_bytes = 0
    /\ prevp = NULL /\ p = NULL /\ bp = NULL
    /\ more = FALSE
    /\ held = {}
    /\ listed = {}

\* The locals are dead when a call returns.
Return ==
    /\ pc' = "idle"
    /\ n_bytes' = 0
    /\ prevp' = NULL /\ p' = NULL /\ bp' = NULL
    /\ more' = FALSE

-----------------------------------------------------------------------------
(* Mistakes the properties are tested against; none is part of Next. *)

\* The break is compared with the end before the amount is added.
ExtendUnchecked ==
    /\ pc = "search" /\ size[p] < Units(n_bytes) /\ p = freep
    /\ heap_brk < HeapEnd
    /\ heap_brk' = heap_brk + Chunk(Units(n_bytes))
    /\ size' = [size EXCEPT ![heap_brk] = Chunk(Units(n_bytes))]
    /\ pc' = "place"
    /\ bp' = heap_brk
    /\ p' = freep
    /\ more' = TRUE
    /\ UNCHANGED <<freep, ptr, n_bytes, prevp, held, listed>>

\* The pointer is moved before the size of the rest is known.
TakeBehind ==
    /\ pc = "search" /\ size[p] > Units(n_bytes)
    /\ LET rest == size[p] - Units(n_bytes) IN
          /\ size' = [size EXCEPT ![p] = rest]
          /\ held' = held \union {[at |-> p + size[p], bytes |-> n_bytes]}
    /\ freep' = prevp
    /\ Return
    /\ UNCHANGED <<heap_brk, ptr, listed>>

\* The search gives up at base, wherever it began.
FailAtBase ==
    /\ pc = "search" /\ size[p] < Units(n_bytes) /\ p = Base
    /\ Return
    /\ UNCHANGED <<heap_brk, freep, ptr, size, held, listed>>

\* The end of the ring is not recognised (lines 94-96 left out).
PlacedBetween == p < bp /\ bp < ptr[p]

\* Only the upper neighbour is merged.
LinkNoMergeDown ==
    LET next == ptr[p]
        up == bp + size[bp] = next
    IN  /\ pc = "place"
        /\ \/ p < bp /\ bp < ptr[p]
           \/ p >= ptr[p] /\ (p < bp \/ bp < ptr[p])
        /\ size' = [size EXCEPT ![bp] = @ + IF up THEN size[next] ELSE 0]
        /\ ptr' = [ptr EXCEPT ![bp] = IF up THEN ptr[next] ELSE next,
                              ![p] = bp]
        /\ listed' = (listed \ (IF up THEN {next} ELSE {})) \union {bp}
        /\ freep' = p
        /\ \/ ~more /\ Return
           \/ /\ more
              /\ pc' = "search"
              /\ prevp' = p
              /\ p' = ptr'[p]
              /\ bp' = NULL
              /\ more' = FALSE
              /\ UNCHANGED n_bytes
        /\ UNCHANGED <<heap_brk, held>>

-----------------------------------------------------------------------------
(* k_malloc *)

\* The first call makes base the only element of the ring.
Malloc(n) ==
    /\ pc = "idle"
    /\ \/ /\ freep = NULL
          /\ freep' = Base
          /\ ptr' = [ptr EXCEPT ![Base] = Base]
          /\ size' = [size EXCEPT ![Base] = 0]
          /\ listed' = {Base}
       \/ /\ freep # NULL
          /\ UNCHANGED <<freep, ptr, size, listed>>
    /\ pc' = "search"
    /\ n_bytes' = n
    /\ prevp' = freep'
    /\ p' = ptr'[freep']
    /\ UNCHANGED <<heap_brk, bp, more, held>>

Searching == pc = "search"
Fits == size[p] >= Units(n_bytes)

\* The block fits exactly and leaves the list.
TakeWhole ==
    /\ Searching /\ size[p] = Units(n_bytes)
    /\ ptr' = [ptr EXCEPT ![prevp] = ptr[p]]
    /\ listed' = listed \ {p}
    /\ freep' = prevp
    /\ held' = held \union {[at |-> p, bytes |-> n_bytes]}
    /\ Return
    /\ UNCHANGED <<heap_brk, size>>

\* The tail of a larger block is taken.
TakeTail ==
    /\ Searching /\ size[p] > Units(n_bytes)
    /\ LET rest == size[p] - Units(n_bytes) IN
          /\ size' = [size EXCEPT ![p] = rest, ![p + rest] = Units(n_bytes)]
          /\ held' = held \union {[at |-> p + rest, bytes |-> n_bytes]}
    /\ freep' = prevp
    /\ Return
    /\ UNCHANGED <<heap_brk, ptr, listed>>

SearchNext ==
    /\ Searching /\ ~Fits /\ p # freep
    /\ prevp' = p
    /\ p' = ptr[p]
    /\ UNCHANGED <<heap_brk, freep, ptr, size, pc, n_bytes, bp, more, held,
                   listed>>

\* The break k_sbrk computes, in 32 bits.
NewBreak == (heap_brk + Chunk(Units(n_bytes))) % WordUnits

\* Once around: k_morecore gets a chunk and calls k_free to list it ...
Extend ==
    /\ Searching /\ ~Fits /\ p = freep
    /\ NewBreak <= HeapEnd
    /\ heap_brk' = NewBreak
    /\ size' = [size EXCEPT ![heap_brk] = Chunk(Units(n_bytes))]
    /\ pc' = "place"
    /\ bp' = heap_brk
    /\ p' = freep
    /\ more' = TRUE
    /\ UNCHANGED <<freep, ptr, n_bytes, prevp, held, listed>>

\* ... or there is no memory left and k_malloc returns NULL.
Fail ==
    /\ Searching /\ ~Fits /\ p = freep
    /\ NewBreak > HeapEnd
    /\ Return
    /\ UNCHANGED <<heap_brk, freep, ptr, size, held, listed>>

-----------------------------------------------------------------------------
(* k_free *)

Free(block) ==
    /\ pc = "idle"
    /\ held' = held \ {block}
    /\ pc' = "place"
    /\ bp' = block.at
    /\ p' = freep
    /\ UNCHANGED <<heap_brk, freep, ptr, size, n_bytes, prevp, more, listed>>

Placing == pc = "place"

\* The block goes between p and its successor: it lies between them, or p
\* is the last one of the ring and the block lies outside it.
Placed ==
    \/ p < bp /\ bp < ptr[p]
    \/ p >= ptr[p] /\ (p < bp \/ bp < ptr[p])

PlaceNext ==
    /\ Placing /\ ~Placed
    /\ p' = ptr[p]
    /\ UNCHANGED <<heap_brk, freep, ptr, size, pc, n_bytes, prevp, bp, more,
                   held, listed>>

\* The block is linked in and merged with the neighbours it touches; then
\* k_free returns, or k_malloc goes on behind the block k_morecore returns.
Link ==
    LET next == ptr[p]
        up == bp + size[bp] = next
        grown == IF up THEN size[bp] + size[next] ELSE size[bp]
        after == IF up THEN ptr[next] ELSE next
        down == p + size[p] = bp
    IN  /\ Placing /\ Placed
        /\ size' = IF down
                   THEN [size EXCEPT ![bp] = grown, ![p] = @ + grown]
                   ELSE [size EXCEPT ![bp] = grown]
        /\ ptr' = [ptr EXCEPT ![bp] = after,
                              ![p] = IF down THEN after ELSE bp]
        /\ listed' = (listed \ (IF up THEN {next} ELSE {}))
                         \union (IF down THEN {} ELSE {bp})
        /\ freep' = p
        /\ \/ ~more /\ Return
           \/ /\ more
              /\ pc' = "search"
              /\ prevp' = p
              /\ p' = ptr'[p]
              /\ bp' = NULL
              /\ more' = FALSE
              /\ UNCHANGED n_bytes
        /\ UNCHANGED <<heap_brk, held>>

-----------------------------------------------------------------------------
Step ==
    \/ TakeWhole \/ TakeTail \/ SearchNext \/ Extend \/ Fail
    \/ PlaceNext \/ Link

Next ==
    \/ \E n \in Requests : Malloc(n)
    \/ \E block \in held : Free(block)
    \/ Step

Spec == Init /\ [][Next]_vars

\* A call that has begun goes on executing.
FairSpec == Spec /\ WF_vars(Step)

-----------------------------------------------------------------------------
(* Properties *)

Block == [at : Address, bytes : Nat]

\* Type invariant.
TypeOK ==
    /\ heap_brk \in HeapStart .. HeapEnd
    /\ freep \in Header \union {NULL}
    /\ ptr \in [Header -> Header \union {NULL}]
    /\ size \in [Header -> Nat]
    /\ pc \in {"idle", "search", "place"}
    /\ n_bytes \in Nat
    /\ prevp \in Header \union {NULL}
    /\ p \in Header \union {NULL}
    /\ bp \in Address \union {NULL}
    /\ more \in BOOLEAN
    /\ held \subseteq Block
    /\ listed \subseteq Header

\* The blocks of the heap: held, free, or on the way back.
Blocks ==
    {block.at : block \in held} \union (listed \ {Base})
        \union (IF Placing THEN {bp} ELSE {})
Extent(b) == b .. b + size[b] - 1

\* Every address below the break belongs to exactly one block, over any
\* sequence of splits and merges: no two blocks overlap and none is lost.
Tiled ==
    /\ UNION {Extent(b) : b \in Blocks} = HeapStart .. heap_brk - 1
    /\ \A b, c \in Blocks : b # c => Extent(b) \intersect Extent(c) = {}
    /\ \A b, c \in held : b.at = c.at => b = c

\* The element of the list after h in the order of addresses, around the ring.
NextListed(h) ==
    LET above == {g \in listed : g > h}
        from == IF above = {} THEN listed ELSE above
    IN  CHOOSE g \in from : \A f \in from : g <= f

\* The list is one ring in the order of addresses, which the comparisons of
\* line 93 rely on, and no two of its blocks touch: freeing always merges.
RingInOrder ==
    /\ \A h \in listed : ptr[h] = NextListed(h)
    /\ \A b \in listed \ {Base} : b + size[b] \notin listed

\* A block the kernel holds has room for the bytes it asked for, also after
\* its neighbours were freed and merged.
RoomForRequest ==
    \A block \in held : block.bytes <= HeaderSize * (size[block.at] - 1)

\* Comment at line 137, "In case of failure NULL is returned": k_malloc fails
\* only after the whole ring, and when no chunk is left.
NullOnlyWhenFull ==
    [][Searching /\ pc' = "idle" /\ held' = held =>
          /\ \A b \in listed : size[b] < Units(n_bytes)
          /\ heap_brk + Chunk(Units(n_bytes)) > HeapEnd]_vars

\* Both walks around the ring end.
CallsReturn == pc # "idle" ~> pc = "idle"
=============================================================================
