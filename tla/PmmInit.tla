------------------------------ MODULE PmmInit ------------------------------
(***************************************************************************)
(* From the memory map of the boot loader to the page frames:              *)
(* parse_memory_map of arch_main.c and pmm_init of pm.c as operators.      *)
(*                                                                         *)
(* Addresses are physical and in bytes.  An entry of the boot loader says  *)
(* whether it lies above 4 GiB, where addresses would not fit.  A bitmap   *)
(* is the set of its bits that are set.                                    *)
(***************************************************************************)
EXTENDS Integers, Sequences, SequencesExt, FiniteSetsExt

PAGE_SIZE == 4096
BLOCK_SIZE == PAGE_SIZE
RoundUp(a) == ((a + PAGE_SIZE - 1) \div PAGE_SIZE) * PAGE_SIZE
RoundDown(a) == (a \div PAGE_SIZE) * PAGE_SIZE

-----------------------------------------------------------------------------
(* parse_memory_map *)

\* MULTIBOOT2_MEMORY_* to MEMORY_*.
Kind(type) ==
    CASE type = 1 -> "available"
      [] type = 3 -> "reclaimable"
      [] OTHER -> "reserved"

\* The entries up to the first one above 4 GiB are counted and allocated;
\* all those below it are copied, each to its own index.
NumberEntries(map) ==
    LET above == {i \in DOMAIN map : map[i].above}
    IN  IF above = {} THEN Len(map) ELSE Min(above) - 1

parse_memory_map(map) ==
    [i \in 1 .. NumberEntries(map) |->
        [base |-> map[i].base, length |-> map[i].length, type |-> Kind(map[i].type)]]

\* The copy leaves the allocation.
CopyOverflows(map) ==
    \E i \in DOMAIN map : i > NumberEntries(map) /\ ~map[i].above

-----------------------------------------------------------------------------
(* pmm_init: the regions *)

Pool == {"available", "reclaimable"}
InPool(m) == m.type \in Pool

\* The entries of these types, in their order.
OfType(memory, types) ==
    LET upto[n \in 0 .. Len(memory)] ==
            CASE n = 0 -> <<>>
              [] n # 0 /\ memory[n].type \in types -> Append(upto[n - 1], memory[n])
              [] OTHER -> upto[n - 1]
    IN  upto[Len(memory)]

\* A new element of bitmap_list.
NewRegion(m) ==
    LET blocks == m.length \div BLOCK_SIZE
    IN  [first |-> RoundUp(m.base), last |-> RoundDown(m.base + m.length - 1),
         total_blocks |-> blocks, bitmap_size |-> (blocks + 7) \div 8,
         bitmap |-> 0, bits |-> {}, reserved_blocks |-> 0]

Regions(memory) ==
    LET used == OfType(memory, Pool)
    IN  [i \in DOMAIN used |-> NewRegion(used[i])]

\* The head of the list is set by the first entry of the map only; with
\* another one the walk to the end of the list begins at NULL.
ListHasNoHead(memory) == memory # <<>> /\ ~InPool(memory[1])

\* The bytes of the first bitmaps.
SizesBefore(regions, i) ==
    LET upto[n \in 0 .. Len(regions)] ==
            IF n = 0 THEN 0 ELSE upto[n - 1] + regions[n].bitmap_size
    IN  upto[i - 1]

AllBitmapsSize(regions) == SizesBefore(regions, Len(regions) + 1)

-----------------------------------------------------------------------------
(* pmm_init: room for the bitmaps *)

NoRoom == -1
Null == 0

\* Where an entry of the map has room for size bytes beside the kernel.
RoomIn(m, kernel, size) ==
    LET end == m.base + m.length
        beforeKernel == kernel.start <= end
                        /\ RoundUp(m.base + size - 1) < kernel.start
        behindKernel == IF kernel.end < end - 1
                           /\ RoundUp(kernel.end + size - 1) <= end - 1
                        THEN RoundUp(kernel.end) ELSE NoRoom
    IN  CASE ~InPool(m) \/ m.base < 1048576 \/ m.length < size -> NoRoom
          [] OTHER ->
             CASE m.base = kernel.start -> behindKernel
               [] m.base # kernel.start /\ beforeKernel -> RoundUp(m.base)
               [] m.base # kernel.start /\ ~beforeKernel
                     /\ kernel.start <= end -> behindKernel
               [] OTHER -> IF RoundUp(m.base + size - 1) <= end - 1
                           THEN RoundUp(m.base) ELSE NoRoom

\* A mistake to test against: the loop does not stop at an entry with room.
StartOfLast(memory, kernel, size) ==
    IF memory = <<>> THEN Null ELSE RoomIn(memory[Len(memory)], kernel, size)

\* The first entry with room; the loop leaves -1 when there is none and NULL
\* only when the map is empty.
StartAvailableMemory(memory, kernel, size) ==
    LET fits == {i \in DOMAIN memory : RoomIn(memory[i], kernel, size) # NoRoom}
    IN  CASE memory = <<>> -> Null
          [] memory # <<>> /\ fits = {} -> NoRoom
          [] OTHER -> RoomIn(memory[Min(fits)], kernel, size)

\* One bitmap behind the other.
Placed(regions, start) ==
    [i \in DOMAIN regions |->
        [regions[i] EXCEPT !.bitmap = start + SizesBefore(regions, i)]]

-----------------------------------------------------------------------------
(* pmm_init: reserved memory *)

\* 0 stands for NULL.
addr_to_bitmap(regions, address) ==
    SelectInSeq(regions, LAMBDA r : address <= r.last)

\* A mistake to test against: bits are counted from the start of memory.
BitOfAbsolute(region, address) == address \div BLOCK_SIZE

BitOf(region, address) ==
    address \div BLOCK_SIZE - region.first \div BLOCK_SIZE

\* Bits that are set already are not counted twice.  used_blocks and the
\* totals go up with reserved_blocks.
CountNew(region, bits) ==
    [region EXCEPT !.bits = @ \union bits,
                   !.reserved_blocks = @ + Cardinality(bits \ region.bits)]

\* For an address in some region.  The size is rounded down to whole blocks,
\* but to one at least.
reserve_region(regions, start, size) ==
    LET i == addr_to_bitmap(regions, start)
        blocks == IF size < BLOCK_SIZE THEN 1 ELSE size \div BLOCK_SIZE
        bit == BitOf(regions[i], start)
    IN  [regions EXCEPT ![i] = CountNew(@, bit .. bit + blocks - 1)]

Reserved(start, size) == [start |-> start, size |-> size]

\* The tables of the BIOS, the kernel, and with several processors the
\* trampoline.
FixedMemory(kernel, smp) ==
    <<Reserved(0, 1023), Reserved(1024, 255), Reserved(524288, 131071),
      Reserved(kernel.start, kernel.end - kernel.start)>>
    \o IF smp THEN <<Reserved(4096, 8192)>> ELSE <<>>

Reclaimable(memory) ==
    LET used == OfType(memory, {"reclaimable"})
    IN  [i \in DOMAIN used |-> Reserved(used[i].base, used[i].length)]

ToReserve(memory, kernel, smp, regions) ==
    FixedMemory(kernel, smp)
    \o [i \in DOMAIN regions |-> Reserved(regions[i].bitmap, regions[i].bitmap_size)]
    \o Reclaimable(memory)

-----------------------------------------------------------------------------
\* boot.S maps the first 2 MB of memory, and nothing at the address 0: a
\* write through -1, through NULL or behind what is mapped is a page fault.
BOOT_MAPPED == 2097152

HasRoom(start, regions) ==
    start \notin {NoRoom, Null} /\ start + AllBitmapsSize(regions) <= BOOT_MAPPED

\* kernel_virtual_end, less the offset of the kernel's virtual addresses, and
\* where k_malloc_init starts the heap.
KernelEnd(kernel, regions) == kernel.end + AllBitmapsSize(regions)
HeapStart(kernel, regions) == RoundUp(KernelEnd(kernel, regions))
=============================================================================
