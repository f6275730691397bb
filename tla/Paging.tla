------------------------------- MODULE Paging -------------------------------
(***************************************************************************)
(* The kernel directory, its page tables and the TLB of the bootstrap      *)
(* processor: map_page and unmap_page of vm.c, called as arch_main and     *)
(* k_malloc_init call them.  Frames come from a FramePool.                 *)
(*                                                                         *)
(* Page tables are reached through the recursive entry of the directory:   *)
(* the address of a table is itself translated, and cached, by the TLB.    *)
(* The processor may cache any present translation and drop any at any     *)
(* time.  RAM is not zeroed: a frame that becomes a table has any content. *)
(***************************************************************************)
EXTENDS Naturals, Sequences, FiniteSets

CONSTANTS Frame,      \* the page frames of the physical memory manager
          NoFrame,    \* "not present", "no frame"
          Dir,        \* the entries of the kernel directory
          Slot,       \* the entries of a page table
          BootDir,    \* entry 768, whose table boot.S fills
          KernelSlot, \* an entry of that table that maps the kernel image
          BootTable,  \* kernel_boot_page_table, a frame of the kernel image
          Ident,      \* what boot.S maps: physical memory below 2 MB
          Device,     \* the registers of an APIC
          Junk,       \* a present entry nobody wrote
          StartPages, \* the pages arch_main maps: <<page, Device or NoFrame>>
          HeapPages   \* the pages of the heap, in the order of their addresses

Page == Dir \X Slot

ASSUME KindsAssumption ==
    /\ NoFrame \notin Frame /\ BootTable \notin Frame \union {NoFrame}
    /\ {Ident, Device, Junk} \intersect (Frame \union {NoFrame}) = {}
    /\ Ident # Device /\ Ident # Junk /\ Device # Junk
ASSUME PagesAssumption ==
    /\ BootDir \in Dir /\ KernelSlot \in Slot
    /\ StartPages \in Seq(Page \X {Device, NoFrame})
    /\ HeapPages \in Seq(Page)
\* Registers at their physical addresses, stacks from 0xD0001000 on and the
\* heap behind the kernel have pages of their own.
ASSUME LayoutAssumption ==
    /\ \A m, n \in 1 .. Len(StartPages) : StartPages[m][1] = StartPages[n][1] => m = n
    /\ \A m, n \in 1 .. Len(HeapPages) : HeapPages[m] = HeapPages[n] => m = n
    /\ \A m \in 1 .. Len(StartPages), n \in 1 .. Len(HeapPages) :
          StartPages[m][1] # HeapPages[n]
    /\ \A n \in 1 .. Len(StartPages) : StartPages[n][1][1] # BootDir
    /\ \A n \in 1 .. Len(HeapPages) : HeapPages[n] # <<BootDir, KernelSlot>>

Entry == Frame \union {NoFrame, Ident, Device, Junk}
Blank == [s \in Slot |-> NoFrame]

VARIABLES
    free,      \* the frames get_free_frame can return
    allocated, \* the frames it has returned
    transit,   \* the frame a call of get_free_frame or free_frame carries
    dir,       \* kernel_directory: the frame of each table, or NoFrame
    mem,       \* the content of the frames as page tables
    tlb,       \* cached translations of pages
    win,       \* cached translations of the recursive window, by directory entry
    phase,     \* of the boot: "start", "heap", "undo", "done", "failed", "panic"
    k,         \* the number of the page of this phase
    failed_idx, \* the local of k_malloc_init
    pc,        \* of map_page or unmap_page; "idle" between calls
    page, phys, kmalloc_init, dir_created, \* the parameters and local of the call
    lost       \* history: frames that are neither in use nor given back

pool == <<free, allocated, transit>>
cache == <<tlb, win>>
call == <<pc, page, phys, kmalloc_init, dir_created>>
boot == <<phase, k, failed_idx>>
vars == <<pool, dir, mem, cache, boot, call, lost>>

\* What boot.S leaves, whatever the memory manager has to give.  The entries
\* of the kernel's table beyond 2 MB are not present.
Init ==
    /\ free \in SUBSET Frame
    /\ allocated = {}
    /\ transit = NoFrame
    /\ dir = [d \in Dir |-> IF d = BootDir THEN BootTable ELSE NoFrame]
    /\ \E low \in [Slot -> {Ident, NoFrame}] :
          /\ low[KernelSlot] = Ident
          /\ mem = [f \in Frame \union {BootTable} |->
                       IF f = BootTable THEN low ELSE Blank]
    /\ tlb = [v \in Page |-> NoFrame]
    /\ win = [d \in Dir |-> NoFrame]
    /\ phase = "start" /\ k = 1 /\ failed_idx = 0
    /\ pc = "idle" /\ page = <<BootDir, KernelSlot>>
    /\ phys = NoFrame /\ kmalloc_init = FALSE /\ dir_created = FALSE
    /\ lost = {}

\* The translation the directory and its tables hold for page v.
Walk(v) == IF dir[v[1]] = NoFrame THEN NoFrame ELSE mem[dir[v[1]]][v[2]]

\* get_table_virtual_address, translated: a cached translation is used.
Table(d) == IF win[d] # NoFrame THEN win[d] ELSE dir[d]

-----------------------------------------------------------------------------
(* Mistakes the properties are tested against; none is part of Next. *)

\* unmap_page gives the frame of the page back once more.
ClearEntryTwice ==
    /\ pc = "clear"
    /\ LET t == Table(page[1]) IN
       /\ t # NoFrame /\ mem[t][page[2]] \in allocated
       /\ free' = free \union {mem[t][page[2]]}
       /\ transit' = mem[t][page[2]]
       /\ allocated' = allocated \ {mem[t][page[2]]}
       /\ mem' = [mem EXCEPT ![t][page[2]] = NoFrame]
       /\ win' = [win EXCEPT ![page[1]] = t]
    /\ pc' = "release"
    /\ UNCHANGED <<boot, dir, tlb, page, phys, kmalloc_init, dir_created, lost>>

\* The directory entry is cleared, its frame is not given back.
FreeTableKept ==
    /\ pc = "scan"
    /\ Table(page[1]) # NoFrame /\ mem[Table(page[1])] = Blank
    /\ dir[page[1]] # NoFrame
    /\ dir' = [dir EXCEPT ![page[1]] = NoFrame]
    /\ pc' = "flush"
    /\ UNCHANGED <<pool, mem, cache, boot, page, phys, kmalloc_init, dir_created, lost>>

\* A new table is made without a look at the directory entry.
NeedsTableAlways == TRUE

\* The flush at the end of a call is forgotten.
FlushForgotten ==
    /\ pc = "flush"
    /\ pc' = "0"
    /\ UNCHANGED <<pool, dir, mem, cache, boot, page, phys, kmalloc_init, dir_created, lost>>

\* The pages before failed_idx - 1 are undone only.
UndoEndEarly == k + 1 >= failed_idx
-----------------------------------------------------------------------------
(* map_page *)

Return(ok) == pc' = IF ok THEN "0" ELSE "-1"

NeedsTable == dir[page[1]] = NoFrame

UseTable ==
    /\ pc = "directory" /\ ~NeedsTable
    /\ pc' = "entry"
    /\ UNCHANGED <<pool, dir, mem, cache, boot, page, phys, kmalloc_init, dir_created, lost>>

TakeTable ==
    /\ pc = "directory" /\ NeedsTable
    /\ \E f \in free :
        /\ free' = free \ {f}
        /\ transit' = f
    /\ pc' = "new"
    /\ UNCHANGED <<allocated, dir, mem, cache, boot, page, phys, kmalloc_init, dir_created, lost>>

NoTable ==
    /\ pc = "directory" /\ NeedsTable /\ free = {}
    /\ Return(FALSE)
    /\ UNCHANGED <<pool, dir, mem, cache, boot, page, phys, kmalloc_init, dir_created, lost>>

\* The frame becomes a table as it is, with entries of its former content.
NewTable ==
    /\ pc = "new"
    /\ dir' = [dir EXCEPT ![page[1]] = transit]
    /\ \E content \in [Slot -> {NoFrame, Junk}] :
          mem' = [mem EXCEPT ![transit] = content]
    /\ allocated' = allocated \union {transit}
    /\ transit' = NoFrame
    /\ dir_created' = TRUE
    /\ pc' = "entry"
    /\ UNCHANGED <<free, cache, boot, page, phys, kmalloc_init, lost>>

\* The page has a mapping already.
Refuse ==
    /\ pc = "entry" /\ ~dir_created /\ ~kmalloc_init
    /\ mem[Table(page[1])][page[2]] # NoFrame
    /\ win' = [win EXCEPT ![page[1]] = Table(page[1])]
    /\ Return(FALSE)
    /\ UNCHANGED <<pool, dir, mem, tlb, boot, page, phys, kmalloc_init, dir_created, lost>>

SetEntry ==
    /\ pc = "entry"
    /\ \/ dir_created \/ kmalloc_init
       \/ mem[Table(page[1])][page[2]] = NoFrame
    /\ mem' = [mem EXCEPT ![Table(page[1])][page[2]] = phys]
    /\ win' = [win EXCEPT ![page[1]] = Table(page[1])]
    /\ pc' = "flush"
    /\ UNCHANGED <<pool, dir, tlb, boot, page, phys, kmalloc_init, dir_created, lost>>

\* flush_tlb_single, the end of map_page and of unmap_page.
Flush ==
    /\ pc = "flush"
    /\ tlb' = [tlb EXCEPT ![page] = NoFrame]
    /\ Return(TRUE)
    /\ UNCHANGED <<pool, dir, mem, win, boot, page, phys, kmalloc_init, dir_created, lost>>

-----------------------------------------------------------------------------
(* unmap_page *)

\* The entry is read before the directory is: without a table it is a page
\* fault, which panics.  free_frame panics for what is not an allocated frame.
ClearEntry ==
    /\ pc = "clear"
    /\ LET t == Table(page[1])
           e == IF t = NoFrame THEN Junk ELSE mem[t][page[2]]
       IN  /\ CASE e = NoFrame -> Return(FALSE) /\ UNCHANGED <<boot, pool, mem>>
                [] e \in allocated ->
                      /\ mem' = [mem EXCEPT ![t][page[2]] = NoFrame]
                      /\ allocated' = allocated \ {e}
                      /\ transit' = e
                      /\ pc' = "release"
                      /\ UNCHANGED <<boot, free>>
                [] OTHER ->
                      /\ phase' = "panic" /\ pc' = "idle"
                      /\ UNCHANGED <<k, failed_idx, pool, mem>>
           /\ win' = [win EXCEPT ![page[1]] = t]
    /\ UNCHANGED <<dir, tlb, page, phys, kmalloc_init, dir_created, lost>>

\* free_frame returns, for the frame of a page or of a table.
Release ==
    /\ pc \in {"release", "release_table"}
    /\ free' = free \union {transit}
    /\ transit' = NoFrame
    /\ pc' = IF pc = "release" THEN "scan" ELSE "flush"
    /\ UNCHANGED <<allocated, dir, mem, cache, boot, page, phys, kmalloc_init, dir_created, lost>>

Unused(t) == mem[t] = Blank

KeepTable ==
    /\ pc = "scan" /\ ~Unused(Table(page[1]))
    /\ pc' = "flush"
    /\ UNCHANGED <<pool, dir, mem, cache, boot, page, phys, kmalloc_init, dir_created, lost>>

FreeTable ==
    /\ pc = "scan" /\ Unused(Table(page[1]))
    /\ IF dir[page[1]] = NoFrame
         THEN Return(FALSE) /\ UNCHANGED <<dir, allocated, transit>>
         ELSE /\ dir' = [dir EXCEPT ![page[1]] = NoFrame]
              /\ allocated' = allocated \ {dir[page[1]]}
              /\ transit' = dir[page[1]]
              /\ pc' = "release_table"
    /\ UNCHANGED <<free, mem, cache, boot, page, phys, kmalloc_init, dir_created, lost>>

-----------------------------------------------------------------------------
(* The callers: arch_main, then k_malloc_init. *)

Call(at, v, f, init) ==
    /\ pc' = at /\ page' = v /\ phys' = f /\ kmalloc_init' = init
    /\ dir_created' = FALSE

\* The registers of an APIC are mapped to the same addresses.
MapDevice ==
    /\ phase = "start" /\ pc = "idle" /\ k <= Len(StartPages)
    /\ StartPages[k][2] = Device
    /\ Call("directory", StartPages[k][1], Device, FALSE)
    /\ UNCHANGED <<pool, dir, mem, cache, boot, lost>>

\* get_free_frame for the stack of a processor or for a page of the heap.
WantsFrame ==
    \/ phase = "start" /\ k <= Len(StartPages) /\ StartPages[k][2] # Device
    \/ phase = "heap" /\ k <= Len(HeapPages)

TakeFrame ==
    /\ pc = "idle" /\ transit = NoFrame /\ WantsFrame
    /\ \E f \in free :
        /\ free' = free \ {f}
        /\ transit' = f
    /\ UNCHANGED <<allocated, dir, mem, cache, boot, call, lost>>

MapFrame ==
    /\ pc = "idle" /\ transit # NoFrame
    /\ allocated' = allocated \union {transit}
    /\ transit' = NoFrame
    /\ IF phase = "start" THEN Call("directory", StartPages[k][1], transit, FALSE)
                          ELSE Call("directory", HeapPages[k], transit, TRUE)
    /\ UNCHANGED <<free, dir, mem, cache, boot, lost>>

\* Without a frame for a stack the boot panics; k_malloc_init undoes its work.
NoFrameLeft ==
    /\ pc = "idle" /\ transit = NoFrame /\ WantsFrame /\ free = {}
    /\ IF phase = "start"
         THEN phase' = "panic" /\ UNCHANGED <<k, failed_idx>>
         ELSE phase' = "undo" /\ k' = 1 /\ failed_idx' = k
    /\ UNCHANGED <<pool, dir, mem, cache, call, lost>>

\* map_page or unmap_page is over.  arch_main does not look at the result: the
\* processor gets its stack in any case.  A frame that k_malloc_init could not
\* map is forgotten.
Returned ==
    /\ pc \in {"0", "-1"}
    /\ Call("idle", page, NoFrame, FALSE)
    /\ IF phase = "heap" /\ pc = "-1"
         THEN phase' = "undo" /\ k' = 1 /\ failed_idx' = k
         ELSE /\ k' = IF phase = "done" THEN k ELSE k + 1
              /\ UNCHANGED <<phase, failed_idx>>
    /\ lost' = IF phys \in Frame /\ Walk(page) # phys THEN lost \union {phys} ELSE lost
    /\ UNCHANGED <<pool, dir, mem, cache>>

StartDone ==
    /\ phase = "start" /\ pc = "idle" /\ k > Len(StartPages)
    /\ phase' = "heap" /\ k' = 1 /\ UNCHANGED failed_idx
    /\ UNCHANGED <<pool, dir, mem, cache, call, lost>>

HeapDone ==
    /\ phase = "heap" /\ pc = "idle" /\ k > Len(HeapPages)
    /\ phase' = "done" /\ k' = 1 /\ UNCHANGED failed_idx
    /\ UNCHANGED <<pool, dir, mem, cache, call, lost>>

UndoEnd == k >= failed_idx

Undo ==
    /\ phase = "undo" /\ pc = "idle" /\ ~UndoEnd
    /\ Call("clear", HeapPages[k], NoFrame, FALSE)
    /\ UNCHANGED <<pool, dir, mem, cache, boot, lost>>

HeapFailed ==
    /\ phase = "undo" /\ pc = "idle" /\ UndoEnd
    /\ phase' = "failed" /\ UNCHANGED <<k, failed_idx>>
    /\ UNCHANGED <<pool, dir, mem, cache, call, lost>>

-----------------------------------------------------------------------------
(* The processor: what it may cache, and forget, at any time. *)

Stopped == phase = "panic"

Fill ==
    /\ ~Stopped
    /\ \/ \E v \in Page :
           /\ tlb[v] = NoFrame /\ Walk(v) # NoFrame
           /\ tlb' = [tlb EXCEPT ![v] = Walk(v)]
           /\ UNCHANGED win
       \/ \E d \in Dir :
           /\ win[d] = NoFrame /\ dir[d] # NoFrame
           /\ win' = [win EXCEPT ![d] = dir[d]]
           /\ UNCHANGED tlb
    /\ UNCHANGED <<pool, dir, mem, boot, call, lost>>

Evict ==
    /\ ~Stopped
    /\ \/ \E v \in Page : tlb[v] # NoFrame /\ tlb' = [tlb EXCEPT ![v] = NoFrame] /\ UNCHANGED win
       \/ \E d \in Dir : win[d] # NoFrame /\ win' = [win EXCEPT ![d] = NoFrame] /\ UNCHANGED tlb
    /\ UNCHANGED <<pool, dir, mem, boot, call, lost>>

MapStep == UseTable \/ TakeTable \/ NoTable \/ NewTable \/ Refuse \/ SetEntry \/ Flush
UnmapStep == ClearEntry \/ Release \/ KeepTable \/ FreeTable
BootStep ==
    \/ MapDevice \/ TakeFrame \/ MapFrame \/ NoFrameLeft \/ Returned
    \/ StartDone \/ HeapDone \/ Undo \/ HeapFailed

Next == MapStep \/ UnmapStep \/ BootStep \/ Fill \/ Evict

Spec == Init /\ [][Next]_vars

-----------------------------------------------------------------------------
(* Properties *)

\* Type invariant.
TypeOK ==
    /\ free \subseteq Frame /\ allocated \subseteq Frame /\ lost \subseteq Frame
    /\ transit \in Frame \union {NoFrame}
    /\ dir \in [Dir -> Frame \union {BootTable, NoFrame}]
    /\ mem \in [Frame \union {BootTable} -> [Slot -> Entry]]
    /\ tlb \in [Page -> Entry]
    /\ win \in [Dir -> Frame \union {BootTable, NoFrame}]
    /\ phase \in {"start", "heap", "undo", "done", "failed", "panic"}
    /\ k \in Nat /\ failed_idx \in Nat
    /\ pc \in {"idle", "directory", "new", "entry", "flush", "0", "-1",
              "clear", "release", "scan", "release_table"}
    /\ page \in Page
    /\ phys \in Frame \union {NoFrame, Device}
    /\ kmalloc_init \in BOOLEAN /\ dir_created \in BOOLEAN

TableOf(f) == {d \in Dir : dir[d] = f}
MappedAt(f) == {v \in Page : Walk(v) = f}

\* A frame serves one purpose: it is the table of one directory entry or is
\* mapped at one page, and then it is neither free nor on its way (vm.c).  An
\* entry nobody wrote may name any frame; it is not counted.
OneOwner ==
    \A f \in Frame :
        /\ Cardinality(TableOf(f)) + Cardinality(MappedAt(f)) <= 1
        /\ f \in free \union {transit} => TableOf(f) = {} /\ MappedAt(f) = {}

\* No frame gets lost but the stack whose mapping was refused and, when
\* k_malloc_init gives up because map_page failed, the one frame it had just
\* taken: every other frame handed out is in use or in the caller's hands.
Accounted ==
    /\ \A f \in allocated :
          TableOf(f) # {} \/ MappedAt(f) # {} \/ f = phys \/ f \in lost
    /\ \A f, g \in lost :
          f # g => \E n \in 1 .. Len(StartPages) :
                      StartPages[n][2] = NoFrame /\ Walk(StartPages[n][1]) = Junk

\* Every frame has its type, one owner, and a way back to the pool.
FramesOwned == TypeOK /\ OneOwner /\ Accounted

\* Between two calls the processor uses no translation that the directory does
\* not hold any more: the flush at the end of map_page and unmap_page names
\* every page they changed.
NoStaleTranslation ==
    pc = "idle" => \A v \in Page : tlb[v] \in {NoFrame, Walk(v)}

\* The address of get_table_virtual_address reaches the table the directory
\* names (vm.c:11-16), although FreeTable does not flush it.
WindowReachesTable ==
    pc \in {"entry", "clear", "scan"} => Table(page[1]) = dir[page[1]]

\* Whatever the processor has cached, an access reaches what the directory
\* and its tables say.
AccessesReachTheirFrame == NoStaleTranslation /\ WindowReachesTable

\* k_malloc_init is all or nothing: every page of the heap has a frame, or
\* none is left mapped, but for what boot.S or nobody put there, and no table
\* stays that has no entry.
HeapOutcome ==
    /\ phase = "done" /\ pc = "idle" =>
          \A n \in 1 .. Len(HeapPages) : Walk(HeapPages[n]) \in allocated
    /\ phase = "failed" =>
          /\ \A n \in 1 .. Len(HeapPages) : Walk(HeapPages[n]) \notin Frame
          /\ \A d \in Dir : dir[d] \in Frame => mem[dir[d]] # Blank

\* A call changes no mapping but that of its own page: no table goes away, and
\* none is replaced, under the mappings it holds.
OthersUntouched ==
    [][\A v \in Page \ {page} :
          Walk(v) \in Frame \union {Device} => Walk(v)' = Walk(v)]_vars

\* The frames are used as the memory manager requires: what is freed was
\* handed out, and each frame is in one place.
Pool == INSTANCE FramePool WITH
    CPU <- {"bsp"}, Reserved <- {}, transit <- [c \in {"bsp"} |-> transit]
UsesPool == [][Pool!Next]_(Pool!poolVars)
=============================================================================
