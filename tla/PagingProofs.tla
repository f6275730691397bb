---------------------------- MODULE PagingProofs ----------------------------
(***************************************************************************)
(* Proofs about Paging for any directory, any frames and any pages that    *)
(* satisfy the assumptions.                                                *)
(*                                                                         *)
(* The argument is about who holds a frame: a directory entry (Tables), a  *)
(* page (Owners), the call in progress or the pool (Apart), with Progress  *)
(* saying which pages are mapped at each moment of the boot.  Writing an   *)
(* entry changes one page (EntryWritten), a table comes and goes without   *)
(* a mapping in it (NewTableMaps, FreeTableMaps).  Each action has a lemma *)
(* that it keeps the invariant.                                            *)
(***************************************************************************)
EXTENDS Paging, FiniteSetTheorems, TLAPS

\* What every page is mapped to.
Mapping == [v \in Page |-> Walk(v)]

\* The numbers of the pages of arch_main and of the heap.
Starts == 1 .. Len(StartPages)
Heaps == 1 .. Len(HeapPages)

\* The call has written its entry.
Written == pc \in {"flush", "0"}

\* The parameters of a call are those of page k of its phase. A call that
\* unmaps belongs to the undoing.
Calling ==
    /\ phase \in {"start", "heap", "undo"}
    /\ pc \in {"directory", "new", "entry"} => phase # "undo"
    /\ pc \in {"clear", "release", "scan", "release_table"} => phase = "undo"
    /\ phase = "start" => /\ k \in Starts /\ page = StartPages[k][1] /\ ~kmalloc_init
                          /\ IF StartPages[k][2] = Device THEN phys = Device ELSE phys \in Frame
    /\ phase = "heap" => k \in Heaps /\ page = HeapPages[k] /\ kmalloc_init /\ phys \in Frame
    /\ phase = "undo" => k < failed_idx /\ page = HeapPages[k] /\ phys = NoFrame

\* Where the boot stands: a frame is on its way in the calls of the memory
\* manager only.
Control ==
    /\ k >= 1
    /\ phase = "start" => k <= Len(StartPages) + 1
    /\ phase = "heap" => k <= Len(HeapPages) + 1
    /\ phase = "undo" => k <= failed_idx /\ failed_idx <= Len(HeapPages)
    /\ pc # "idle" => Calling
    /\ pc = "idle" => phys = NoFrame
    /\ transit # NoFrame =>
          \/ pc \in {"new", "release", "release_table"}
          \/ pc = "idle" /\ WantsFrame
    /\ pc \in {"new", "release", "release_table"} => transit # NoFrame

\* A frame is free, handed out or on its way.
Apart ==
    /\ free \intersect allocated = {}
    /\ transit \notin free /\ transit \notin allocated

\* Every table but the one of boot.S is a frame handed out, and belongs to
\* one entry of the directory. The table of boot.S keeps the kernel image
\* mapped, so that it is never blank, and never freed.
Tables ==
    /\ dir[BootDir] = BootTable
    /\ \A d \in Dir : dir[d] = BootTable => d = BootDir
    /\ \A d \in Dir : dir[d] \in Frame => dir[d] \in allocated
    /\ \A d, e \in Dir : dir[d] = dir[e] /\ dir[d] # NoFrame => d = e
    /\ mem[BootTable][KernelSlot] = Ident
    /\ pc = "new" => dir[page[1]] = NoFrame
    /\ pc \in {"entry", "release", "scan"} => dir[page[1]] # NoFrame

\* A table without an entry is one map_page is about to fill or unmap_page is
\* about to free.
Filled ==
    \A d \in Dir :
        dir[d] \in Frame /\ mem[dir[d]] = Blank =>
            d = page[1] /\ pc \in {"entry", "release", "scan"}

\* A frame that is mapped was handed out, is no table and is mapped once. The
\* frame a call is to map is mapped only once that call has written it.
Owners ==
    /\ \A v \in Page : Mapping[v] \in Frame => Mapping[v] \in allocated
    /\ \A v \in Page, d \in Dir : Mapping[v] \in Frame => Mapping[v] # dir[d]
    /\ \A v, w \in Page : Mapping[v] = Mapping[w] /\ Mapping[v] \in Frame => v = w
    /\ \A v \in Page : Mapping[v] = Ident => v[1] = BootDir
    /\ phys \in Frame => phys \in allocated /\ \A d \in Dir : dir[d] # phys
    /\ phys \in Frame => \A v \in Page : Mapping[v] = phys => v = page /\ Written
    /\ Written /\ phase # "undo" => Mapping[page] = phys

\* Page n of arch_main may be mapped by now.
StartNow(n) == phase = "start" => n < k \/ (n = k /\ Written)

\* Page n of the heap is mapped by now: up to the page in progress, or, in
\* the undoing, from it on.
HeapNow(n) ==
    \/ phase = "heap" /\ (n < k \/ (n = k /\ Written))
    \/ phase = "done"
    \/ phase = "undo" /\ n < failed_idx /\ (n > k \/ (n = k /\ pc \in {"idle", "clear"}))

\* Page v may be mapped by now.
Planned(v) ==
    \/ \E n \in Starts : v = StartPages[n][1] /\ StartNow(n)
    \/ \E n \in Heaps : v = HeapPages[n] /\ HeapNow(n)

\* No page is mapped to a frame or to registers before its turn, and the
\* pages of the heap are when it is over, until they are undone.
Progress ==
    /\ \A v \in Page : Mapping[v] \in Frame \union {Device} => Planned(v)
    /\ \A n \in Heaps : HeapNow(n) => Mapping[HeapPages[n]] \in Frame

\* Frame f is a table or is mapped.
Used(f) == (\E d \in Dir : dir[d] = f) \/ (\E v \in Page : Mapping[v] = f)

\* The stack of page n was refused: its table had an entry nobody wrote.
Refused(n) ==
    /\ StartPages[n][2] = NoFrame /\ Mapping[StartPages[n][1]] = Junk
    /\ phase = "start" => n < k

\* The memory manager has nothing left. No frame comes back before the
\* undoing.
Drained == free = {} /\ transit = NoFrame

\* What became of every frame handed out. Without a refused stack the first
\* frame lost was the last there was: the next call that needs one ends the
\* mapping, so that no second frame gets lost.
Losses ==
    /\ \A f \in allocated : Used(f) \/ f = phys \/ f \in lost
    /\ pc = "-1" /\ phase = "start" /\ phys \in Frame => Mapping[page] = Junk \/ Drained
    /\ \/ \E n \in Starts : Refused(n)
       \/ \A f, g \in lost : f = g
    /\ \/ \E n \in Starts : Refused(n)
       \/ lost = {}
       \/ phase \in {"start", "heap"} => Drained /\ phys \notin Frame

\* A stale translation is of the page of a call that has yet to flush, or of
\* a table that is gone.
Cached ==
    /\ \A v \in Page : \/ tlb[v] \in {NoFrame, Mapping[v]}
                       \/ v = page /\ pc \in {"flush", "release", "scan", "release_table"}
    /\ \A d \in Dir : \/ win[d] \in {NoFrame, dir[d]}
                      \/ dir[d] = NoFrame /\ phase \in {"undo", "failed"}

\* The inductive invariant. FramesOwned alone is not inductive: that a frame
\* enters no second page takes that the page of a call is not mapped yet
\* (Progress), that a table is freed with no mapping in it takes that the
\* undoing stops where the mapping did (Control), and that the table of
\* boot.S is not freed takes the kernel image it maps (Tables).
IInv == /\ TypeOK /\ Control /\ Apart /\ Tables /\ Filled /\ Owners /\ Progress
        /\ Losses /\ Cached

\* The invariant without the types.
Rest == Control /\ Apart /\ Tables /\ Filled /\ Owners /\ Progress /\ Losses /\ Cached

-----------------------------------------------------------------------------
\* What the assumptions say of the kinds of entries.
LEMMA Kinds ==
    /\ NoFrame \notin Frame /\ BootTable \notin Frame /\ BootTable # NoFrame
    /\ Ident \notin Frame /\ Device \notin Frame /\ Junk \notin Frame
    /\ Ident # NoFrame /\ Device # NoFrame /\ Junk # NoFrame
    /\ Ident # Device /\ Ident # Junk /\ Device # Junk
    /\ BootDir \in Dir /\ KernelSlot \in Slot
  BY KindsAssumption, PagesAssumption

\* A page is a directory entry and an entry of its table.
LEMMA PageParts ==
    /\ \A v \in Page : v[1] \in Dir /\ v[2] \in Slot
    /\ \A v, w \in Page : v[1] = w[1] /\ v[2] = w[2] => v = w
    /\ \A d \in Dir, s \in Slot : <<d, s>> \in Page /\ <<d, s>>[1] = d /\ <<d, s>>[2] = s
  BY DEF Page

\* The pages of arch_main and of the heap are pages.
LEMMA PagesAre ==
    /\ Len(StartPages) \in Nat /\ Len(HeapPages) \in Nat
    /\ \A n \in Starts : /\ n \in Nat /\ StartPages[n][1] \in Page
                         /\ StartPages[n][2] \in {Device, NoFrame}
    /\ \A n \in Heaps : n \in Nat /\ HeapPages[n] \in Page
<1>1. /\ StartPages \in Seq(Page \X {Device, NoFrame}) /\ HeapPages \in Seq(Page)
  BY PagesAssumption
<1>2. \A n \in Starts : StartPages[n] \in Page \X {Device, NoFrame}
  BY <1>1 DEF Starts
<1>3. \A n \in Heaps : HeapPages[n] \in Page
  BY <1>1 DEF Heaps
<1>4. Len(StartPages) \in Nat /\ Len(HeapPages) \in Nat
  BY <1>1
<1>5. \A n \in Starts : StartPages[n][1] \in Page /\ StartPages[n][2] \in {Device, NoFrame}
  BY <1>2
<1> QED
  BY <1>3, <1>4, <1>5 DEF Starts, Heaps

\* No page is mapped twice, and arch_main maps none below 2 MB.
LEMMA PagesDiffer ==
    /\ \A m, n \in Starts : StartPages[m][1] = StartPages[n][1] => m = n
    /\ \A m, n \in Heaps : HeapPages[m] = HeapPages[n] => m = n
    /\ \A m \in Starts, n \in Heaps : StartPages[m][1] # HeapPages[n]
    /\ \A n \in Starts : StartPages[n][1][1] # BootDir
    /\ \A n \in Heaps : HeapPages[n] # <<BootDir, KernelSlot>>
  BY LayoutAssumption DEF Starts, Heaps

\* The mapping of a page is found by a walk through the directory.
LEMMA MappingIs ==
    ASSUME TypeOK
    PROVE  /\ \A v \in Page : Mapping[v] = Walk(v)
           /\ \A v \in Page : dir[v[1]] = NoFrame => Mapping[v] = NoFrame
           /\ \A v \in Page : dir[v[1]] # NoFrame => Mapping[v] = mem[dir[v[1]]][v[2]]
           /\ \A v \in Page : Mapping[v] \in Entry
<1>1. \A v \in Page : Mapping[v] = Walk(v)
  BY DEF Mapping
<1>2. \A v \in Page : Walk(v) \in Entry
  <2> SUFFICES ASSUME NEW v \in Page PROVE Walk(v) \in Entry
    OBVIOUS
  <2>1. v[1] \in Dir /\ v[2] \in Slot
    BY PageParts
  <2>2. dir[v[1]] \in Frame \union {BootTable, NoFrame}
    BY <2>1 DEF TypeOK
  <2> QED
    BY <2>1, <2>2 DEF TypeOK, Walk, Entry
<1> QED
  BY <1>1, <1>2 DEF Walk

\* Steps that leave the directory and the tables alone keep the mapping.
LEMMA MappingStays ==
    ASSUME UNCHANGED <<dir, mem>>
    PROVE  Mapping' = Mapping
  BY DEF Mapping, Walk

\* The recursive window leads to the table the directory names whenever
\* map_page or unmap_page goes through it.
LEMMA TableIs ==
    ASSUME IInv, pc \in {"entry", "clear", "scan"}
    PROVE  /\ dir[page[1]] # NoFrame /\ Table(page[1]) = dir[page[1]]
           /\ page \in Page /\ page[1] \in Dir /\ page[2] \in Slot
           /\ Mapping[page] = mem[dir[page[1]]][page[2]]
<1>1. page \in Page /\ page[1] \in Dir /\ page[2] \in Slot
  BY PageParts DEF IInv, TypeOK
<1>2. dir[page[1]] # NoFrame
  <2>1. CASE pc \in {"entry", "scan"}
    BY <2>1 DEF IInv, Tables
  <2>2. CASE pc = "clear"
    <3>1. phase = "undo" /\ k < failed_idx /\ page = HeapPages[k] /\ k \in Heaps
      BY <2>2, PagesAre DEF IInv, TypeOK, Control, Calling, Heaps
    <3>2. Mapping[page] \in Frame
      BY <2>2, <3>1 DEF IInv, Progress, HeapNow
    <3> QED
      BY <1>1, <3>2, MappingIs, Kinds DEF IInv
  <2> QED
    BY <2>1, <2>2
<1>3. Table(page[1]) = dir[page[1]]
  BY <1>1, <1>2 DEF IInv, Cached, Table
<1> QED
  BY <1>1, <1>2, <1>3, MappingIs DEF IInv

-----------------------------------------------------------------------------
(* Types *)

\* The types of the parameters in a call.
LEMMA CallTypes ==
    ASSUME IInv, pc # "idle"
    PROVE  /\ page \in Page /\ page[1] \in Dir /\ page[2] \in Slot
           /\ pc \in {"directory", "new", "entry"} => phys \in Frame \union {Device}
           /\ pc \in {"new", "release", "release_table"} => transit \in Frame
           /\ pc \notin {"new", "release", "release_table"} => transit = NoFrame
<1>1. page \in Page /\ page[1] \in Dir /\ page[2] \in Slot
  BY PageParts DEF IInv, TypeOK
<1>2. pc \in {"directory", "new", "entry"} => phys \in Frame \union {Device}
  BY DEF IInv, Control, Calling
<1>3. /\ pc \in {"new", "release", "release_table"} => transit \in Frame
      /\ pc \notin {"new", "release", "release_table"} => transit = NoFrame
  BY DEF IInv, TypeOK, Control
<1> QED
  BY <1>1, <1>2, <1>3

\* Type correctness of the initial states.
LEMMA TypesStart == Init => TypeOK
<1> SUFFICES ASSUME Init PROVE TypeOK
  OBVIOUS
<1>1. /\ free \subseteq Frame /\ allocated \subseteq Frame /\ lost \subseteq Frame
      /\ transit \in Frame \union {NoFrame}
      /\ phase \in {"start", "heap", "undo", "done", "failed", "panic"}
      /\ k \in Nat /\ failed_idx \in Nat
      /\ pc = "idle"
      /\ phys \in Frame \union {NoFrame, Device}
      /\ kmalloc_init \in BOOLEAN /\ dir_created \in BOOLEAN
  BY DEF Init
<1>2. page \in Page
  BY Kinds, PageParts DEF Init
<1>3. dir \in [Dir -> Frame \union {BootTable, NoFrame}]
  BY DEF Init
<1>4. tlb \in [Page -> Entry] /\ win \in [Dir -> Frame \union {BootTable, NoFrame}]
  BY DEF Init, Entry
<1>5. mem \in [Frame \union {BootTable} -> [Slot -> Entry]]
  <2>1. Blank \in [Slot -> Entry]
    BY DEF Blank, Entry
  <2>2. [Slot -> {Ident, NoFrame}] \subseteq [Slot -> Entry]
    BY DEF Entry
  <2>3. PICK low \in [Slot -> {Ident, NoFrame}] :
           mem = [f \in Frame \union {BootTable} |-> IF f = BootTable THEN low ELSE Blank]
    BY DEF Init
  <2> QED
    BY <2>1, <2>2, <2>3
<1> QED
  BY <1>1, <1>2, <1>3, <1>4, <1>5 DEF TypeOK

\* Every step keeps the types: entries are written to tables only.
LEMMA TypesKept ==
    ASSUME IInv, [Next]_vars
    PROVE  TypeOK'
<1> USE DEF IInv
<1>1. CASE UseTable
  BY <1>1 DEF UseTable, TypeOK, pool, cache, boot
<1>2. CASE TakeTable
  BY <1>2 DEF TakeTable, TypeOK, cache, boot
<1>3. CASE NoTable
  BY <1>3 DEF NoTable, Return, TypeOK, pool, cache, boot
<1>4. CASE NewTable
  <2>1. page[1] \in Dir /\ transit \in Frame
    BY <1>4, CallTypes DEF NewTable
  <2>2. mem' \in [Frame \union {BootTable} -> [Slot -> Entry]]
    <3>1. PICK content \in [Slot -> {NoFrame, Junk}] : mem' = [mem EXCEPT ![transit] = content]
      BY <1>4 DEF NewTable
    <3>2. content \in [Slot -> Entry]
      BY DEF Entry
    <3> QED
      BY <2>1, <3>1, <3>2 DEF TypeOK
  <2> QED
    BY <1>4, <2>1, <2>2 DEF NewTable, TypeOK, cache, boot
<1>5. CASE Refuse
  <2>1. /\ dir[page[1]] # NoFrame /\ Table(page[1]) = dir[page[1]] /\ page[1] \in Dir
    BY <1>5, TableIs DEF Refuse
  <2> QED
    BY <1>5, <2>1 DEF Refuse, Return, TypeOK, pool, boot
<1>6. CASE SetEntry
  <2>1. /\ dir[page[1]] # NoFrame /\ Table(page[1]) = dir[page[1]]
        /\ page[1] \in Dir /\ page[2] \in Slot
    BY <1>6, TableIs DEF SetEntry
  <2>2. dir[page[1]] \in Frame \union {BootTable} /\ phys \in Entry
    BY <1>6, <2>1, CallTypes DEF SetEntry, TypeOK, Entry
  <2>3. mem' = [mem EXCEPT ![dir[page[1]]] = [@ EXCEPT ![page[2]] = phys]]
    BY <1>6, <2>1 DEF SetEntry
  <2>4. mem' \in [Frame \union {BootTable} -> [Slot -> Entry]]
    BY <2>1, <2>2, <2>3 DEF TypeOK
  <2> QED
    BY <1>6, <2>1, <2>2, <2>4 DEF SetEntry, TypeOK, pool, boot
<1>7. CASE Flush
  BY <1>7 DEF Flush, Return, TypeOK, pool, boot, Entry
<1>8. CASE ClearEntry
  <2>1. /\ dir[page[1]] # NoFrame /\ Table(page[1]) = dir[page[1]]
        /\ page[1] \in Dir /\ page[2] \in Slot
    BY <1>8, TableIs DEF ClearEntry
  <2>2. dir[page[1]] \in Frame \union {BootTable} /\ NoFrame \in Entry
    BY <2>1 DEF TypeOK, Entry
  <2>3. win' \in [Dir -> Frame \union {BootTable, NoFrame}]
    BY <1>8, <2>1, <2>2 DEF ClearEntry, TypeOK
  <2>4. /\ \/ mem' = mem
           \/ mem' = [mem EXCEPT ![dir[page[1]]] = [@ EXCEPT ![page[2]] = NoFrame]]
        /\ \/ UNCHANGED <<allocated, transit>>
           \/ allocated' \subseteq allocated /\ transit' \in allocated
        /\ UNCHANGED <<free, k, failed_idx>>
        /\ phase' \in {phase, "panic"}
        /\ pc' \in {"idle", "release", "-1"}
    BY <1>8, <2>1 DEF ClearEntry, pool, boot, Return
  <2>5. mem' \in [Frame \union {BootTable} -> [Slot -> Entry]]
    BY <2>1, <2>2, <2>4 DEF TypeOK
  <2>6. UNCHANGED <<dir, tlb, page, phys, kmalloc_init, dir_created, lost>>
    BY <1>8 DEF ClearEntry
  <2> QED
    BY <2>3, <2>4, <2>5, <2>6 DEF TypeOK
<1>9. CASE Release
  BY <1>9, CallTypes DEF Release, TypeOK, cache, boot
<1>10. CASE KeepTable
  BY <1>10 DEF KeepTable, TypeOK, pool, cache, boot
<1>11. CASE FreeTable
  <2>1. page[1] \in Dir /\ dir[page[1]] # NoFrame
    BY <1>11, TableIs DEF FreeTable
  <2>2. dir[page[1]] \in Frame
    <3>1. dir[page[1]] # BootTable
      <4>1. mem[dir[page[1]]] = Blank
        BY <1>11, TableIs DEF FreeTable, Unused
      <4>2. mem[BootTable] # Blank
        BY Kinds DEF Tables, Blank
      <4> QED
        BY <4>1, <4>2
    <3> QED
      BY <2>1, <3>1 DEF TypeOK
  <2> QED
    BY <1>11, <2>1, <2>2 DEF FreeTable, TypeOK, cache, boot
<1>12. CASE MapDevice
  <2>1. k \in Starts
    BY <1>12 DEF MapDevice, Starts, Control, TypeOK
  <2> QED
    BY <1>12, <2>1, PagesAre DEF MapDevice, Call, TypeOK, pool, cache, boot
<1>13. CASE TakeFrame
  BY <1>13 DEF TakeFrame, TypeOK, cache, boot, call
<1>14. CASE MapFrame
  <2>1. WantsFrame /\ transit \in Frame
    BY <1>14 DEF MapFrame, Control, TypeOK
  <2>2. (phase = "start" /\ k \in Starts) \/ (phase = "heap" /\ k \in Heaps)
    BY <2>1, PagesAre DEF WantsFrame, Starts, Heaps, Control, TypeOK
  <2>3. page' \in Page /\ phys' = transit /\ kmalloc_init' \in BOOLEAN /\ dir_created' = FALSE
        /\ pc' = "directory"
    BY <1>14, <2>2, PagesAre DEF MapFrame, Call
  <2> QED
    BY <1>14, <2>1, <2>3 DEF MapFrame, TypeOK, cache, boot
<1>15. CASE NoFrameLeft
  BY <1>15 DEF NoFrameLeft, TypeOK, pool, cache, call
<1>16. CASE Returned
  <2>1. lost' \subseteq Frame
    BY <1>16 DEF Returned, TypeOK
  <2>2. phase' \in {phase, "undo"} /\ k' \in Nat /\ failed_idx' \in Nat
    BY <1>16 DEF Returned, TypeOK
  <2> QED
    BY <1>16, <2>1, <2>2 DEF Returned, Call, TypeOK, pool, cache
<1>17. CASE StartDone
  BY <1>17 DEF StartDone, TypeOK, pool, cache, call
<1>18. CASE HeapDone
  BY <1>18 DEF HeapDone, TypeOK, pool, cache, call
<1>19. CASE Undo
  <2>1. k \in Heaps
    BY <1>19, PagesAre DEF Undo, UndoEnd, Heaps, Control, TypeOK
  <2> QED
    BY <1>19, <2>1, PagesAre DEF Undo, Call, TypeOK, pool, cache, boot
<1>20. CASE HeapFailed
  BY <1>20 DEF HeapFailed, TypeOK, pool, cache, call
<1>21. CASE Fill
  <2>1. \A v \in Page : Walk(v) \in Entry
    BY MappingIs
  <2> QED
    BY <1>21, <2>1 DEF Fill, TypeOK, pool, boot, call
<1>22. CASE Evict
  BY <1>22 DEF Evict, TypeOK, pool, boot, call, Entry
<1>23. CASE UNCHANGED vars
  BY <1>23 DEF vars, TypeOK, pool, cache, boot, call
<1> QED
  BY <1>1, <1>2, <1>3, <1>4, <1>5, <1>6, <1>7, <1>8, <1>9, <1>10, <1>11, <1>12, <1>13, <1>14,
     <1>15, <1>16, <1>17, <1>18, <1>19, <1>20, <1>21, <1>22, <1>23
  DEF Next, MapStep, UnmapStep, BootStep

-----------------------------------------------------------------------------
(* Steps that leave the directory and its tables alone *)

\* Steps that keep the mapping and bring no page its turn keep Progress.
LEMMA ProgressStays ==
    ASSUME Progress, Mapping' = Mapping,
           \A n \in Starts : StartNow(n) => StartNow(n)',
           \A n \in Heaps : HeapNow(n) <=> HeapNow(n)'
    PROVE  Progress'
  BY DEF Progress, Planned

\* map_page finds a table.
LEMMA UseTableKeeps ==
    ASSUME IInv, UseTable
    PROVE  Rest'
<1> USE DEF IInv
<1>1. /\ pc = "directory" /\ pc' = "entry" /\ dir[page[1]] # NoFrame
      /\ UNCHANGED <<free, allocated, transit, dir, mem, lost>>
      /\ UNCHANGED <<tlb, win, phase, k, failed_idx>>
      /\ UNCHANGED <<page, phys, kmalloc_init, dir_created>>
  BY DEF UseTable, NeedsTable, pool, cache, boot
<1>2. Mapping' = Mapping
  BY <1>1, MappingStays
<1>3. Control'
  BY <1>1, <1>2, CallTypes DEF Control, Calling, WantsFrame, Starts, Heaps
<1>4. Apart'
  BY <1>1, <1>2, CallTypes DEF Apart
<1>5. Tables'
  BY <1>1, <1>2, CallTypes DEF Tables
<1>6. Filled'
  BY <1>1, <1>2, CallTypes DEF Filled
<1>7. Owners'
  BY <1>1, <1>2, CallTypes DEF Owners, Written
<1>8. Progress'
  BY <1>1, <1>2, CallTypes DEF Progress, Planned, StartNow, HeapNow, Written
<1>9. Losses'
  BY <1>1, <1>2, CallTypes DEF Losses, Used, Refused, Drained
<1>10. Cached'
  BY <1>1, <1>2, CallTypes DEF Cached
<1> QED
  BY <1>3, <1>4, <1>5, <1>6, <1>7, <1>8, <1>9, <1>10 DEF Rest

\* get_free_frame has a frame for a table.
LEMMA TakeTableKeeps ==
    ASSUME IInv, TakeTable
    PROVE  Rest'
<1> USE DEF IInv
<1>1. /\ pc = "directory" /\ pc' = "new" /\ dir[page[1]] = NoFrame
      /\ transit' \in free /\ free' = free \ {transit'}
      /\ UNCHANGED <<allocated, dir, mem, lost>>
      /\ UNCHANGED <<tlb, win, phase, k, failed_idx>>
      /\ UNCHANGED <<page, phys, kmalloc_init, dir_created>>
  BY DEF TakeTable, NeedsTable, cache, boot
<1>2. Mapping' = Mapping
  BY <1>1, MappingStays
<1>3. transit = NoFrame /\ phase \in {"start", "heap"} /\ transit' # NoFrame
  BY <1>1, CallTypes, Kinds DEF Control, Calling, TypeOK
<1>4. Control'
  BY <1>1, <1>2, <1>3, CallTypes, Kinds DEF Control, Calling, WantsFrame, Starts, Heaps
<1>5. Apart'
  BY <1>1, <1>2, <1>3, CallTypes, Kinds DEF Apart
<1>6. Tables'
  BY <1>1, <1>2, <1>3, CallTypes, Kinds DEF Tables
<1>7. Filled'
  BY <1>1, <1>2, <1>3, CallTypes, Kinds DEF Filled
<1>8. Owners'
  BY <1>1, <1>2, <1>3, CallTypes, Kinds DEF Owners, Written
<1>9. Progress'
  BY <1>1, <1>2, <1>3, CallTypes, Kinds DEF Progress, Planned, StartNow, HeapNow, Written
<1>10. Losses'
  BY <1>1, <1>2, <1>3, CallTypes, Kinds DEF Losses, Used, Refused, Drained
<1>11. Cached'
  BY <1>1, <1>2, <1>3, CallTypes, Kinds DEF Cached
<1> QED
  BY <1>4, <1>5, <1>6, <1>7, <1>8, <1>9, <1>10, <1>11 DEF Rest

\* There is no frame for a table.
LEMMA NoTableKeeps ==
    ASSUME IInv, NoTable
    PROVE  Rest'
<1> USE DEF IInv
<1>1. /\ pc = "directory" /\ pc' = "-1" /\ free = {}
      /\ UNCHANGED <<free, allocated, transit, dir, mem, lost>>
      /\ UNCHANGED <<tlb, win, phase, k, failed_idx>>
      /\ UNCHANGED <<page, phys, kmalloc_init, dir_created>>
  BY DEF NoTable, NeedsTable, Return, pool, cache, boot
<1>2. Mapping' = Mapping
  BY <1>1, MappingStays
<1>3. Control'
  BY <1>1, <1>2, CallTypes DEF Control, Calling, WantsFrame, Starts, Heaps
<1>4. Apart'
  BY <1>1, <1>2, CallTypes DEF Apart
<1>5. Tables'
  BY <1>1, <1>2, CallTypes DEF Tables
<1>6. Filled'
  BY <1>1, <1>2, CallTypes DEF Filled
<1>7. Owners'
  BY <1>1, <1>2, CallTypes DEF Owners, Written
<1>8. Progress'
  BY <1>1, <1>2, CallTypes DEF Progress, Planned, StartNow, HeapNow, Written
<1>9. Losses'
  BY <1>1, <1>2, CallTypes DEF Losses, Used, Refused, Drained
<1>10. Cached'
  BY <1>1, <1>2, CallTypes DEF Cached
<1> QED
  BY <1>3, <1>4, <1>5, <1>6, <1>7, <1>8, <1>9, <1>10 DEF Rest

\* The call ends with a flush of its page.
LEMMA FlushKeeps ==
    ASSUME IInv, Flush
    PROVE  Rest'
<1> USE DEF IInv
<1>1. /\ pc = "flush" /\ pc' = "0"
      /\ tlb' = [tlb EXCEPT ![page] = NoFrame]
      /\ UNCHANGED <<free, allocated, transit, dir, mem, lost>>
      /\ UNCHANGED <<win, phase, k, failed_idx>>
      /\ UNCHANGED <<page, phys, kmalloc_init, dir_created>>
  BY DEF Flush, Return, pool, boot
<1>2. Mapping' = Mapping
  BY <1>1, MappingStays
<1>3. Control'
  BY <1>1, <1>2, CallTypes DEF Control, Calling, WantsFrame, Starts, Heaps
<1>4. Apart'
  BY <1>1, <1>2, CallTypes DEF Apart
<1>5. Tables'
  BY <1>1, <1>2, CallTypes DEF Tables
<1>6. Filled'
  BY <1>1, <1>2, CallTypes DEF Filled
<1>7. Owners'
  BY <1>1, <1>2, CallTypes DEF Owners, Written
<1>8. Progress'
  BY <1>1, <1>2, CallTypes DEF Progress, Planned, StartNow, HeapNow, Written
<1>9. Losses'
  BY <1>1, <1>2, CallTypes DEF Losses, Used, Refused, Drained
<1>10. Cached'
  BY <1>1, <1>2, CallTypes DEF Cached, TypeOK
<1> QED
  BY <1>3, <1>4, <1>5, <1>6, <1>7, <1>8, <1>9, <1>10 DEF Rest

\* free_frame returns.
LEMMA ReleaseKeeps ==
    ASSUME IInv, Release
    PROVE  Rest'
<1> USE DEF IInv
<1>1. /\ \/ pc = "release" /\ pc' = "scan"
         \/ pc = "release_table" /\ pc' = "flush"
      /\ free' = free \union {transit} /\ transit' = NoFrame
      /\ UNCHANGED <<allocated, dir, mem, lost>>
      /\ UNCHANGED <<tlb, win, phase, k, failed_idx>>
      /\ UNCHANGED <<page, phys, kmalloc_init, dir_created>>
  BY DEF Release, cache, boot
<1>2. Mapping' = Mapping
  BY <1>1, MappingStays
<1>3. transit \in Frame /\ phase = "undo" /\ phys = NoFrame /\ free \subseteq Frame /\ allocated \subseteq Frame
  BY <1>1, CallTypes DEF Control, Calling, TypeOK
<1>4. Control'
  BY <1>1, <1>2, <1>3 DEF Control, Calling, WantsFrame, Starts, Heaps
<1>5. Apart'
  BY <1>1, <1>2, <1>3, Kinds DEF Apart
<1>6. Tables'
  BY <1>1, <1>2, <1>3 DEF Tables
<1>7. Filled'
  BY <1>1, <1>2, <1>3 DEF Filled
<1>8. Owners'
  BY <1>1, <1>2, <1>3 DEF Owners, Written
<1>9. Progress'
  BY <1>1, <1>2, <1>3 DEF Progress, Planned, StartNow, HeapNow, Written
<1>10. Losses'
  BY <1>1, <1>2, <1>3 DEF Losses, Used, Refused, Drained
<1>11. Cached'
  BY <1>1, <1>2, <1>3 DEF Cached
<1> QED
  BY <1>4, <1>5, <1>6, <1>7, <1>8, <1>9, <1>10, <1>11 DEF Rest

\* The table has entries left.
LEMMA KeepTableKeeps ==
    ASSUME IInv, KeepTable
    PROVE  Rest'
<1> USE DEF IInv
<1>1. /\ pc = "scan" /\ pc' = "flush"
      /\ dir[page[1]] # NoFrame /\ mem[dir[page[1]]] # Blank
      /\ UNCHANGED <<free, allocated, transit, dir, mem, lost>>
      /\ UNCHANGED <<tlb, win, phase, k, failed_idx>>
      /\ UNCHANGED <<page, phys, kmalloc_init, dir_created>>
  BY TableIs DEF KeepTable, Unused, pool, cache, boot
<1>2. Mapping' = Mapping
  BY <1>1, MappingStays
<1>3. phase = "undo" /\ phys = NoFrame
  BY <1>1 DEF Control, Calling
<1>4. Control'
  BY <1>1, <1>2, <1>3, CallTypes DEF Control, Calling, WantsFrame, Starts, Heaps
<1>5. Apart'
  BY <1>1, <1>2, <1>3, CallTypes DEF Apart
<1>6. Tables'
  BY <1>1, <1>2, <1>3, CallTypes DEF Tables
<1>7. Filled'
  BY <1>1, <1>2, <1>3, CallTypes DEF Filled
<1>8. Owners'
  BY <1>1, <1>2, <1>3, CallTypes DEF Owners, Written
<1>9. Progress'
  BY <1>1, <1>2, <1>3, CallTypes DEF Progress, Planned, StartNow, HeapNow, Written
<1>10. Losses'
  BY <1>1, <1>2, <1>3, CallTypes DEF Losses, Used, Refused, Drained
<1>11. Cached'
  BY <1>1, <1>2, <1>3, CallTypes DEF Cached
<1> QED
  BY <1>4, <1>5, <1>6, <1>7, <1>8, <1>9, <1>10, <1>11 DEF Rest

\* get_free_frame has a frame for a page.
LEMMA TakeFrameKeeps ==
    ASSUME IInv, TakeFrame
    PROVE  Rest'
<1> USE DEF IInv
<1>1. /\ pc = "idle" /\ transit = NoFrame /\ WantsFrame
      /\ transit' \in free /\ free' = free \ {transit'}
      /\ UNCHANGED <<allocated, dir, mem, lost>>
      /\ UNCHANGED <<tlb, win, phase, k, failed_idx>>
      /\ UNCHANGED <<pc, page, phys, kmalloc_init, dir_created>>
  BY DEF TakeFrame, cache, boot, call
<1>2. Mapping' = Mapping
  BY <1>1, MappingStays
<1>3. Control'
  BY <1>1, <1>2, Kinds DEF Control, Calling, WantsFrame, Starts, Heaps
<1>4. Apart'
  BY <1>1, <1>2, Kinds DEF Apart
<1>5. Tables'
  BY <1>1, <1>2, Kinds DEF Tables
<1>6. Filled'
  BY <1>1, <1>2, Kinds DEF Filled
<1>7. Owners'
  BY <1>1, <1>2, Kinds DEF Owners, Written
<1>8. Progress'
  BY <1>1, <1>2, Kinds DEF Progress, Planned, StartNow, HeapNow, Written
<1>9. Losses'
  BY <1>1, <1>2, Kinds DEF Losses, Used, Refused, Drained
<1>10. Cached'
  BY <1>1, <1>2, Kinds DEF Cached
<1> QED
  BY <1>3, <1>4, <1>5, <1>6, <1>7, <1>8, <1>9, <1>10 DEF Rest

\* The processor caches a translation.
LEMMA FillKeeps ==
    ASSUME IInv, Fill
    PROVE  Rest'
<1> USE DEF IInv
<1>1. /\ \/ \E v \in Page : tlb' = [tlb EXCEPT ![v] = Walk(v)] /\ win' = win
         \/ \E d \in Dir : win' = [win EXCEPT ![d] = dir[d]] /\ tlb' = tlb
      /\ UNCHANGED <<free, allocated, transit, dir, mem, lost>>
      /\ UNCHANGED <<phase, k, failed_idx>>
      /\ UNCHANGED <<pc, page, phys, kmalloc_init, dir_created>>
  BY DEF Fill, pool, boot, call
<1>2. Mapping' = Mapping
  BY <1>1, MappingStays
<1>3. Control'
  BY <1>1, <1>2 DEF Control, Calling, WantsFrame, Starts, Heaps
<1>4. Apart'
  BY <1>1, <1>2 DEF Apart
<1>5. Tables'
  BY <1>1, <1>2 DEF Tables
<1>6. Filled'
  BY <1>1, <1>2 DEF Filled
<1>7. Owners'
  BY <1>1, <1>2 DEF Owners, Written
<1>8. Progress'
  BY <1>1, <1>2 DEF Progress, Planned, StartNow, HeapNow, Written
<1>9. Losses'
  BY <1>1, <1>2 DEF Losses, Used, Refused, Drained
<1>10. Cached'
  BY <1>1, <1>2, MappingIs DEF Cached, TypeOK
<1> QED
  BY <1>3, <1>4, <1>5, <1>6, <1>7, <1>8, <1>9, <1>10 DEF Rest

\* The processor drops one.
LEMMA EvictKeeps ==
    ASSUME IInv, Evict
    PROVE  Rest'
<1> USE DEF IInv
<1>1. /\ \/ \E v \in Page : tlb' = [tlb EXCEPT ![v] = NoFrame] /\ win' = win
         \/ \E d \in Dir : win' = [win EXCEPT ![d] = NoFrame] /\ tlb' = tlb
      /\ UNCHANGED <<free, allocated, transit, dir, mem, lost>>
      /\ UNCHANGED <<phase, k, failed_idx>>
      /\ UNCHANGED <<pc, page, phys, kmalloc_init, dir_created>>
  BY DEF Evict, pool, boot, call
<1>2. Mapping' = Mapping
  BY <1>1, MappingStays
<1>3. Control'
  BY <1>1, <1>2 DEF Control, Calling, WantsFrame, Starts, Heaps
<1>4. Apart'
  BY <1>1, <1>2 DEF Apart
<1>5. Tables'
  BY <1>1, <1>2 DEF Tables
<1>6. Filled'
  BY <1>1, <1>2 DEF Filled
<1>7. Owners'
  BY <1>1, <1>2 DEF Owners, Written
<1>8. Progress'
  BY <1>1, <1>2 DEF Progress, Planned, StartNow, HeapNow, Written
<1>9. Losses'
  BY <1>1, <1>2 DEF Losses, Used, Refused, Drained
<1>10. Cached'
  BY <1>1, <1>2 DEF Cached, TypeOK
<1> QED
  BY <1>3, <1>4, <1>5, <1>6, <1>7, <1>8, <1>9, <1>10 DEF Rest

\* The undoing is over.
LEMMA HeapFailedKeeps ==
    ASSUME IInv, HeapFailed
    PROVE  Rest'
<1> USE DEF IInv
<1>1. /\ phase = "undo" /\ phase' = "failed" /\ pc = "idle" /\ k >= failed_idx
      /\ UNCHANGED <<free, allocated, transit, dir, mem, lost>>
      /\ UNCHANGED <<tlb, win, k, failed_idx>>
      /\ UNCHANGED <<pc, page, phys, kmalloc_init, dir_created>>
  BY DEF HeapFailed, UndoEnd, pool, cache, call
<1>0. k \in Nat /\ failed_idx \in Nat
  BY DEF TypeOK
<1>2. Mapping' = Mapping
  BY <1>1, MappingStays
<1>3. Control'
  BY <1>0, <1>1, <1>2, PagesAre DEF Control, Calling, WantsFrame, Starts, Heaps
<1>4. Apart'
  BY <1>0, <1>1, <1>2, PagesAre DEF Apart
<1>5. Tables'
  BY <1>0, <1>1, <1>2, PagesAre DEF Tables
<1>6. Filled'
  BY <1>0, <1>1, <1>2, PagesAre DEF Filled
<1>7. Owners'
  BY <1>0, <1>1, <1>2, PagesAre DEF Owners, Written
<1>8. Progress'
  <2>1. \A n \in Starts : StartNow(n) => StartNow(n)'
    BY <1>0, <1>1 DEF StartNow
  <2>2. \A n \in Heaps : ~HeapNow(n) /\ ~HeapNow(n)'
    BY <1>0, <1>1, PagesAre DEF HeapNow, Written, Heaps
  <2> QED
    BY <1>2, <2>1, <2>2, ProgressStays
<1>9. Losses'
  BY <1>0, <1>1, <1>2, PagesAre DEF Losses, Used, Refused, Drained
<1>10. Cached'
  BY <1>0, <1>1, <1>2, PagesAre DEF Cached
<1> QED
  BY <1>3, <1>4, <1>5, <1>6, <1>7, <1>8, <1>9, <1>10 DEF Rest

\* The heap is mapped.
LEMMA HeapDoneKeeps ==
    ASSUME IInv, HeapDone
    PROVE  Rest'
<1> USE DEF IInv
<1>1. /\ phase = "heap" /\ phase' = "done" /\ pc = "idle" /\ k > Len(HeapPages) /\ k' = 1
      /\ UNCHANGED <<free, allocated, transit, dir, mem, lost>>
      /\ UNCHANGED <<tlb, win, failed_idx>>
      /\ UNCHANGED <<pc, page, phys, kmalloc_init, dir_created>>
  BY DEF HeapDone, pool, cache, call
<1>0. k \in Nat /\ failed_idx \in Nat
  BY DEF TypeOK
<1>2. Mapping' = Mapping
  BY <1>1, MappingStays
<1>3. Control'
  BY <1>0, <1>1, <1>2, PagesAre DEF Control, Calling, WantsFrame, Starts, Heaps
<1>4. Apart'
  BY <1>0, <1>1, <1>2, PagesAre DEF Apart
<1>5. Tables'
  BY <1>0, <1>1, <1>2, PagesAre DEF Tables
<1>6. Filled'
  BY <1>0, <1>1, <1>2, PagesAre DEF Filled
<1>7. Owners'
  BY <1>0, <1>1, <1>2, PagesAre DEF Owners, Written
<1>8. Progress'
  <2>1. \A n \in Starts : StartNow(n) => StartNow(n)'
    BY <1>0, <1>1 DEF StartNow
  <2>2. \A n \in Heaps : HeapNow(n) /\ HeapNow(n)'
    BY <1>0, <1>1, PagesAre DEF HeapNow, Heaps
  <2> QED
    BY <1>2, <2>1, <2>2, ProgressStays
<1>9. Losses'
  BY <1>0, <1>1, <1>2, PagesAre DEF Losses, Used, Refused, Drained
<1>10. Cached'
  BY <1>0, <1>1, <1>2, PagesAre DEF Cached
<1> QED
  BY <1>3, <1>4, <1>5, <1>6, <1>7, <1>8, <1>9, <1>10 DEF Rest

\* arch_main has mapped its pages.
LEMMA StartDoneKeeps ==
    ASSUME IInv, StartDone
    PROVE  Rest'
<1> USE DEF IInv
<1>1. /\ phase = "start" /\ phase' = "heap" /\ pc = "idle" /\ k > Len(StartPages) /\ k' = 1
      /\ UNCHANGED <<free, allocated, transit, dir, mem, lost>>
      /\ UNCHANGED <<tlb, win, failed_idx>>
      /\ UNCHANGED <<pc, page, phys, kmalloc_init, dir_created>>
  BY DEF StartDone, pool, cache, call
<1>0. k \in Nat /\ failed_idx \in Nat
  BY DEF TypeOK
<1>2. Mapping' = Mapping
  BY <1>1, MappingStays
<1>3. Control'
  BY <1>0, <1>1, <1>2, PagesAre DEF Control, Calling, WantsFrame, Starts, Heaps
<1>4. Apart'
  BY <1>0, <1>1, <1>2, PagesAre DEF Apart
<1>5. Tables'
  BY <1>0, <1>1, <1>2, PagesAre DEF Tables
<1>6. Filled'
  BY <1>0, <1>1, <1>2, PagesAre DEF Filled
<1>7. Owners'
  BY <1>0, <1>1, <1>2, PagesAre DEF Owners, Written
<1>8. Progress'
  <2>1. \A n \in Starts : StartNow(n) => StartNow(n)'
    BY <1>0, <1>1 DEF StartNow
  <2>2. \A n \in Heaps : ~HeapNow(n) /\ ~HeapNow(n)'
    BY <1>0, <1>1, PagesAre DEF HeapNow, Written, Heaps
  <2> QED
    BY <1>2, <2>1, <2>2, ProgressStays
<1>9. Losses'
  BY <1>0, <1>1, <1>2, PagesAre DEF Losses, Used, Refused, Drained
<1>10. Cached'
  BY <1>0, <1>1, <1>2, PagesAre DEF Cached
<1> QED
  BY <1>3, <1>4, <1>5, <1>6, <1>7, <1>8, <1>9, <1>10 DEF Rest

\* A page whose call has not written yet is mapped nowhere.
LEMMA NotYet ==
    ASSUME IInv, pc \in {"directory", "new", "entry"}
    PROVE  /\ page \in Page /\ Mapping[page] \notin Frame \union {Device}
           /\ \A n \in Starts : StartNow(n) => StartPages[n][1] # page
           /\ \A n \in Heaps : HeapNow(n) => HeapPages[n] # page
<1> USE DEF IInv
<1>1. /\ page \in Page /\ ~Written /\ k \in Nat
      /\ \/ phase = "start" /\ k \in Starts /\ page = StartPages[k][1]
         \/ phase = "heap" /\ k \in Heaps /\ page = HeapPages[k]
  BY CallTypes DEF Control, Calling, Written, TypeOK
<1>2. \A n \in Starts : StartNow(n) => StartPages[n][1] # page
  BY <1>1, PagesAre, PagesDiffer DEF StartNow
<1>3. \A n \in Heaps : HeapNow(n) => HeapPages[n] # page
  BY <1>1, PagesAre, PagesDiffer DEF HeapNow
<1>4. ~Planned(page)
  BY <1>2, <1>3 DEF Planned
<1> QED
  BY <1>1, <1>2, <1>3, <1>4 DEF Progress

\* map_page refuses: what it found is an entry nobody wrote.
LEMMA RefuseKeeps ==
    ASSUME IInv, Refuse
    PROVE  Rest'
<1> USE DEF IInv
<1>1. /\ pc = "entry" /\ pc' = "-1" /\ ~kmalloc_init
      /\ win' = [win EXCEPT ![page[1]] = dir[page[1]]]
      /\ mem[dir[page[1]]][page[2]] # NoFrame
      /\ UNCHANGED <<free, allocated, transit, dir, mem, lost>>
      /\ UNCHANGED <<tlb, phase, k, failed_idx>>
      /\ UNCHANGED <<page, phys, kmalloc_init, dir_created>>
  BY TableIs DEF Refuse, Return, pool, boot
<1>2. Mapping' = Mapping
  BY <1>1, MappingStays
<1>3. Mapping[page] = Junk
  <2>1. phase = "start" /\ k \in Starts /\ page = StartPages[k][1]
    BY <1>1 DEF Control, Calling
  <2>2. page \in Page /\ page[1] # BootDir /\ Mapping[page] # NoFrame
    BY <1>1, <2>1, PagesAre, PagesDiffer, TableIs
  <2>3. Mapping[page] # Ident /\ Mapping[page] \notin Frame \union {Device}
    BY <1>1, <2>2, NotYet DEF Owners
  <2> QED
    BY <2>2, <2>3, MappingIs DEF Entry
<1>4. Control'
  BY <1>1, CallTypes DEF Control, Calling, WantsFrame, Starts, Heaps
<1>5. Apart'
  BY <1>1 DEF Apart
<1>6. Tables'
  BY <1>1 DEF Tables
<1>7. Filled'
  <2>1. mem[dir[page[1]]] # Blank
    BY <1>1, TableIs DEF Blank
  <2> QED
    BY <1>1, <2>1 DEF Filled
<1>8. Owners'
  BY <1>1, <1>2 DEF Owners, Written
<1>9. Progress'
  BY <1>1, <1>2 DEF Progress, Planned, StartNow, HeapNow, Written
<1>10. Losses'
  BY <1>1, <1>2, <1>3 DEF Losses, Used, Refused, Drained
<1>11. Cached'
  BY <1>1, <1>2, CallTypes DEF Cached, TypeOK
<1> QED
  BY <1>4, <1>5, <1>6, <1>7, <1>8, <1>9, <1>10, <1>11 DEF Rest

\* arch_main maps registers.
LEMMA MapDeviceKeeps ==
    ASSUME IInv, MapDevice
    PROVE  Rest'
<1> USE DEF IInv
<1>1. /\ phase = "start" /\ pc = "idle" /\ k <= Len(StartPages) /\ StartPages[k][2] = Device
      /\ pc' = "directory" /\ page' = StartPages[k][1] /\ phys' = Device /\ kmalloc_init' = FALSE
      /\ UNCHANGED <<free, allocated, transit, dir, mem, lost>>
      /\ UNCHANGED <<tlb, win, phase, k, failed_idx>>
  BY DEF MapDevice, Call, pool, cache, boot
<1>2. Mapping' = Mapping
  BY <1>1, MappingStays
<1>3. k \in Starts /\ phys = NoFrame /\ transit = NoFrame
  BY <1>1, PagesAre DEF Control, Starts, WantsFrame, TypeOK
<1>4. Control'
  BY <1>1, <1>3 DEF Control, Calling
<1>5. Apart'
  BY <1>1 DEF Apart
<1>6. Tables'
  BY <1>1 DEF Tables
<1>7. Filled'
  BY <1>1 DEF Filled
<1>8. Owners'
  BY <1>1, <1>2, Kinds DEF Owners, Written
<1>9. Progress'
  BY <1>1, <1>2 DEF Progress, Planned, StartNow, HeapNow, Written
<1>10. Losses'
  BY <1>1, <1>2, <1>3, Kinds DEF Losses, Used, Refused, Drained, TypeOK
<1>11. Cached'
  BY <1>1, <1>2 DEF Cached
<1> QED
  BY <1>4, <1>5, <1>6, <1>7, <1>8, <1>9, <1>10, <1>11 DEF Rest

\* The frame taken is to be mapped.
LEMMA MapFrameKeeps ==
    ASSUME IInv, MapFrame
    PROVE  Rest'
<1> USE DEF IInv
<1>1. /\ pc = "idle" /\ transit # NoFrame /\ allocated' = allocated \union {transit}
      /\ transit' = NoFrame /\ pc' = "directory" /\ phys' = transit
      /\ UNCHANGED <<free, dir, mem, lost>>
      /\ UNCHANGED <<tlb, win, phase, k, failed_idx>>
  BY DEF MapFrame, Call, cache, boot
<1>2. Mapping' = Mapping
  BY <1>1, MappingStays
<1>3. /\ transit \in Frame /\ transit \notin free /\ transit \notin allocated /\ phys = NoFrame
      /\ free \subseteq Frame /\ allocated \subseteq Frame
  BY <1>1 DEF Control, Apart, TypeOK
<1>4. \/ /\ phase = "start" /\ k \in Starts /\ page' = StartPages[k][1] /\ kmalloc_init' = FALSE
         /\ StartPages[k][2] # Device
      \/ phase = "heap" /\ k \in Heaps /\ page' = HeapPages[k] /\ kmalloc_init' = TRUE
  <2>1. WantsFrame /\ k \in Nat
    BY <1>1 DEF Control, TypeOK
  <2> QED
    BY <2>1, PagesAre DEF MapFrame, Call, WantsFrame, Starts, Heaps, Control
<1>5. Control'
  BY <1>1, <1>3, <1>4 DEF Control, Calling
<1>6. Apart'
  BY <1>1, <1>3, Kinds DEF Apart
<1>7. Tables'
  BY <1>1 DEF Tables
<1>8. Filled'
  BY <1>1 DEF Filled
<1>9. Owners'
  <2>1. \A d \in Dir : dir[d] # transit
    BY <1>3 DEF Tables
  <2>2. \A v \in Page : Mapping[v] # transit
    BY <1>3 DEF Owners
  <2> QED
    BY <1>1, <1>2, <1>3, <2>1, <2>2 DEF Owners, Written
<1>10. Progress'
  <2>1. \A n \in Starts : StartNow(n) => StartNow(n)'
    BY <1>1 DEF StartNow, Written
  <2>2. \A n \in Heaps : HeapNow(n) <=> HeapNow(n)'
    BY <1>1, <1>4 DEF HeapNow, Written
  <2> QED
    BY <1>2, <2>1, <2>2, ProgressStays
<1>11. Losses'
  BY <1>1, <1>2, <1>3, <1>4, Kinds DEF Losses, Used, Refused, Drained
<1>12. Cached'
  BY <1>1, <1>2 DEF Cached
<1> QED
  BY <1>5, <1>6, <1>7, <1>8, <1>9, <1>10, <1>11, <1>12 DEF Rest

\* There is no frame for a page.
LEMMA NoFrameLeftKeeps ==
    ASSUME IInv, NoFrameLeft
    PROVE  Rest'
<1> USE DEF IInv
<1>1. /\ pc = "idle" /\ transit = NoFrame /\ free = {}
      /\ \/ phase = "start" /\ phase' = "panic" /\ UNCHANGED <<k, failed_idx>>
         \/ phase = "heap" /\ k \in Heaps /\ phase' = "undo" /\ k' = 1 /\ failed_idx' = k
      /\ UNCHANGED <<free, allocated, transit, dir, mem, lost>>
      /\ UNCHANGED <<tlb, win, pc, page, phys, kmalloc_init, dir_created>>
  <2>1. k \in Nat /\ k >= 1
    BY DEF TypeOK, Control
  <2> QED
    BY <2>1, PagesAre DEF NoFrameLeft, WantsFrame, pool, cache, call, Heaps
<1>2. Mapping' = Mapping
  BY <1>1, MappingStays
<1>3. Control'
  BY <1>1, PagesAre DEF Control, Heaps
<1>4. Apart'
  BY <1>1 DEF Apart
<1>5. Tables'
  BY <1>1 DEF Tables
<1>6. Filled'
  BY <1>1 DEF Filled
<1>7. Owners'
  BY <1>1, <1>2 DEF Owners, Written
<1>8. Progress'
  <2>1. \A n \in Starts : StartNow(n) => StartNow(n)'
    BY <1>1 DEF StartNow
  <2>2. \A n \in Heaps : HeapNow(n) <=> HeapNow(n)'
    BY <1>1, PagesAre DEF HeapNow, Written, Heaps
  <2> QED
    BY <1>2, <2>1, <2>2, ProgressStays
<1>9. Losses'
  BY <1>1, <1>2 DEF Losses, Used, Refused, Drained
<1>10. Cached'
  BY <1>1, <1>2 DEF Cached
<1> QED
  BY <1>3, <1>4, <1>5, <1>6, <1>7, <1>8, <1>9, <1>10 DEF Rest

\* k_malloc_init unmaps a page.
LEMMA UndoKeeps ==
    ASSUME IInv, Undo
    PROVE  Rest'
<1> USE DEF IInv
<1>1. /\ phase = "undo" /\ pc = "idle" /\ k < failed_idx
      /\ pc' = "clear" /\ page' = HeapPages[k] /\ phys' = NoFrame
      /\ UNCHANGED <<free, allocated, transit, dir, mem, lost>>
      /\ UNCHANGED <<tlb, win, phase, k, failed_idx>>
  BY DEF Undo, UndoEnd, Call, pool, cache, boot, TypeOK
<1>2. Mapping' = Mapping
  BY <1>1, MappingStays
<1>3. transit = NoFrame /\ phys = NoFrame
  BY <1>1 DEF Control, WantsFrame
<1>4. Control'
  BY <1>1, <1>3 DEF Control, Calling
<1>5. Apart'
  BY <1>1 DEF Apart
<1>6. Tables'
  BY <1>1 DEF Tables
<1>7. Filled'
  BY <1>1 DEF Filled
<1>8. Owners'
  BY <1>1, <1>2, <1>3, Kinds DEF Owners, Written
<1>9. Progress'
  BY <1>1, <1>2 DEF Progress, Planned, StartNow, HeapNow, Written
<1>10. Losses'
  BY <1>1, <1>2, <1>3 DEF Losses, Used, Refused, Drained
<1>11. Cached'
  BY <1>1, <1>2 DEF Cached
<1> QED
  BY <1>4, <1>5, <1>6, <1>7, <1>8, <1>9, <1>10, <1>11 DEF Rest

\* A call is over: its frame is mapped, or lost.
LEMMA ReturnedKeeps ==
    ASSUME IInv, Returned
    PROVE  Rest'
<1> USE DEF IInv
<1>1. /\ pc \in {"0", "-1"} /\ pc' = "idle" /\ page' = page /\ phys' = NoFrame
      /\ lost' = (IF phys \in Frame /\ Mapping[page] # phys THEN lost \union {phys} ELSE lost)
      /\ \/ phase = "heap" /\ pc = "-1" /\ phase' = "undo" /\ k' = 1 /\ failed_idx' = k
         \/ ~(phase = "heap" /\ pc = "-1") /\ k' = k + 1 /\ UNCHANGED <<phase, failed_idx>>
      /\ UNCHANGED <<free, allocated, transit, dir, mem, tlb, win>>
  <2>1. page \in Page /\ Mapping[page] = Walk(page)
    BY MappingIs DEF TypeOK
  <2>2. phase # "done"
    BY DEF Returned, Control, Calling
  <2> QED
    BY <2>1, <2>2 DEF Returned, Call, pool, cache
<1>2. Mapping' = Mapping
  BY <1>1, MappingStays
<1>3. /\ Calling /\ transit = NoFrame /\ k \in Nat /\ k >= 1 /\ failed_idx \in Nat
      /\ phase \in {"start", "heap", "undo"}
  BY <1>1, CallTypes DEF Control, TypeOK, Calling
<1>4. Control'
  BY <1>1, <1>3, PagesAre DEF Control, Calling, Starts, Heaps
<1>5. Apart'
  BY <1>1 DEF Apart
<1>6. Tables'
  BY <1>1 DEF Tables
<1>7. Filled'
  BY <1>1 DEF Filled
<1>8. Owners'
  BY <1>1, <1>2, Kinds DEF Owners, Written
<1>9. Progress'
  <2>1. \A n \in Starts : StartNow(n) => StartNow(n)'
    BY <1>1, <1>3, PagesAre DEF StartNow, Written
  <2>2. \A n \in Heaps : HeapNow(n) <=> HeapNow(n)'
    <3>1. CASE phase = "heap"
      BY <1>1, <1>3, <3>1, PagesAre DEF HeapNow, Written, Heaps, Calling
    <3>2. CASE phase = "undo"
      BY <1>1, <1>3, <3>2, PagesAre DEF HeapNow, Written, Heaps, Calling
    <3>3. CASE phase = "start"
      BY <1>1, <1>3, <3>3 DEF HeapNow
    <3> QED
      BY <1>3, <3>1, <3>2, <3>3
  <2> QED
    BY <1>2, <2>1, <2>2, ProgressStays
<1>10. Losses'
  <2>1. \A f \in allocated : Used(f) \/ f \in lost'
    <3>1. page \in Page
      BY DEF TypeOK
    <3> QED
      BY <1>1, <3>1 DEF Losses, Used, TypeOK
  <2>2. \A n \in Starts : Refused(n) => Refused(n)'
    BY <1>1, <1>2, <1>3, PagesAre DEF Refused
  <2>3. CASE lost' = lost
    BY <1>1, <1>2, <1>3, <2>1, <2>2, <2>3, Kinds DEF Losses, Used, Drained
  <2>4. CASE lost' # lost
    <3>1. phys \in Frame /\ Mapping[page] # phys /\ lost' = lost \union {phys} /\ pc = "-1"
          /\ phase # "undo"
      BY <1>1, <1>3, <2>4, Kinds DEF Owners, Written, Calling
    <3>2. (\E n \in Starts : Refused(n)) \/ lost = {}
      BY <1>3, <3>1 DEF Losses, Calling
    <3>3. CASE phase = "start" /\ Mapping[page] = Junk
      <4>1. k \in Starts /\ page = StartPages[k][1] /\ StartPages[k][2] = NoFrame
        BY <1>3, <3>1, <3>3, Kinds, PagesAre DEF Calling
      <4>2. \E n \in Starts : Refused(n)'
        <5>1. ASSUME NEW n \in Starts, n = k PROVE Refused(n)'
          BY <1>1, <1>2, <1>3, <3>3, <4>1, <5>1 DEF Refused
        <5> QED
          BY <4>1, <5>1
      <4> QED
        BY <1>1, <1>2, <2>1, <4>1, <4>2 DEF Losses, Used
    <3>4. CASE phase = "start" /\ Drained
      BY <1>1, <1>2, <2>1, <2>2, <3>1, <3>2, <3>4, Kinds DEF Losses, Used, Drained
    <3>5. CASE phase = "heap"
      BY <1>1, <1>2, <2>1, <2>2, <3>1, <3>2, <3>5 DEF Losses, Used
    <3> QED
      BY <1>3, <3>1, <3>3, <3>4, <3>5 DEF Losses
  <2> QED
    BY <2>3, <2>4
<1>11. Cached'
  BY <1>1, <1>2 DEF Cached
<1> QED
  BY <1>4, <1>5, <1>6, <1>7, <1>8, <1>9, <1>10, <1>11 DEF Rest

-----------------------------------------------------------------------------
(* Steps that change the directory or a table *)

\* A new table holds no mapping but entries nobody wrote, and the directory
\* entry it is made for held none.
LEMMA NewTableMaps ==
    ASSUME IInv, NewTable
    PROVE  /\ \A v \in Page : v[1] = page[1] => /\ Mapping[v] = NoFrame
                                               /\ Mapping'[v] \in {NoFrame, Junk}
           /\ \A v \in Page : v[1] # page[1] => Mapping'[v] = Mapping[v]
<1> USE DEF IInv
<1>1. /\ page[1] \in Dir /\ dir[page[1]] = NoFrame
      /\ transit \in Frame /\ transit \notin allocated
  BY CallTypes DEF NewTable, Apart, Tables
<1>2. PICK content \in [Slot -> {NoFrame, Junk}] : mem' = [mem EXCEPT ![transit] = content]
  BY DEF NewTable
<1>3. /\ dir'[page[1]] = transit
      /\ \A d \in Dir \ {page[1]} : dir'[d] = dir[d]
      /\ \A d \in Dir : dir[d] # transit
  BY <1>1 DEF NewTable, Tables, TypeOK
<1>4. /\ mem'[transit] = content
      /\ \A f \in (Frame \union {BootTable}) \ {transit} : mem'[f] = mem[f]
  BY <1>1, <1>2 DEF TypeOK
<1> SUFFICES ASSUME NEW v \in Page
             PROVE  /\ v[1] = page[1] => /\ Mapping[v] = NoFrame
                                        /\ Mapping'[v] \in {NoFrame, Junk}
                    /\ v[1] # page[1] => Mapping'[v] = Mapping[v]
  OBVIOUS
<1>5. Mapping[v] = Walk(v) /\ Mapping'[v] = Walk(v)'
  BY DEF Mapping
<1>6. v[1] \in Dir /\ v[2] \in Slot
  BY PageParts
<1>7. CASE v[1] = page[1]
  BY <1>1, <1>2, <1>3, <1>4, <1>5, <1>6, <1>7, Kinds DEF Walk
<1>8. CASE v[1] # page[1]
  <2>1. dir'[v[1]] = dir[v[1]] /\ dir[v[1]] # transit
        /\ dir[v[1]] \in Frame \union {BootTable, NoFrame}
    BY <1>3, <1>6, <1>8 DEF TypeOK
  <2>2. dir[v[1]] # NoFrame => mem'[dir[v[1]]] = mem[dir[v[1]]]
    BY <1>4, <2>1
  <2> QED
    BY <1>5, <1>8, <2>1, <2>2 DEF Walk
<1> QED
  BY <1>7, <1>8

\* map_page makes a table.
LEMMA NewTableKeeps ==
    ASSUME IInv, NewTable
    PROVE  Rest'
<1> USE DEF IInv
<1> DEFINE d0 == page[1]
<1>1. /\ pc = "new" /\ pc' = "entry" /\ transit' = NoFrame
      /\ dir' = [dir EXCEPT ![d0] = transit]
      /\ allocated' = allocated \union {transit}
      /\ UNCHANGED <<free, tlb, win, phase, k, failed_idx, page, phys, kmalloc_init, lost>>
  BY DEF NewTable, cache, boot
<1>2. PICK content \in [Slot -> {NoFrame, Junk}] : mem' = [mem EXCEPT ![transit] = content]
  BY DEF NewTable
<1>3. /\ d0 \in Dir /\ dir[d0] = NoFrame /\ d0 # BootDir
      /\ transit \in Frame /\ transit \notin allocated /\ transit \notin free
      /\ free \subseteq Frame /\ allocated \subseteq Frame
      /\ phase \in {"start", "heap"}
  BY <1>1, CallTypes, Kinds DEF Control, Calling, Apart, Tables, TypeOK
<1>4. /\ dir'[d0] = transit
      /\ \A d \in Dir \ {d0} : dir'[d] = dir[d]
      /\ \A d \in Dir : dir[d] # transit
  BY <1>1, <1>3 DEF Tables, TypeOK
<1>5. /\ mem'[transit] = content
      /\ \A f \in (Frame \union {BootTable}) \ {transit} : mem'[f] = mem[f]
  BY <1>2, <1>3 DEF TypeOK
<1>6. TypeOK'
  BY TypesKept DEF Next, MapStep
<1> HIDE DEF d0
<1>7. /\ \A v \in Page : v[1] = d0 => /\ Mapping[v] = NoFrame
                                      /\ Mapping'[v] \in {NoFrame, Junk}
      /\ \A v \in Page : v[1] # d0 => Mapping'[v] = Mapping[v]
  BY NewTableMaps DEF d0
<1>8. Control'
  BY <1>1, <1>3 DEF Control, Calling
<1>9. Apart'
  BY <1>1, <1>3, Kinds DEF Apart
<1>10. Tables'
  BY <1>1, <1>3, <1>4, <1>5, Kinds DEF Tables, d0
<1>11. Filled'
  <2> SUFFICES ASSUME NEW d \in Dir, dir'[d] \in Frame, mem'[dir'[d]] = Blank PROVE d = d0
    BY <1>1 DEF Filled, d0
  <2>1. CASE d # d0
    BY <1>1, <1>4, <1>5, <2>1 DEF Filled
  <2> QED
    BY <2>1
<1>12. Owners'
  <2>1. \A v \in Page : Mapping'[v] \in Frame => Mapping[v] = Mapping'[v] /\ Mapping'[v] # transit
    BY <1>3, <1>7, Kinds DEF Owners
  <2>2. \A v \in Page : Mapping'[v] = Ident => Mapping[v] = Ident
    BY <1>7, Kinds
  <2>3. ~Written'
    BY <1>1 DEF Written
  <2>4. \A v \in Page : Mapping[v] # phys \/ phys \notin Frame
    BY <1>1 DEF Owners, Written
  <2> QED
    BY <1>1, <1>3, <1>4, <2>1, <2>2, <2>3, <2>4 DEF Owners
<1>13. Progress'
  <2>1. \A v \in Page : Mapping'[v] \in Frame \union {Device} => Mapping[v] = Mapping'[v]
    BY <1>7, Kinds
  <2>2. \A v \in Page : Mapping[v] \in Frame => Mapping'[v] = Mapping[v]
    BY <1>7, Kinds
  <2>3. \A n \in Starts : StartNow(n) <=> StartNow(n)'
    BY <1>1 DEF StartNow, Written
  <2>4. \A n \in Heaps : HeapNow(n) <=> HeapNow(n)'
    BY <1>1, <1>3 DEF HeapNow, Written
  <2> QED
    BY <2>1, <2>2, <2>3, <2>4, PagesAre DEF Progress, Planned
<1>14. Losses'
  <2>1. \A f \in allocated : Used(f) => Used(f)'
    <3> SUFFICES ASSUME NEW f \in allocated, Used(f) PROVE Used(f)'
      OBVIOUS
    <3>1. f # NoFrame
      BY <1>3, Kinds
    <3>2. CASE \E d \in Dir : dir[d] = f
      BY <1>3, <1>4, <3>1, <3>2 DEF Used
    <3>3. CASE \E v \in Page : Mapping[v] = f
      BY <1>7, <3>1, <3>3 DEF Used
    <3> QED
      BY <3>2, <3>3 DEF Used
  <2>2. \A f \in allocated' : f \in allocated \/ f = transit
    BY <1>1
  <2>3. ASSUME NEW f, f = transit PROVE Used(f)'
    BY <1>3, <1>4, <2>3 DEF Used
  <2>4. \A n \in Starts : Refused(n) => Refused(n)'
    BY <1>1, <1>7, PagesAre, Kinds DEF Refused
  <2>5. ~Drained
    BY <1>3, Kinds DEF Drained
  <2>6. (\E n \in Starts : Refused(n)) \/ lost = {}
    BY <1>3, <2>5 DEF Losses
  <2> QED
    BY <1>1, <2>1, <2>2, <2>3, <2>4, <2>6 DEF Losses
<1>15. Cached'
  BY <1>1, <1>3, <1>4, <1>7 DEF Cached
<1> QED
  BY <1>8, <1>9, <1>10, <1>11, <1>12, <1>13, <1>14, <1>15 DEF Rest

\* Writing one entry of a table changes the mapping of one page.
LEMMA EntryWritten ==
    ASSUME IInv, dir[page[1]] # NoFrame, NEW e,
           dir' = dir, mem' = [mem EXCEPT ![dir[page[1]]] = [@ EXCEPT ![page[2]] = e]]
    PROVE  /\ Mapping'[page] = e
           /\ \A v \in Page \ {page} : Mapping'[v] = Mapping[v]
           /\ \A d \in Dir \ {page[1]} : dir[d] # NoFrame => mem'[dir[d]] = mem[dir[d]]
           /\ mem'[dir[page[1]]][page[2]] = e
           /\ page # <<BootDir, KernelSlot>> => mem'[BootTable][KernelSlot] = mem[BootTable][KernelSlot]
<1> USE DEF IInv
<1>1. page \in Page /\ page[1] \in Dir /\ page[2] \in Slot
  BY PageParts DEF TypeOK
<1>2. /\ dir[page[1]] \in Frame \union {BootTable}
      /\ mem \in [Frame \union {BootTable} -> [Slot -> Entry]]
  BY <1>1 DEF TypeOK
<1>3. /\ mem'[dir[page[1]]][page[2]] = e
      /\ \A s \in Slot \ {page[2]} : mem'[dir[page[1]]][s] = mem[dir[page[1]]][s]
      /\ \A f \in (Frame \union {BootTable}) \ {dir[page[1]]} : mem'[f] = mem[f]
  BY <1>1, <1>2
<1>4. \A d \in Dir \ {page[1]} : dir[d] # NoFrame => mem'[dir[d]] = mem[dir[d]]
  <2> SUFFICES ASSUME NEW d \in Dir \ {page[1]}, dir[d] # NoFrame PROVE mem'[dir[d]] = mem[dir[d]]
    OBVIOUS
  <2>1. dir[d] \in Frame \union {BootTable} /\ dir[d] # dir[page[1]]
    BY <1>1 DEF TypeOK, Tables
  <2> QED
    BY <1>3, <2>1
<1>5. \A v \in Page : Mapping[v] = Walk(v) /\ Mapping'[v] = Walk(v)'
  BY DEF Mapping
<1>6. Mapping'[page] = e
  <2>1. ASSUME NEW v \in Page, v = page PROVE Mapping'[v] = e
    BY <1>1, <1>3, <1>5, <2>1 DEF Walk
  <2> QED
    BY <1>1, <2>1
<1>7. ASSUME NEW v \in Page, v # page PROVE Mapping'[v] = Mapping[v]
  <2>1. v[1] \in Dir /\ v[2] \in Slot /\ (v[1] # page[1] \/ v[2] # page[2])
    BY <1>1, <1>7, PageParts
  <2>2. CASE v[1] # page[1]
    BY <1>4, <1>5, <2>1, <2>2 DEF Walk
  <2>3. CASE v[1] = page[1]
    BY <1>3, <1>5, <2>1, <2>3 DEF Walk
  <2> QED
    BY <2>2, <2>3
<1>8. page # <<BootDir, KernelSlot>> => mem'[BootTable][KernelSlot] = mem[BootTable][KernelSlot]
  <2> SUFFICES ASSUME page # <<BootDir, KernelSlot>>
               PROVE  mem'[BootTable][KernelSlot] = mem[BootTable][KernelSlot]
    OBVIOUS
  <2>1. page[1] # BootDir \/ page[2] # KernelSlot
    BY <1>1, PageParts, Kinds
  <2>2. CASE dir[page[1]] = BootTable
    <3>1. page[2] # KernelSlot
      BY <1>1, <2>1, <2>2 DEF Tables
    <3> QED
      BY <1>3, <2>2, <3>1, Kinds
  <2>3. CASE dir[page[1]] # BootTable
    BY <1>3, <2>3
  <2> QED
    BY <2>2, <2>3
<1> QED
  BY <1>3, <1>4, <1>6, <1>7, <1>8

\* map_page writes the entry.
LEMMA SetEntryKeeps ==
    ASSUME IInv, SetEntry
    PROVE  Rest'
<1> USE DEF IInv
<1>1. /\ pc = "entry" /\ pc' = "flush" /\ dir' = dir
      /\ mem' = [mem EXCEPT ![dir[page[1]]] = [@ EXCEPT ![page[2]] = phys]]
      /\ win' = [win EXCEPT ![page[1]] = dir[page[1]]]
      /\ UNCHANGED <<free, allocated, transit, lost>>
      /\ UNCHANGED <<tlb, phase, k, failed_idx, page, phys, kmalloc_init, dir_created>>
  BY TableIs DEF SetEntry, pool, boot
<1>2. /\ dir[page[1]] # NoFrame /\ page \in Page /\ page[1] \in Dir /\ page[2] \in Slot
      /\ phys \in Frame \union {Device} /\ phase \in {"start", "heap"} /\ k \in Nat
      /\ phase = "start" => k \in Starts /\ page = StartPages[k][1]
      /\ phase = "heap" => k \in Heaps /\ page = HeapPages[k] /\ phys \in Frame
      /\ ~Written /\ Written'
  BY <1>1, TableIs, CallTypes DEF Control, Calling, Written, TypeOK
<1>3. page # <<BootDir, KernelSlot>>
  <2>1. <<BootDir, KernelSlot>>[1] = BootDir
    OBVIOUS
  <2> QED
    BY <1>2, <2>1, PagesDiffer
<1>4. /\ Mapping'[page] = phys
      /\ \A v \in Page \ {page} : Mapping'[v] = Mapping[v]
      /\ \A d \in Dir \ {page[1]} : dir[d] # NoFrame => mem'[dir[d]] = mem[dir[d]]
      /\ mem'[dir[page[1]]][page[2]] = phys
      /\ mem'[BootTable][KernelSlot] = mem[BootTable][KernelSlot]
  BY <1>1, <1>2, <1>3, EntryWritten
<1>5. /\ Mapping[page] \notin Frame \union {Device}
      /\ \A n \in Starts : StartNow(n) => StartPages[n][1] # page
      /\ \A n \in Heaps : HeapNow(n) => HeapPages[n] # page
  BY <1>1, NotYet
<1>6. Control'
  BY <1>1, CallTypes DEF Control, Calling
<1>7. Apart'
  BY <1>1 DEF Apart
<1>8. Tables'
  BY <1>1, <1>4 DEF Tables
<1>9. Filled'
  <2> SUFFICES ASSUME NEW d \in Dir, dir[d] \in Frame, mem'[dir[d]] = Blank PROVE FALSE
    BY <1>1 DEF Filled
  <2>1. CASE d = page[1]
    BY <1>2, <1>4, <2>1, Kinds DEF Blank
  <2>2. CASE d # page[1]
    BY <1>4, <2>2, Kinds DEF Filled
  <2> QED
    BY <2>1, <2>2
<1>10. Owners'
  <2>1. \A v \in Page : Mapping[v] # phys \/ phys \notin Frame
    BY <1>2 DEF Owners
  <2>2. phys # Ident
    BY <1>2, Kinds
  <2>3. ASSUME NEW v \in Page, Mapping'[v] \in Frame
        PROVE  Mapping'[v] \in allocated /\ \A d \in Dir : dir[d] # Mapping'[v]
    <3>1. CASE v = page
      BY <1>4, <2>3, <3>1 DEF Owners
    <3>2. CASE v # page
      BY <1>4, <2>3, <3>2 DEF Owners
    <3> QED
      BY <3>1, <3>2
  <2>4. ASSUME NEW v \in Page, NEW w \in Page, Mapping'[v] = Mapping'[w], Mapping'[v] \in Frame
        PROVE  v = w
    <3>1. CASE v = page /\ w # page
      BY <1>4, <2>1, <2>4, <3>1
    <3>2. CASE v # page /\ w = page
      BY <1>4, <2>1, <2>4, <3>2
    <3>3. CASE v # page /\ w # page
      BY <1>4, <2>4, <3>3 DEF Owners
    <3> QED
      BY <3>1, <3>2, <3>3
  <2>5. \A v \in Page : Mapping'[v] = Ident => v[1] = BootDir
    BY <1>4, <2>2 DEF Owners
  <2>6. phys \in Frame => \A v \in Page : Mapping'[v] = phys => v = page
    BY <1>4, <2>1
  <2>7. phys \in Frame => phys \in allocated /\ \A d \in Dir : dir[d] # phys
    BY DEF Owners
  <2> QED
    BY <1>1, <1>2, <1>4, <2>3, <2>4, <2>5, <2>6, <2>7 DEF Owners
<1>11. Progress'
  <2>1. \A n \in Starts : StartNow(n) => StartNow(n)'
    BY <1>1, <1>2 DEF StartNow
  <2>2. \A n \in Heaps : HeapNow(n)' <=> HeapNow(n) \/ (phase = "heap" /\ n = k)
    BY <1>1, <1>2, PagesAre DEF HeapNow
  <2>3. ASSUME NEW v \in Page, v = page PROVE Planned(v)'
    <3>1. CASE phase = "start"
      BY <1>1, <1>2, <2>3, <3>1 DEF Planned, StartNow
    <3>2. CASE phase = "heap"
      BY <1>1, <1>2, <2>3, <3>2 DEF Planned, HeapNow
    <3> QED
      BY <1>2, <3>1, <3>2
  <2>4. ASSUME NEW v \in Page, v # page, Mapping'[v] \in Frame \union {Device} PROVE Planned(v)'
    <3>1. Planned(v)
      BY <1>4, <2>4 DEF Progress
    <3> QED
      BY <2>1, <2>2, <3>1 DEF Planned
  <2>5. ASSUME NEW n \in Heaps, HeapNow(n)' PROVE Mapping'[HeapPages[n]] \in Frame
    <3>1. CASE phase = "heap" /\ n = k
      BY <1>2, <1>4, <3>1
    <3>2. CASE HeapNow(n)
      <4>1. HeapPages[n] \in Page \ {page}
        BY <1>5, <3>2, PagesAre
      <4> QED
        BY <1>4, <3>2, <4>1 DEF Progress
    <3> QED
      BY <2>2, <2>5, <3>1, <3>2
  <2> QED
    BY <2>3, <2>4, <2>5 DEF Progress
<1>12. Losses'
  <2>1. \A f \in allocated : Used(f) => Used(f)'
    <3>1. \A f \in allocated : f # Mapping[page]
      BY <1>5 DEF TypeOK
    <3> QED
      BY <1>1, <1>4, <3>1 DEF Used
  <2>2. \A n \in Starts : Refused(n) => Refused(n)'
    <3> SUFFICES ASSUME NEW n \in Starts, Refused(n) PROVE Refused(n)'
      OBVIOUS
    <3>1. StartPages[n][1] # page
      BY <1>2, PagesAre, PagesDiffer DEF Refused
    <3> QED
      BY <1>1, <1>4, <3>1, PagesAre DEF Refused
  <2> QED
    BY <1>1, <2>1, <2>2 DEF Losses, Drained
<1>13. Cached'
  BY <1>1, <1>2, <1>4 DEF Cached, TypeOK
<1> QED
  BY <1>6, <1>7, <1>8, <1>9, <1>10, <1>11, <1>12, <1>13 DEF Rest

\* unmap_page finds the page it is called for mapped to a frame handed out:
\* neither the page fault nor the panic of free_frame happens.
LEMMA ClearEntryIs ==
    ASSUME IInv, ClearEntry
    PROVE  /\ pc = "clear" /\ pc' = "release" /\ dir' = dir /\ dir[page[1]] # NoFrame
           /\ Mapping[page] \in allocated /\ transit' = Mapping[page]
           /\ allocated' = allocated \ {Mapping[page]} /\ free' = free
           /\ mem' = [mem EXCEPT ![dir[page[1]]] = [@ EXCEPT ![page[2]] = NoFrame]]
           /\ win' = [win EXCEPT ![page[1]] = dir[page[1]]]
           /\ UNCHANGED <<tlb, phase, k, failed_idx, page, phys, kmalloc_init, dir_created, lost>>
           /\ phase = "undo" /\ k \in Heaps /\ k < failed_idx /\ page = HeapPages[k]
           /\ phys = NoFrame /\ transit = NoFrame
<1> USE DEF IInv
<1>1. /\ pc = "clear" /\ phase = "undo" /\ k < failed_idx /\ page = HeapPages[k] /\ k \in Heaps
      /\ phys = NoFrame /\ transit = NoFrame
  BY CallTypes, PagesAre DEF ClearEntry, TypeOK, Control, Calling, Heaps
<1>2. Mapping[page] \in Frame /\ Mapping[page] \in allocated
  BY <1>1, CallTypes DEF Progress, HeapNow, Owners
<1>3. /\ Table(page[1]) = dir[page[1]] /\ dir[page[1]] # NoFrame
      /\ Mapping[page] = mem[dir[page[1]]][page[2]]
  BY <1>1, TableIs
<1>4. Mapping[page] # NoFrame
  BY <1>2, Kinds
<1> DEFINE e == Mapping[page]
<1>5. /\ \/ /\ e = NoFrame /\ Return(FALSE) /\ UNCHANGED <<boot, pool, mem>>
         \/ /\ e \in allocated
            /\ mem' = [mem EXCEPT ![dir[page[1]]][page[2]] = NoFrame]
            /\ allocated' = allocated \ {e} /\ transit' = e /\ pc' = "release"
            /\ UNCHANGED <<boot, free>>
         \/ /\ e # NoFrame /\ e \notin allocated
      /\ win' = [win EXCEPT ![page[1]] = dir[page[1]]]
      /\ UNCHANGED <<dir, tlb, page, phys, kmalloc_init, dir_created, lost>>
  BY <1>3 DEF ClearEntry
<1> QED
  BY <1>1, <1>2, <1>3, <1>4, <1>5 DEF boot

\* unmap_page clears the entry.
LEMMA ClearEntryKeeps ==
    ASSUME IInv, ClearEntry
    PROVE  Rest'
<1> USE DEF IInv
<1> DEFINE e == Mapping[page]
<1>1. /\ pc = "clear" /\ pc' = "release" /\ dir' = dir /\ dir[page[1]] # NoFrame
      /\ e \in allocated /\ transit' = e
      /\ allocated' = allocated \ {e} /\ free' = free
      /\ mem' = [mem EXCEPT ![dir[page[1]]] = [@ EXCEPT ![page[2]] = NoFrame]]
      /\ win' = [win EXCEPT ![page[1]] = dir[page[1]]]
      /\ UNCHANGED <<tlb, phase, k, failed_idx, page, phys, kmalloc_init, dir_created, lost>>
      /\ phase = "undo" /\ k \in Heaps /\ k < failed_idx /\ page = HeapPages[k]
      /\ phys = NoFrame /\ transit = NoFrame
  BY ClearEntryIs
<1>2. /\ page \in Page /\ page[1] \in Dir /\ page # <<BootDir, KernelSlot>>
      /\ e \in Frame /\ e # NoFrame /\ e \notin free
  BY <1>1, CallTypes, PagesDiffer, Kinds DEF TypeOK, Apart
<1>3. /\ Mapping'[page] = NoFrame
      /\ \A v \in Page \ {page} : Mapping'[v] = Mapping[v]
      /\ \A d \in Dir \ {page[1]} : dir[d] # NoFrame => mem'[dir[d]] = mem[dir[d]]
      /\ mem'[BootTable][KernelSlot] = mem[BootTable][KernelSlot]
  BY <1>1, <1>2, EntryWritten
<1>4. /\ \A v \in Page \ {page} : Mapping[v] # e
      /\ \A d \in Dir : dir[d] # e
  BY <1>2 DEF Owners
<1> HIDE DEF e
<1>5. Control'
  BY <1>1, <1>2 DEF Control, Calling
<1>6. Apart'
  BY <1>1, <1>2 DEF Apart
<1>7. Tables'
  BY <1>1, <1>3, <1>4 DEF Tables
<1>8. Filled'
  BY <1>1, <1>2, <1>3, Kinds DEF Filled
<1>9. Owners'
  <2>1. \A v \in Page : Mapping'[v] \in Frame => v # page /\ Mapping'[v] = Mapping[v]
    BY <1>3, Kinds
  <2>2. \A v \in Page : Mapping'[v] = Ident => Mapping[v] = Ident
    BY <1>3, Kinds
  <2>3. phys \notin Frame
    BY <1>1, Kinds
  <2> QED
    BY <1>1, <1>4, <2>1, <2>2, <2>3 DEF Owners, Written
<1>10. Progress'
  <2>1. \A n \in Starts : StartNow(n)'
    BY <1>1 DEF StartNow
  <2>2. \A n \in Heaps : HeapNow(n)' <=> HeapNow(n) /\ n # k
    BY <1>1, PagesAre DEF HeapNow
  <2>3. ASSUME NEW v \in Page, Mapping'[v] \in Frame \union {Device} PROVE Planned(v)'
    <3>1. v # page /\ Mapping'[v] = Mapping[v]
      BY <1>3, <2>3, Kinds
    <3>2. Planned(v)
      BY <2>3, <3>1 DEF Progress
    <3> QED
      BY <1>1, <2>1, <2>2, <3>1, <3>2 DEF Planned
  <2>4. ASSUME NEW n \in Heaps, HeapNow(n)' PROVE Mapping'[HeapPages[n]] \in Frame
    <3>1. HeapPages[n] \in Page \ {page} /\ HeapNow(n)
      BY <1>1, <2>2, <2>4, PagesAre, PagesDiffer
    <3> QED
      BY <1>3, <3>1 DEF Progress
  <2> QED
    BY <2>3, <2>4 DEF Progress
<1>11. Losses'
  <2>1. \A f \in allocated' : Used(f) => Used(f)'
    BY <1>1, <1>3, <1>4 DEF Used, e
  <2>2. \A n \in Starts : Refused(n) => Refused(n)'
    <3> SUFFICES ASSUME NEW n \in Starts, Refused(n) PROVE Refused(n)'
      OBVIOUS
    <3>1. StartPages[n][1] \in Page \ {page}
      BY <1>1, PagesAre, PagesDiffer
    <3> QED
      BY <1>1, <1>3, <3>1 DEF Refused
  <2> QED
    BY <1>1, <2>1, <2>2 DEF Losses
<1>12. Cached'
  BY <1>1, <1>2, <1>3 DEF Cached, TypeOK
<1> QED
  BY <1>5, <1>6, <1>7, <1>8, <1>9, <1>10, <1>11, <1>12 DEF Rest

\* A table whose last entry is gone is a frame that was handed out.
LEMMA FreeTableIs ==
    ASSUME IInv, FreeTable
    PROVE  /\ pc = "scan" /\ pc' = "release_table" /\ mem[dir[page[1]]] = Blank
           /\ dir' = [dir EXCEPT ![page[1]] = NoFrame]
           /\ dir[page[1]] \in Frame /\ dir[page[1]] \in allocated
           /\ allocated' = allocated \ {dir[page[1]]} /\ transit' = dir[page[1]]
           /\ UNCHANGED <<free, mem, tlb, win, phase, k, failed_idx, lost>>
           /\ UNCHANGED <<page, phys, kmalloc_init, dir_created>>
<1> USE DEF IInv
<1>1. /\ pc = "scan" /\ page[1] \in Dir /\ dir[page[1]] # NoFrame /\ mem[dir[page[1]]] = Blank
  BY TableIs DEF FreeTable, Unused
<1>2. mem[BootTable] # Blank
  BY Kinds DEF Tables, Blank
<1>3. dir[page[1]] \in Frame /\ dir[page[1]] \in allocated
  BY <1>1, <1>2 DEF TypeOK, Tables
<1> QED
  BY <1>1, <1>3 DEF FreeTable, cache, boot

\* A table that goes away held no mapping.
LEMMA FreeTableMaps ==
    ASSUME IInv, FreeTable
    PROVE  Mapping' = Mapping
<1> USE DEF IInv
<1>1. /\ dir' = [dir EXCEPT ![page[1]] = NoFrame] /\ mem' = mem
      /\ mem[dir[page[1]]] = Blank /\ page[1] \in Dir
  BY FreeTableIs, CallTypes
<1>2. dir'[page[1]] = NoFrame /\ \A d \in Dir \ {page[1]} : dir'[d] = dir[d]
  BY <1>1 DEF TypeOK
<1> SUFFICES ASSUME NEW v \in Page PROVE Walk(v)' = Walk(v)
  BY DEF Mapping
<1>3. v[1] \in Dir /\ v[2] \in Slot
  BY PageParts
<1>4. CASE v[1] = page[1]
  <2>1. Walk(v)' = NoFrame
    BY <1>2, <1>4 DEF Walk
  <2>2. Walk(v) = NoFrame
    BY <1>1, <1>3, <1>4 DEF Walk, Blank
  <2> QED
    BY <2>1, <2>2
<1>5. CASE v[1] # page[1]
  BY <1>1, <1>2, <1>3, <1>5 DEF Walk
<1> QED
  BY <1>4, <1>5

\* unmap_page frees the table.
LEMMA FreeTableKeeps ==
    ASSUME IInv, FreeTable
    PROVE  Rest'
<1> USE DEF IInv
<1> DEFINE t == dir[page[1]]
<1>1. /\ pc = "scan" /\ pc' = "release_table" /\ mem[t] = Blank
      /\ dir' = [dir EXCEPT ![page[1]] = NoFrame]
      /\ t \in Frame /\ t \in allocated
      /\ allocated' = allocated \ {t} /\ transit' = t
      /\ UNCHANGED <<free, mem, tlb, win, phase, k, failed_idx, lost>>
      /\ UNCHANGED <<page, phys, kmalloc_init, dir_created>>
  BY FreeTableIs
<1>2. /\ phase = "undo" /\ phys = NoFrame /\ page \in Page /\ page[1] \in Dir
      /\ t # NoFrame /\ t \notin free
  BY <1>1, CallTypes, Kinds DEF Control, Calling, Apart
<1> HIDE DEF t
<1>3. /\ dir'[page[1]] = NoFrame /\ \A d \in Dir \ {page[1]} : dir'[d] = dir[d]
      /\ \A d \in Dir \ {page[1]} : dir[d] # t
  BY <1>1, <1>2 DEF Tables, TypeOK, t
<1>4. Mapping' = Mapping
  BY FreeTableMaps
<1>5. Control'
  BY <1>1, <1>2 DEF Control, Calling
<1>6. Apart'
  BY <1>1, <1>2 DEF Apart
<1>7. Tables'
  <2>1. page[1] # BootDir
    BY <1>1, Kinds DEF Tables, t
  <2> QED
    BY <1>1, <1>2, <1>3, <2>1, Kinds DEF Tables
<1>8. Filled'
  BY <1>1, <1>3, Kinds DEF Filled
<1>9. Owners'
  <2>1. \A v \in Page : Mapping[v] # t
    BY <1>1, <1>2 DEF Owners, t
  <2>2. phys \notin Frame
    BY <1>2, Kinds
  <2>3. \A d \in Dir : dir'[d] \in Frame => dir'[d] = dir[d]
    BY <1>3, Kinds
  <2> QED
    BY <1>1, <1>2, <1>4, <2>1, <2>2, <2>3 DEF Owners, Written
<1>10. Progress'
  <2>1. \A n \in Starts : StartNow(n) => StartNow(n)'
    BY <1>1, <1>2 DEF StartNow
  <2>2. \A n \in Heaps : HeapNow(n) <=> HeapNow(n)'
    BY <1>1, <1>2 DEF HeapNow
  <2> QED
    BY <1>4, <2>1, <2>2, ProgressStays
<1>11. Losses'
  <2>1. \A f \in allocated' : Used(f) => Used(f)'
    BY <1>1, <1>3, <1>4 DEF Used, t
  <2> QED
    BY <1>1, <1>2, <1>4, <2>1 DEF Losses, Refused
<1>12. Cached'
  BY <1>1, <1>2, <1>3, <1>4 DEF Cached
<1> QED
  BY <1>5, <1>6, <1>7, <1>8, <1>9, <1>10, <1>11, <1>12 DEF Rest

-----------------------------------------------------------------------------
(* The invariant *)

\* The initial states satisfy the invariant.
LEMMA RestStarts == Init => Rest
<1> SUFFICES ASSUME Init PROVE Rest
  OBVIOUS
<1>1. /\ allocated = {} /\ lost = {} /\ transit = NoFrame /\ free \subseteq Frame
      /\ tlb = [v \in Page |-> NoFrame] /\ win = [d \in Dir |-> NoFrame]
      /\ phase = "start" /\ k = 1 /\ pc = "idle" /\ phys = NoFrame
      /\ dir = [d \in Dir |-> IF d = BootDir THEN BootTable ELSE NoFrame]
  BY DEF Init
<1>2. /\ dir[BootDir] = BootTable /\ \A d \in Dir \ {BootDir} : dir[d] = NoFrame
      /\ \A d \in Dir : dir[d] \notin Frame
  BY <1>1, Kinds
<1>3. PICK low \in [Slot -> {Ident, NoFrame}] :
         /\ low[KernelSlot] = Ident
         /\ mem = [f \in Frame \union {BootTable} |-> IF f = BootTable THEN low ELSE Blank]
  BY DEF Init
<1>4. mem[BootTable] = low
  BY <1>3
<1>5. \A v \in Page : /\ Mapping[v] \in {Ident, NoFrame}
                      /\ Mapping[v] = Ident => v[1] = BootDir
  <2> SUFFICES ASSUME NEW v \in Page
               PROVE  Walk(v) \in {Ident, NoFrame} /\ (Walk(v) = Ident => v[1] = BootDir)
    BY DEF Mapping
  <2>1. v[1] \in Dir /\ v[2] \in Slot
    BY PageParts
  <2>2. CASE v[1] = BootDir
    BY <1>2, <1>3, <1>4, <2>1, <2>2, Kinds DEF Walk
  <2>3. CASE v[1] # BootDir
    BY <1>2, <2>1, <2>3, Kinds DEF Walk
  <2> QED
    BY <2>2, <2>3
<1>6. \A v \in Page : Mapping[v] \notin Frame \union {Device}
  BY <1>5, Kinds
<1>7. Control
  BY <1>1, PagesAre DEF Control
<1>8. Apart
  BY <1>1, Kinds DEF Apart
<1>9. Tables
  BY <1>1, <1>2, <1>3, <1>4, Kinds DEF Tables
<1>10. Filled
  BY <1>2 DEF Filled
<1>11. Owners
  BY <1>1, <1>5, <1>6, Kinds DEF Owners, Written
<1>12. Progress
  BY <1>1, <1>6 DEF Progress, HeapNow
<1>13. Losses
  BY <1>1 DEF Losses
<1>14. Cached
  BY <1>1 DEF Cached
<1> QED
  BY <1>7, <1>8, <1>9, <1>10, <1>11, <1>12, <1>13, <1>14 DEF Rest

\* Every step keeps the invariant.
LEMMA RestKept ==
    ASSUME IInv, [Next]_vars
    PROVE  Rest'
<1>1. CASE MapStep
  BY <1>1, UseTableKeeps, TakeTableKeeps, NoTableKeeps, NewTableKeeps, RefuseKeeps,
     SetEntryKeeps, FlushKeeps DEF MapStep
<1>2. CASE UnmapStep
  BY <1>2, ClearEntryKeeps, ReleaseKeeps, KeepTableKeeps, FreeTableKeeps DEF UnmapStep
<1>3. CASE BootStep
  BY <1>3, MapDeviceKeeps, TakeFrameKeeps, MapFrameKeeps, NoFrameLeftKeeps, ReturnedKeeps,
     StartDoneKeeps, HeapDoneKeeps, UndoKeeps, HeapFailedKeeps DEF BootStep
<1>4. CASE Fill
  BY <1>4, FillKeeps
<1>5. CASE Evict
  BY <1>5, EvictKeeps
<1>6. CASE UNCHANGED vars
  <2> USE DEF IInv
  <2>1. /\ UNCHANGED <<free, allocated, transit, dir, mem, lost>>
        /\ UNCHANGED <<tlb, win, phase, k, failed_idx>>
        /\ UNCHANGED <<pc, page, phys, kmalloc_init, dir_created>>
    BY <1>6 DEF vars, pool, cache, boot, call
  <2>2. Mapping' = Mapping
    BY <2>1, MappingStays
  <2>3. Control'
    BY <2>1 DEF Control, Calling, WantsFrame
  <2>4. Apart' /\ Tables' /\ Filled'
    BY <2>1 DEF Apart, Tables, Filled
  <2>5. Owners'
    BY <2>1, <2>2 DEF Owners, Written
  <2>6. Progress'
    BY <2>1, <2>2 DEF Progress, Planned, StartNow, HeapNow, Written
  <2>7. Losses'
    BY <2>1, <2>2 DEF Losses, Used, Refused, Drained
  <2>8. Cached'
    BY <2>1, <2>2 DEF Cached
  <2> QED
    BY <2>3, <2>4, <2>5, <2>6, <2>7, <2>8 DEF Rest
<1> QED
  BY <1>1, <1>2, <1>3, <1>4, <1>5, <1>6 DEF Next

\* The two parts of the invariant.
LEMMA RestIs == TypeOK /\ Rest <=> IInv
  BY DEF Rest, IInv

\* The invariant holds always.
THEOREM Invariant == Spec => []IInv
<1>1. Init => IInv
  BY TypesStart, RestStarts, RestIs
<1>2. IInv /\ [Next]_vars => IInv'
  <2> SUFFICES ASSUME IInv, [Next]_vars PROVE IInv'
    OBVIOUS
  <2>1. TypeOK' /\ Rest'
    BY TypesKept, RestKept
  <2> QED
    BY <2>1 DEF Rest, IInv
<1> QED
  BY <1>1, <1>2, PTL DEF Spec

-----------------------------------------------------------------------------
(* What the runs check *)

\* The size of a set without two different elements.
LEMMA AtMostOne ==
    ASSUME NEW S, \A x, y \in S : x = y
    PROVE  IsFiniteSet(S) /\ Cardinality(S) \in {0, 1} /\ (Cardinality(S) = 0 <=> S = {})
<1>1. CASE S = {}
  BY <1>1, FS_EmptySet
<1>2. CASE S # {}
  <2>1. PICK x \in S : TRUE
    BY <1>2
  <2>2. S = {x}
    BY <2>1
  <2>3. IsFiniteSet({x}) /\ Cardinality({x}) = 1
    BY FS_Singleton
  <2> QED
    BY <1>2, <2>2, <2>3
<1> QED
  BY <1>1, <1>2

\* The invariant gives every frame one owner.
LEMMA OwnersApart ==
    ASSUME IInv
    PROVE  OneOwner
<1> USE DEF IInv
<1> SUFFICES ASSUME NEW f \in Frame
             PROVE  /\ Cardinality(TableOf(f)) + Cardinality(MappedAt(f)) <= 1
                    /\ f \in free \union {transit} => TableOf(f) = {} /\ MappedAt(f) = {}
  BY DEF OneOwner
<1>1. \A v \in MappedAt(f) : v \in Page /\ Mapping[v] = f
  BY DEF MappedAt, Mapping
<1>2. \A d, e \in TableOf(f) : d = e
  BY Kinds DEF TableOf, Tables
<1>3. \A v, w \in MappedAt(f) : v = w
  BY <1>1 DEF Owners
<1>4. TableOf(f) = {} \/ MappedAt(f) = {}
  BY <1>1 DEF TableOf, Owners
<1>5. TableOf(f) # {} \/ MappedAt(f) # {} => f \in allocated
  BY <1>1 DEF TableOf, Tables, Owners
<1>6. Cardinality(TableOf(f)) + Cardinality(MappedAt(f)) <= 1
  <2> DEFINE T == TableOf(f)
             M == MappedAt(f)
  <2>1. Cardinality(T) \in {0, 1} /\ (Cardinality(T) = 0 <=> T = {})
    BY <1>2, AtMostOne
  <2>2. Cardinality(M) \in {0, 1} /\ (Cardinality(M) = 0 <=> M = {})
    BY <1>3, AtMostOne
  <2>3. T = {} \/ M = {}
    BY <1>4
  <2> HIDE DEF T, M
  <2>4. Cardinality(T) + Cardinality(M) <= 1
    BY <2>1, <2>2, <2>3
  <2> QED
    BY <2>4 DEF T, M
<1> QED
  BY <1>5, <1>6 DEF Apart

\* The invariant gives that every frame is accounted for.
LEMMA AllAccounted ==
    ASSUME IInv
    PROVE  Accounted
<1> USE DEF IInv
<1>1. ASSUME NEW f \in allocated
      PROVE  TableOf(f) # {} \/ MappedAt(f) # {} \/ f = phys \/ f \in lost
  BY DEF TableOf, MappedAt, Mapping, Losses, Used
<1>2. ASSUME NEW f \in lost, NEW g \in lost, f # g
      PROVE  \E n \in 1 .. Len(StartPages) :
                StartPages[n][2] = NoFrame /\ Walk(StartPages[n][1]) = Junk
  <2>1. PICK n \in Starts : Refused(n)
    BY <1>2 DEF Losses
  <2>2. StartPages[n][2] = NoFrame /\ Walk(StartPages[n][1]) = Junk
    BY <2>1, PagesAre DEF Refused, Mapping
  <2> QED
    BY <2>2 DEF Starts
<1> QED
  BY <1>1, <1>2 DEF Accounted

\* FramesOwned for any number of frames, tables and pages: every frame has
\* one owner, and none gets lost but those of refused stacks and, when
\* map_page fails, one more.
THEOREM FramesAreOwned == Spec => []FramesOwned
<1>1. IInv => FramesOwned
  BY OwnersApart, AllAccounted DEF IInv, FramesOwned
<1> QED
  BY <1>1, Invariant, PTL

\* AccessesReachTheirFrame: whatever the processor cached and dropped, no
\* stale translation outlives a call, and the window leads to the table of
\* the directory.
THEOREM AccessesReach == Spec => []AccessesReachTheirFrame
<1>1. IInv => NoStaleTranslation
  BY MappingIs DEF IInv, Cached, NoStaleTranslation
<1>2. IInv => WindowReachesTable
  BY TableIs DEF WindowReachesTable
<1> QED
  BY <1>1, <1>2, Invariant, PTL DEF AccessesReachTheirFrame

\* HeapOutcome: k_malloc_init maps the whole heap, or leaves none of it.
THEOREM HeapAllOrNothing == Spec => []HeapOutcome
<1>1. IInv => HeapOutcome
  <2> SUFFICES ASSUME IInv PROVE HeapOutcome
    OBVIOUS
  <2> USE DEF IInv
  <2>1. \A n \in Heaps : HeapPages[n] \in Page /\ Mapping[HeapPages[n]] = Walk(HeapPages[n])
    BY PagesAre, MappingIs
  <2>2. ASSUME phase = "done", NEW n \in Heaps
        PROVE  Walk(HeapPages[n]) \in allocated
    BY <2>1, <2>2 DEF Progress, HeapNow, Owners
  <2>3. ASSUME phase = "failed", NEW n \in Heaps
        PROVE  Walk(HeapPages[n]) \notin Frame
    <3>1. ~Planned(HeapPages[n])
      BY <2>3, PagesDiffer DEF Planned, HeapNow
    <3> QED
      BY <2>1, <3>1 DEF Progress
  <2>4. ASSUME phase = "failed", NEW d \in Dir, dir[d] \in Frame
        PROVE  mem[dir[d]] # Blank
    BY <2>4 DEF Filled, Control, Calling
  <2> QED
    BY <2>2, <2>3, <2>4 DEF HeapOutcome, Heaps
<1> QED
  BY <1>1, Invariant, PTL

-----------------------------------------------------------------------------
(* What no step does *)

\* A step changes the mapping of the page of its call only.
LEMMA OthersStay ==
    ASSUME IInv, [Next]_vars,
           NEW v \in Page \ {page}, Mapping[v] \in Frame \union {Device}
    PROVE  Mapping'[v] = Mapping[v]
<1> USE DEF IInv
<1>1. CASE NewTable
  <2>1. v[1] # page[1]
    BY <1>1, NewTableMaps, Kinds
  <2> QED
    BY <1>1, <2>1, NewTableMaps
<1>2. CASE SetEntry
  <2>1. /\ dir[page[1]] # NoFrame /\ dir' = dir
        /\ mem' = [mem EXCEPT ![dir[page[1]]] = [@ EXCEPT ![page[2]] = phys]]
    BY <1>2, TableIs DEF SetEntry
  <2> QED
    BY <2>1, EntryWritten
<1>3. CASE ClearEntry
  <2>1. /\ dir[page[1]] # NoFrame /\ dir' = dir
        /\ mem' = [mem EXCEPT ![dir[page[1]]] = [@ EXCEPT ![page[2]] = NoFrame]]
    BY <1>3, ClearEntryIs
  <2> QED
    BY <2>1, EntryWritten
<1>4. CASE FreeTable
  BY <1>4, FreeTableMaps
<1>5. ASSUME ~NewTable, ~SetEntry, ~ClearEntry, ~FreeTable
      PROVE  UNCHANGED <<dir, mem>>
  <2>1. CASE MapStep
    BY <1>5, <2>1 DEF MapStep, UseTable, TakeTable, NoTable, Refuse, Flush
  <2>2. CASE UnmapStep
    BY <1>5, <2>2 DEF UnmapStep, Release, KeepTable
  <2>3. CASE BootStep
    BY <2>3 DEF BootStep, MapDevice, TakeFrame, MapFrame, NoFrameLeft, Returned,
       StartDone, HeapDone, Undo, HeapFailed
  <2>4. CASE Fill \/ Evict
    BY <2>4 DEF Fill, Evict
  <2>5. CASE UNCHANGED vars
    BY <2>5 DEF vars
  <2> QED
    BY <2>1, <2>2, <2>3, <2>4, <2>5 DEF Next
<1> QED
  BY <1>1, <1>2, <1>3, <1>4, <1>5, MappingStays

\* OthersUntouched: a call of map_page or unmap_page keeps every other
\* mapping.
THEOREM OtherPagesUntouched == Spec => OthersUntouched
<1>1. IInv /\ [Next]_vars =>
         [\A v \in Page \ {page} :
             Walk(v) \in Frame \union {Device} => Walk(v)' = Walk(v)]_vars
  <2> SUFFICES ASSUME IInv, [Next]_vars, NEW v \in Page \ {page},
                      Walk(v) \in Frame \union {Device}
               PROVE  Walk(v)' = Walk(v)
    OBVIOUS
  <2>1. Mapping[v] = Walk(v) /\ Mapping'[v] = Walk(v)'
    BY DEF Mapping
  <2> QED
    BY <2>1, OthersStay
<1> QED
  BY <1>1, Invariant, PTL DEF Spec, OthersUntouched

\* What a step does with the frames is one call of the memory manager.
LEMMA PoolMoves ==
    ASSUME IInv, [Next]_vars
    PROVE  \/ UNCHANGED pool
           \/ /\ transit = NoFrame /\ transit' \in free
              /\ free' = free \ {transit'} /\ allocated' = allocated
           \/ /\ transit # NoFrame /\ transit' = NoFrame
              /\ allocated' = allocated \union {transit} /\ free' = free
           \/ /\ transit = NoFrame /\ transit' \in allocated
              /\ allocated' = allocated \ {transit'} /\ free' = free
           \/ /\ transit # NoFrame /\ transit' = NoFrame
              /\ free' = free \union {transit} /\ allocated' = allocated
<1> USE DEF pool
<1>1. CASE MapStep
  <2>1. CASE TakeTable
    BY <2>1, CallTypes DEF TakeTable
  <2>2. CASE NewTable
    BY <2>2, CallTypes, Kinds DEF NewTable
  <2>3. CASE UseTable \/ NoTable \/ Refuse \/ SetEntry \/ Flush
    BY <2>3 DEF UseTable, NoTable, Refuse, SetEntry, Flush
  <2> QED
    BY <1>1, <2>1, <2>2, <2>3 DEF MapStep
<1>2. CASE UnmapStep
  <2>1. CASE ClearEntry
    BY <2>1, ClearEntryIs
  <2>2. CASE Release
    BY <2>2, CallTypes, Kinds DEF Release
  <2>3. CASE FreeTable
    BY <2>3, FreeTableIs, CallTypes
  <2>4. CASE KeepTable
    BY <2>4 DEF KeepTable
  <2> QED
    BY <1>2, <2>1, <2>2, <2>3, <2>4 DEF UnmapStep
<1>3. CASE BootStep
  <2>1. CASE TakeFrame
    BY <2>1 DEF TakeFrame
  <2>2. CASE MapFrame
    BY <2>2 DEF MapFrame
  <2>3. CASE MapDevice \/ NoFrameLeft \/ Returned \/ StartDone \/ HeapDone \/ Undo \/ HeapFailed
    BY <2>3 DEF MapDevice, NoFrameLeft, Returned, StartDone, HeapDone, Undo, HeapFailed
  <2> QED
    BY <1>3, <2>1, <2>2, <2>3 DEF BootStep
<1>4. CASE Fill \/ Evict
  BY <1>4 DEF Fill, Evict
<1>5. CASE UNCHANGED vars
  BY <1>5 DEF vars
<1> QED
  BY <1>1, <1>2, <1>3, <1>4, <1>5 DEF Next

\* Such a step is a step of FramePool.
LEMMA PoolSteps ==
    ASSUME IInv, [Next]_vars
    PROVE  Pool!Next \/ UNCHANGED Pool!poolVars
<1> DEFINE carried == [c \in {"bsp"} |-> transit]
<1>1. /\ carried["bsp"] = transit
      /\ \A f : [carried EXCEPT !["bsp"] = f] = [c \in {"bsp"} |-> f]
      /\ carried' = [c \in {"bsp"} |-> transit']
  OBVIOUS
<1>2. free \subseteq Frame /\ allocated \subseteq Frame
  BY DEF IInv, TypeOK
<1> HIDE DEF carried
<1>3. CASE UNCHANGED pool
  BY <1>3 DEF pool, Pool!poolVars
<1>4. CASE /\ transit = NoFrame /\ transit' \in free
           /\ free' = free \ {transit'} /\ allocated' = allocated
  <2>1. Pool!Claim("bsp", transit')
    BY <1>1, <1>4 DEF Pool!Claim, carried
  <2> QED
    BY <1>2, <1>4, <2>1 DEF Pool!Next
<1>5. CASE /\ transit # NoFrame /\ transit' = NoFrame
           /\ allocated' = allocated \union {transit} /\ free' = free
  <2>1. Pool!Deliver("bsp")
    BY <1>1, <1>5 DEF Pool!Deliver, carried
  <2> QED
    BY <2>1 DEF Pool!Next
<1>6. CASE /\ transit = NoFrame /\ transit' \in allocated
           /\ allocated' = allocated \ {transit'} /\ free' = free
  <2>1. Pool!Surrender("bsp", transit')
    BY <1>1, <1>6 DEF Pool!Surrender, carried
  <2> QED
    BY <1>2, <1>6, <2>1 DEF Pool!Next
<1>7. CASE /\ transit # NoFrame /\ transit' = NoFrame
           /\ free' = free \union {transit} /\ allocated' = allocated
  <2>1. Pool!Recycle("bsp")
    BY <1>1, <1>7 DEF Pool!Recycle, carried
  <2> QED
    BY <2>1 DEF Pool!Next
<1> QED
  BY <1>3, <1>4, <1>5, <1>6, <1>7, PoolMoves

\* UsesPool: every step of the paging code is one FramePool allows its
\* callers, so nothing is freed twice or without having been handed out.
THEOREM UsesThePool == Spec => UsesPool
<1>1. IInv /\ [Next]_vars => [Pool!Next]_(Pool!poolVars)
  BY PoolSteps
<1> QED
  BY <1>1, Invariant, PTL DEF Spec, UsesPool
=============================================================================
