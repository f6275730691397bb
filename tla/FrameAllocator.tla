--------------------------- MODULE FrameAllocator ---------------------------
(***************************************************************************)
(* The physical memory manager of kernel/mm/pm.c after pmm_init:           *)
(* get_free_frame and free_frame, called by any CPU at any time, with smp  *)
(* set (the spinlock is the one word pmm_lock.lock).                       *)
(*                                                                         *)
(* The regions of the firmware map form a ring, 1..NRegions in the order   *)
(* of bitmap_list.  A frame is <<region, index>>, the bit that stands for  *)
(* it.  All the bitmaps are one set of frames: f \in bitmap when the bit of *)
(* f is set.  A caller knows a frame by its address only, and free_frame   *)
(* finds the region and the bit again.  Addresses are in pages, lengths in *)
(* bytes.  The functions read several fields before they take the lock, so *)
(* every shared read and every shared write is a step of its own.          *)
(***************************************************************************)
EXTENDS Integers, FiniteSets

CONSTANTS CPU,      \* the CPUs that call the manager
          NRegions, \* how many regions bitmap_list links
          Base,     \* base_addr of the entry of each region, in bytes
          Length,   \* length of that entry, in bytes
          Reserved  \* the frames pmm_init has marked used for good

BLOCK_SIZE == 4096
MaxBlocks == 2^20   \* 4 GiB of 32-bit physical addresses in 4 KiB blocks
Region == 1 .. NRegions

\* The fields of bitmap_list_t that do not change after pmm_init:
\* total_blocks, and first_addr and last_addr as pages.
Blocks == [r \in Region |-> Length[r] \div BLOCK_SIZE]
First(r) == (Base[r] + BLOCK_SIZE - 1) \div BLOCK_SIZE
Last(r) == (Base[r] + Length[r] - 1) \div BLOCK_SIZE

Frame == UNION {{<<r, i>> : i \in 0 .. Blocks[r] - 1} : r \in Region}
NoFrame == <<0, 0>> \* no region has the number 0
NULL == 0           \* the null bitmap_list_t pointer

ASSUME RegionsAssumption == NRegions \in Nat \ {0}
ASSUME EntriesAssumption ==
    /\ Base \in [Region -> Nat]
    /\ Length \in [Region -> Nat \ {0}]
    /\ \A r \in Region : Last(r) < MaxBlocks

\* The entries before a region with frames end before it.  Nothing in the
\* code sees to this: it takes the order of the firmware's map as it comes.
ASSUME OrderAssumption ==
    \A r, s \in Region :
        s < r /\ Blocks[r] > 0 => Base[s] + Length[s] <= Base[r]
ASSUME ReservedAssumption == Reserved \subseteq Frame

VARIABLES
    bitmap,                \* the frames whose bit is set
    used_blocks,           \* bitmap_list_t.used_blocks of each region
    total_used_blocks,
    last_with_free_blocks, \* the static pointer of get_free_frame
    pmm_lock,
    pc,                    \* where each CPU's call is
    curr,                  \* the region get_free_frame is looking at
    frame,                 \* the frame of the call (index, resp. addr)
    allocated              \* history: the bits whose addresses have been
                           \* returned and not yet freed

shared == <<bitmap, used_blocks, total_used_blocks, last_with_free_blocks>>
vars == <<shared, pmm_lock, pc, curr, frame, allocated>>

OfRegion(S, r) == {f \in S : f[1] = r}
TotalBlocks == Cardinality(Frame)
RegionNext(r) == IF r = NRegions THEN 1 ELSE r + 1
Unset(r) == {f \in Frame \ bitmap : f[1] = r}

\* What get_free_frame returns for a bit, and where free_frame looks for
\* the bit of an address: in the first region that does not end before it.
Address(f) == First(f[1]) + f[2]

\* A mistake the properties are tested against: the last page is left out.
HoldingStrict(a) == {r \in Region : a < Last(r)}

Holding(a) == {r \in Region : a <= Last(r)}
addr_to_bitmap(a) ==
    IF Holding(a) = {} THEN NULL
    ELSE CHOOSE r \in Holding(a) : \A s \in Holding(a) : r <= s
BitOf(a) == <<addr_to_bitmap(a), a - First(addr_to_bitmap(a))>>

Init ==
    /\ bitmap = Reserved
    /\ used_blocks = [r \in Region |-> Cardinality(OfRegion(Reserved, r))]
    /\ total_used_blocks = Cardinality(Reserved)
    /\ last_with_free_blocks = NULL
    /\ pmm_lock = 0
    /\ pc = [c \in CPU |-> "idle"]
    /\ curr = [c \in CPU |-> NULL]
    /\ frame = [c \in CPU |-> NoFrame]
    /\ allocated = {}

(***************************************************************************)
(* Control: a step of c moves from one line to the next.  A call that      *)
(* returns forgets its local variables.                                    *)
(***************************************************************************)
Goto(c, from, to) ==
    /\ pc[c] = from
    /\ pc' = [pc EXCEPT ![c] = to]

Return(c, from) ==
    /\ Goto(c, from, "idle")
    /\ curr' = [curr EXCEPT ![c] = NULL]
    /\ frame' = [frame EXCEPT ![c] = NoFrame]

\* The loop of lock() ends when the swap returns 0.
Lock(c, from, to) ==
    /\ Goto(c, from, to)
    /\ pmm_lock = 0
    /\ pmm_lock' = 1
    /\ UNCHANGED <<shared, curr, frame, allocated>>

-----------------------------------------------------------------------------
(* Mistakes the properties are tested against; none is part of Next. *)

\* The total is compared as if one block were always kept back.
CheckTotalKeepsOne(c) ==
    /\ \/ /\ TotalBlocks - total_used_blocks <= 1
          /\ Return(c, "check_total")
       \/ /\ TotalBlocks - total_used_blocks > 1
          /\ Goto(c, "check_total", "read_last")
          /\ UNCHANGED <<curr, frame>>
    /\ UNCHANGED <<shared, pmm_lock, allocated>>

\* The search of the bitmap does not wait for the lock.
RegionNoLock(c) ==
    /\ Goto(c, "region_lock", "scan")
    /\ UNCHANGED <<shared, pmm_lock, curr, frame, allocated>>

\* A bitmap with no clear bit is answered with its first bit.
ScanUnchecked(c) ==
    /\ Goto(c, "scan", "set_bit")
    /\ frame' = [frame EXCEPT ![c] =
            IF Unset(curr[c]) # {}
            THEN CHOOSE f \in Unset(curr[c]) :
                    \A g \in Unset(curr[c]) : f[2] <= g[2]
            ELSE <<curr[c], 0>>]
    /\ UNCHANGED <<shared, pmm_lock, curr, allocated>>

\* The path that found no bit forgets the lock.
NoneKeepsLock(c) ==
    /\ Goto(c, "none_unlock", "advance")
    /\ UNCHANGED <<shared, pmm_lock, curr, frame, allocated>>

\* The walk forgets to step to the next region.
AdvanceStays(c) ==
    /\ \/ /\ RegionNext(curr[c]) = 1
          /\ Return(c, "advance")
       \/ /\ RegionNext(curr[c]) # 1
          /\ Goto(c, "advance", "check_region")
          /\ UNCHANGED <<curr, frame>>
    /\ UNCHANGED <<shared, pmm_lock, allocated>>

\* A missing complement: every bit of the word is cleared.
UnsetWord(c) ==
    /\ Goto(c, "unset_bit", "uncount_used")
    /\ bitmap' = bitmap \ OfRegion(bitmap, frame[c][1])
    /\ UNCHANGED <<used_blocks, total_used_blocks, last_with_free_blocks,
                   pmm_lock, curr, frame, allocated>>

\* The block is uncounted in the first region of the list.
UncountHead(c) ==
    /\ Goto(c, "uncount_used", "uncount_total")
    /\ used_blocks' = [used_blocks EXCEPT ![1] = @ - 1]
    /\ UNCHANGED <<bitmap, total_used_blocks, last_with_free_blocks,
                   pmm_lock, curr, frame, allocated>>

\* The total is not decremented.
TotalNotUncounted(c) ==
    /\ Goto(c, "uncount_total", "free_unlock")
    /\ UNCHANGED <<shared, pmm_lock, curr, frame, allocated>>

-----------------------------------------------------------------------------
(* get_free_frame *)

GetFreeFrame(c) ==
    /\ Goto(c, "idle", "init_lock")
    /\ UNCHANGED <<shared, pmm_lock, curr, frame, allocated>>

\* Lines 340-342: the lock is held around a declaration only.
InitLock(c) == Lock(c, "init_lock", "init_unlock")

InitUnlock(c) ==
    /\ Goto(c, "init_unlock", "check_total")
    /\ pmm_lock' = 0
    /\ UNCHANGED <<shared, curr, frame, allocated>>

CheckTotal(c) ==
    /\ \/ /\ TotalBlocks - total_used_blocks = 0
          /\ Return(c, "check_total")
       \/ /\ TotalBlocks - total_used_blocks # 0
          /\ Goto(c, "check_total", "read_last")
          /\ UNCHANGED <<curr, frame>>
    /\ UNCHANGED <<shared, pmm_lock, allocated>>

ReadLast(c) ==
    /\ Goto(c, "read_last", "check_region")
    /\ curr' = [curr EXCEPT ![c] = IF last_with_free_blocks # NULL
                                   THEN last_with_free_blocks ELSE 1]
    /\ UNCHANGED <<shared, pmm_lock, frame, allocated>>

\* The unsigned difference is positive when the counts differ.
CheckRegion(c) ==
    /\ Goto(c, "check_region", IF Blocks[curr[c]] # used_blocks[curr[c]]
                               THEN "region_lock" ELSE "advance")
    /\ UNCHANGED <<shared, pmm_lock, curr, frame, allocated>>

RegionLock(c) == Lock(c, "region_lock", "scan")

\* bitmap_first_unset: the lowest clear bit of the region, if there is one.
Scan(c) ==
    /\ \/ \E f \in Unset(curr[c]) :
            /\ \A g \in Unset(curr[c]) : f[2] <= g[2]
            /\ frame' = [frame EXCEPT ![c] = f]
            /\ Goto(c, "scan", "set_bit")
       \/ /\ Unset(curr[c]) = {}
          /\ Goto(c, "scan", "none_unlock")
          /\ UNCHANGED frame
    /\ UNCHANGED <<shared, pmm_lock, curr, allocated>>

SetBit(c) ==
    /\ Goto(c, "set_bit", "count_used")
    /\ bitmap' = bitmap \union {frame[c]}
    /\ UNCHANGED <<used_blocks, total_used_blocks, last_with_free_blocks,
                   pmm_lock, curr, frame, allocated>>

CountUsed(c) ==
    /\ Goto(c, "count_used", "count_total")
    /\ used_blocks' = [used_blocks EXCEPT ![curr[c]] = @ + 1]
    /\ UNCHANGED <<bitmap, total_used_blocks, last_with_free_blocks,
                   pmm_lock, curr, frame, allocated>>

CountTotal(c) ==
    /\ Goto(c, "count_total", "move_last")
    /\ total_used_blocks' = total_used_blocks + 1
    /\ UNCHANGED <<bitmap, used_blocks, last_with_free_blocks,
                   pmm_lock, curr, frame, allocated>>

\* The region is full: later searches begin at the next one.
MoveLast(c) ==
    /\ Goto(c, "move_last", "found_unlock")
    /\ last_with_free_blocks' =
            IF used_blocks[curr[c]] = Blocks[curr[c]]
            THEN RegionNext(curr[c]) ELSE last_with_free_blocks
    /\ UNCHANGED <<bitmap, used_blocks, total_used_blocks,
                   pmm_lock, curr, frame, allocated>>

FoundUnlock(c) ==
    /\ Return(c, "found_unlock")
    /\ pmm_lock' = 0
    /\ allocated' = allocated \union {frame[c]}
    /\ UNCHANGED shared

NoneUnlock(c) ==
    /\ Goto(c, "none_unlock", "advance")
    /\ pmm_lock' = 0
    /\ UNCHANGED <<shared, curr, frame, allocated>>

\* The walk ends at the region whose next is the head of the list.
Advance(c) ==
    /\ \/ /\ RegionNext(curr[c]) = 1
          /\ Return(c, "advance")
       \/ /\ RegionNext(curr[c]) # 1
          /\ Goto(c, "advance", "check_region")
          /\ curr' = [curr EXCEPT ![c] = RegionNext(curr[c])]
          /\ UNCHANGED frame
    /\ UNCHANGED <<shared, pmm_lock, allocated>>

-----------------------------------------------------------------------------
(* free_frame *)

\* The kernel frees a frame it holds, by its address; another CPU may have
\* obtained it.  An address behind every region is a panic.
FreeFrame(c, f) ==
    /\ f \in allocated
    /\ \/ /\ addr_to_bitmap(Address(f)) = NULL
          /\ Goto(c, "idle", "panicked")
          /\ UNCHANGED frame
       \/ /\ addr_to_bitmap(Address(f)) # NULL
          /\ Goto(c, "idle", "free_test")
          /\ frame' = [frame EXCEPT ![c] = BitOf(Address(f))]
    /\ allocated' = allocated \ {f}
    /\ UNCHANGED <<shared, pmm_lock, curr>>

\* The bit is tested before the lock is taken; a clear bit is a panic.
FreeTest(c) ==
    /\ Goto(c, "free_test", IF frame[c] \in bitmap
                            THEN "free_lock" ELSE "panicked")
    /\ UNCHANGED <<shared, pmm_lock, curr, frame, allocated>>

FreeLock(c) == Lock(c, "free_lock", "unset_bit")

UnsetBit(c) ==
    /\ Goto(c, "unset_bit", "uncount_used")
    /\ bitmap' = bitmap \ {frame[c]}
    /\ UNCHANGED <<used_blocks, total_used_blocks, last_with_free_blocks,
                   pmm_lock, curr, frame, allocated>>

UncountUsed(c) ==
    /\ Goto(c, "uncount_used", "uncount_total")
    /\ used_blocks' = [used_blocks EXCEPT ![frame[c][1]] = @ - 1]
    /\ UNCHANGED <<bitmap, total_used_blocks, last_with_free_blocks,
                   pmm_lock, curr, frame, allocated>>

UncountTotal(c) ==
    /\ Goto(c, "uncount_total", "free_unlock")
    /\ total_used_blocks' = total_used_blocks - 1
    /\ UNCHANGED <<bitmap, used_blocks, last_with_free_blocks,
                   pmm_lock, curr, frame, allocated>>

FreeUnlock(c) ==
    /\ Return(c, "free_unlock")
    /\ pmm_lock' = 0
    /\ UNCHANGED <<shared, allocated>>

-----------------------------------------------------------------------------
Step(c) ==
    \/ InitLock(c) \/ InitUnlock(c) \/ CheckTotal(c) \/ ReadLast(c)
    \/ CheckRegion(c) \/ RegionLock(c) \/ Scan(c) \/ SetBit(c)
    \/ CountUsed(c) \/ CountTotal(c) \/ MoveLast(c) \/ FoundUnlock(c)
    \/ NoneUnlock(c) \/ Advance(c)
    \/ FreeTest(c) \/ FreeLock(c) \/ UnsetBit(c) \/ UncountUsed(c)
    \/ UncountTotal(c) \/ FreeUnlock(c)

Call(c) == GetFreeFrame(c) \/ \E f \in Frame : FreeFrame(c, f)

Next == \E c \in CPU : Call(c) \/ Step(c)

Spec == Init /\ [][Next]_vars

\* A CPU inside a call keeps executing; nothing obliges it to call.
FairSpec == Spec /\ \A c \in CPU : WF_vars(Step(c))

-----------------------------------------------------------------------------
(* Properties *)

Labels ==
    {"idle", "init_lock", "init_unlock", "check_total", "read_last",
     "check_region", "region_lock", "scan", "set_bit", "count_used",
     "count_total", "move_last", "found_unlock", "none_unlock", "advance",
     "free_test", "free_lock", "unset_bit", "uncount_used", "uncount_total",
     "free_unlock", "panicked"}

\* The points between a lock and the unlock that follows it.
Critical ==
    {"init_unlock", "scan", "set_bit", "count_used", "count_total",
     "move_last", "found_unlock", "none_unlock", "unset_bit",
     "uncount_used", "uncount_total", "free_unlock"}

\* The points where a call carries a frame whose bit is set.
Carrying ==
    {"count_used", "count_total", "move_last", "found_unlock",
     "free_test", "free_lock", "unset_bit"}

\* Type invariant.  The two counters are size_t: they never go below zero.
TypeOK ==
    /\ bitmap \subseteq Frame
    /\ used_blocks \in [Region -> Nat]
    /\ total_used_blocks \in Nat
    /\ last_with_free_blocks \in Region \union {NULL}
    /\ pmm_lock \in {0, 1}
    /\ pc \in [CPU -> Labels]
    /\ curr \in [CPU -> Region \union {NULL}]
    /\ frame \in [CPU -> Frame \union {NoFrame}]
    /\ allocated \subseteq Frame

\* Mutual exclusion: one CPU at most is between lock and unlock, and the
\* lock word is 0 exactly when there is none.
LockMutex ==
    /\ \A c, d \in CPU : pc[c] \in Critical /\ pc[d] \in Critical => c = d
    /\ pmm_lock = 0 <=> \A c \in CPU : pc[c] \notin Critical

Carried == {frame[c] : c \in {d \in CPU : pc[d] \in Carrying}}

\* The bits set are those of the reserved frames, of the frames the kernel
\* holds and of the frame of a call in progress, and no frame is two of
\* these: no call returns a frame that is reserved, held or claimed.
NoDoubleAllocation ==
    /\ bitmap = Reserved \union allocated \union Carried
    /\ Reserved \intersect allocated = {}
    /\ Carried \intersect (Reserved \union allocated) = {}
    /\ \A c, d \in CPU :
          /\ pc[c] \in Carrying
          /\ pc[d] \in Carrying
          /\ frame[c] = frame[d]
          => c = d

\* The frames used_blocks and total_used_blocks have counted: the set bits,
\* but for the ones a call is on its way to count or to uncount.
At(labels) == {frame[c] : c \in {d \in CPU : pc[d] \in labels}}
Counted == (bitmap \ At({"count_used"})) \union At({"uncount_used"})
CountedTotal ==
    (bitmap \ At({"count_used", "count_total"}))
        \union At({"uncount_used", "uncount_total"})

\* The counters agree with the bitmaps, which the unlocked reads of lines
\* 346 and 360 depend on: a counter off by one loses or invents a frame.
Counters ==
    /\ \A r \in Region : used_blocks[r] = Cardinality(OfRegion(Counted, r))
    /\ total_used_blocks = Cardinality(CountedTotal)

\* Freeing an address get_free_frame has returned never panics: the region
\* and the bit found again from it are the ones it came from, and the bit is
\* still set, although line 392 tests it without the lock.
NoPanic == \A c \in CPU : pc[c] # "panicked"

\* get_free_frame gives up at line 347 only when every frame is in use, but
\* for the one that another call is about to uncount: the test reads a total
\* that no lock protects, in the middle of that call as well.
FullWhenGivingUp ==
    [][\A c \in CPU :
          pc[c] = "check_total" /\ pc'[c] = "idle" =>
              Frame \ bitmap \subseteq At({"uncount_used", "uncount_total"})]_vars

\* Whoever takes the lock gives it back, on every path out of the loop.
LockReleased == pmm_lock = 1 ~> pmm_lock = 0

\* Every call returns while the other CPUs make none: the walk along the
\* ring ends, whatever hint and whatever bits they have left behind.
CallsReturn ==
    \A c \in CPU :
        pc[c] # "idle" ~> pc[c] = "idle" \/ \E d \in CPU \ {c} : pc[d] # "idle"

\* Line 344: "Check to see if there is any free block in the system": a
\* call fails only if there is none.
FailsOnlyWhenFull ==
    [][\A c \in CPU :
          /\ pc[c] \in {"check_total", "advance"}
          /\ pc'[c] = "idle"
          => bitmap = Frame]_vars

\* The manager implements the abstract pool: setting a bit claims a frame,
\* clearing it recycles the frame.
Pool == INSTANCE FramePool WITH
    free <- Frame \ bitmap,
    transit <- [c \in CPU |-> IF pc[c] \in Carrying THEN frame[c] ELSE NoFrame]

PoolSpec == Pool!Spec
=============================================================================
