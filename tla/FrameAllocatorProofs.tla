------------------------ MODULE FrameAllocatorProofs ------------------------
(***************************************************************************)
(* Proofs about FrameAllocator for any number of CPUs and any memory map   *)
(* of the assumed order.                                                   *)
(* The inductive invariant is built in layers, each proved from the ones   *)
(* before it: Typed (types and locals), LockMutex, Ownership, Counters.    *)
(***************************************************************************)
EXTENDS FrameAllocator, FiniteSetTheorems, TLAPS

\* The points at which get_free_frame has a current region.
Walking ==
    {"check_region", "region_lock", "scan", "set_bit", "count_used",
     "count_total", "move_last", "found_unlock", "none_unlock", "advance"}

\* The points at which get_free_frame has found a block of that region.
Found == {"set_bit", "count_used", "count_total", "move_last", "found_unlock"}

\* The points at which free_frame knows its frame.
Freeing ==
    {"free_test", "free_lock", "unset_bit", "uncount_used", "uncount_total",
     "free_unlock", "panicked"}

\* TypeOK without the lower bound of the counters, and the locals.
Typed ==
    /\ bitmap \subseteq Frame
    /\ used_blocks \in [Region -> Int]
    /\ total_used_blocks \in Int
    /\ last_with_free_blocks \in Region \union {NULL}
    /\ pmm_lock \in {0, 1}
    /\ pc \in [CPU -> Labels]
    /\ curr \in [CPU -> Region \union {NULL}]
    /\ frame \in [CPU -> Frame \union {NoFrame}]
    /\ allocated \subseteq Frame
    /\ \A c \in CPU :
          /\ pc[c] \in Walking => curr[c] \in Region
          /\ pc[c] \in Found => frame[c] \in Frame /\ frame[c][1] = curr[c]
          /\ pc[c] \in Freeing => frame[c] \in Frame

-----------------------------------------------------------------------------
(* The frames *)

\* Division by the block size.
LEMMA InBlocks ==
    ASSUME NEW a \in Nat
    PROVE  /\ a \div BLOCK_SIZE \in Nat
           /\ BLOCK_SIZE * (a \div BLOCK_SIZE) <= a
           /\ a < BLOCK_SIZE * (a \div BLOCK_SIZE) + BLOCK_SIZE
BY DEF BLOCK_SIZE

\* The fields of a region: its frames lie between its first and its last
\* address, wherever in a page the entry begins and ends.
LEMMA RegionFields ==
    ASSUME NEW r \in Region
    PROVE  /\ Blocks[r] \in 0 .. MaxBlocks
           /\ First(r) \in Nat
           /\ Last(r) \in Nat
           /\ Last(r) < MaxBlocks
           /\ First(r) + Blocks[r] <= Last(r) + 1
<1> DEFINE b == Base[r]  l == Length[r]
           x == (b + 4095) \div 4096  y == (b + l - 1) \div 4096  n == l \div 4096
<1>1. b \in Nat /\ l \in Nat /\ l >= 1
  BY EntriesAssumption
<1>2. First(r) = x /\ Last(r) = y /\ Blocks[r] = n
  <2>1. First(r) = x /\ Last(r) = y
    BY <1>1 DEF First, Last, BLOCK_SIZE
  <2>2. Blocks[r] = n
    BY DEF Blocks, BLOCK_SIZE
  <2> QED
    BY <2>1, <2>2
<1>3. y < MaxBlocks
  BY <1>2, EntriesAssumption
<1>4. /\ x \in Nat /\ 4096 * x <= b + 4095 /\ b + 4095 < 4096 * x + 4096
      /\ y \in Nat /\ 4096 * y <= b + l - 1 /\ b + l - 1 < 4096 * y + 4096
      /\ n \in Nat /\ 4096 * n <= l /\ l < 4096 * n + 4096
  <2>1. b + 4095 \in Nat /\ b + l - 1 \in Nat
    BY <1>1
  <2> QED
    BY <1>1, <2>1, InBlocks DEF BLOCK_SIZE
<1>5. x + n <= y + 1
  <2> HIDE DEF b, l, x, y, n
  <2> QED
    BY <1>1, <1>4
<1>6. n <= MaxBlocks
  <2>1. x = 0 \/ x >= 1
    BY <1>4
  <2> HIDE DEF b, l, x, y, n
  <2>2. MaxBlocks \in Nat
    BY DEF MaxBlocks
  <2> QED
    BY <1>3, <1>4, <1>5, <2>2
<1> QED
  BY <1>2, <1>3, <1>4, <1>5, <1>6

\* The frames are finitely many pairs of a region and an index.
LEMMA FrameFacts ==
    /\ IsFiniteSet(Frame)
    /\ \A f \in Frame : f[1] \in Region
    /\ NoFrame \notin Frame
<1> DEFINE Box == Region \X (0 .. MaxBlocks - 1)
<1>1. Frame \subseteq Box
  <2> SUFFICES ASSUME NEW r \in Region, NEW i \in 0 .. Blocks[r] - 1
               PROVE  <<r, i>> \in Box
    BY DEF Frame
  <2>1. Blocks[r] \in 0 .. MaxBlocks
    BY RegionFields
  <2>2. i \in 0 .. MaxBlocks - 1
    BY <2>1 DEF MaxBlocks
  <2> QED
    BY <2>2
<1>2. IsFiniteSet(Box)
  <2>1. IsFiniteSet(Region)
    BY FS_Interval, RegionsAssumption DEF Region
  <2>2. MaxBlocks - 1 \in Int
    BY DEF MaxBlocks
  <2>3. IsFiniteSet(0 .. MaxBlocks - 1)
    BY <2>2, FS_Interval
  <2> QED
    BY <2>1, <2>3, FS_Product
<1>3. IsFiniteSet(Frame)
  BY <1>1, <1>2, FS_Subset
<1>4. \A f \in Frame : f[1] \in Region
  BY <1>1
<1>5. NoFrame \notin Frame
  BY <1>4, RegionsAssumption DEF NoFrame, Region
<1> QED
  BY <1>3, <1>4, <1>5

\* The ring of regions is closed under next.
LEMMA RegionNextType == \A r \in Region : RegionNext(r) \in Region
BY RegionsAssumption DEF RegionNext, Region

\* No region before the one of a frame reaches up to the frame's address.
LEMMA EarlierEndsBefore ==
    ASSUME NEW r \in Region, NEW s \in Region, s < r, Blocks[r] > 0
    PROVE  Last(s) < First(r)
<1> DEFINE b == Base[r]  e == Base[s] + Length[s]
           x == (b + 4095) \div 4096  y == (e - 1) \div 4096
<1>1. b \in Nat /\ e \in Nat /\ e >= 1 /\ e <= b
  BY EntriesAssumption, OrderAssumption
<1>2. First(r) = x /\ Last(s) = y
  BY <1>1, EntriesAssumption DEF First, Last, BLOCK_SIZE
<1>3. /\ x \in Nat /\ b + 4095 < 4096 * x + 4096
      /\ y \in Nat /\ 4096 * y <= e - 1
  <2>1. b + 4095 \in Nat /\ e - 1 \in Nat
    BY <1>1
  <2> QED
    BY <1>1, <2>1, InBlocks DEF BLOCK_SIZE
<1> HIDE DEF b, e, x, y
<1> QED
  BY <1>1, <1>2, <1>3

\* The region and the bit found again from the address of a frame are the
\* frame's own, so no two frames have one address.
LEMMA OwnBit ==
    ASSUME NEW f \in Frame
    PROVE  addr_to_bitmap(Address(f)) # NULL /\ BitOf(Address(f)) = f
<1>1. PICK r \in Region, i \in Nat : i <= Blocks[r] - 1 /\ f = <<r, i>>
  <2>1. PICK r \in Region : f \in {<<r, i>> : i \in 0 .. Blocks[r] - 1}
    BY DEF Frame
  <2> QED
    BY <2>1
<1>2. Region \subseteq Nat \ {0}
  BY RegionsAssumption DEF Region
<1>3. /\ Blocks[r] \in Nat /\ First(r) \in Nat /\ Last(r) \in Nat
      /\ First(r) + Blocks[r] <= Last(r) + 1
  BY RegionFields
<1>4. Address(f) = First(r) + i /\ First(r) + i <= Last(r)
  BY <1>1, <1>3 DEF Address
<1>5. \A s \in Region : s < r => Last(s) < First(r) + i
  <2> TAKE s \in Region
  <2> HAVE s < r
  <2>1. Last(s) < First(r) /\ Last(s) \in Nat
    BY <1>1, <1>3, EarlierEndsBefore, RegionFields
  <2> QED
    BY <1>1, <1>3, <2>1
<1>6. r \in Holding(Address(f)) /\ \A s \in Holding(Address(f)) : r <= s
  BY <1>1, <1>2, <1>3, <1>4, <1>5, RegionFields DEF Holding
<1>7. addr_to_bitmap(Address(f)) = r
  <2> DEFINE H == Holding(Address(f))
  <2>1. H \subseteq Nat
    BY <1>2 DEF Holding
  <2>2. \A t \in H : (\A s \in H : t <= s) => t = r
    BY <1>6, <2>1
  <2> HIDE DEF H
  <2>3. r \in H /\ \A s \in H : r <= s
    BY <1>6 DEF H
  <2>4. (CHOOSE t \in H : \A s \in H : t <= s) = r
    BY <2>2, <2>3
  <2> QED
    BY <2>3, <2>4 DEF addr_to_bitmap, H
<1>8. BitOf(Address(f)) = <<r, i>>
  BY <1>1, <1>3, <1>4, <1>7 DEF BitOf
<1> QED
  BY <1>1, <1>2, <1>7, <1>8 DEF NULL

\* So a free of a frame the kernel holds is about the bit of that frame.
LEMMA FreeFrameFinds ==
    ASSUME NEW c \in CPU, NEW f \in Frame, FreeFrame(c, f)
    PROVE  /\ f \in allocated
           /\ Goto(c, "idle", "free_test")
           /\ frame' = [frame EXCEPT ![c] = f]
           /\ allocated' = allocated \ {f}
           /\ UNCHANGED <<shared, pmm_lock, curr>>
BY OwnBit DEF FreeFrame

-----------------------------------------------------------------------------
(* Types and locals *)

LEMMA TypedInit == Init => Typed
<1> SUFFICES ASSUME Init PROVE Typed
  OBVIOUS
<1>1. IsFiniteSet(Reserved)
  BY FrameFacts, FS_Subset, ReservedAssumption
<1>2. Cardinality(Reserved) \in Int
  BY <1>1, FS_CardinalityType
<1>3. \A r \in Region : Cardinality(OfRegion(Reserved, r)) \in Int
  <2> TAKE r \in Region
  <2>1. OfRegion(Reserved, r) \in SUBSET Reserved
    BY DEF OfRegion
  <2> QED
    BY <1>1, <2>1, FS_Subset, FS_CardinalityType
<1> QED
  BY <1>2, <1>3, ReservedAssumption
  DEF Init, Typed, Labels, Walking, Found, Freeing

LEMMA TypedStep == Typed /\ [Next]_vars => Typed'
<1> SUFFICES ASSUME Typed, [Next]_vars PROVE Typed'
  OBVIOUS
<1>0. CASE UNCHANGED vars
  BY <1>0 DEF vars, shared, Typed
<1>1. ASSUME NEW c \in CPU, Call(c) PROVE Typed'
  <2>1. CASE GetFreeFrame(c)
    BY <2>1 DEF GetFreeFrame, Goto, shared, Typed, Labels, Walking, Found,
                Freeing
  <2>2. ASSUME NEW f \in Frame, FreeFrame(c, f) PROVE Typed'
    BY <2>2, FreeFrameFinds DEF Goto, shared, Typed, Labels, Walking, Found,
                                Freeing
  <2> QED
    BY <1>1, <2>1, <2>2 DEF Call
<1>2. ASSUME NEW c \in CPU, Step(c) PROVE Typed'
  <2> USE DEF Goto, Return, Lock, shared, Typed, Labels, Walking, Found,
              Freeing
  <2>1. CASE InitLock(c)
    BY <2>1 DEF InitLock
  <2>2. CASE InitUnlock(c)
    BY <2>2 DEF InitUnlock
  <2>3. CASE CheckTotal(c)
    BY <2>3 DEF CheckTotal
  <2>4. CASE ReadLast(c)
    <3>1. 1 \in Region
      BY RegionsAssumption DEF Region
    <3> QED
      BY <2>4, <3>1 DEF ReadLast
  <2>5. CASE CheckRegion(c)
    BY <2>5 DEF CheckRegion
  <2>6. CASE RegionLock(c)
    BY <2>6 DEF RegionLock
  <2>7. CASE Scan(c)
    BY <2>7 DEF Scan, Unset
  <2>8. CASE SetBit(c)
    BY <2>8 DEF SetBit
  <2>9. CASE CountUsed(c)
    BY <2>9 DEF CountUsed
  <2>10. CASE CountTotal(c)
    BY <2>10 DEF CountTotal
  <2>11. CASE MoveLast(c)
    BY <2>11, RegionNextType DEF MoveLast
  <2>12. CASE FoundUnlock(c)
    BY <2>12 DEF FoundUnlock
  <2>13. CASE NoneUnlock(c)
    BY <2>13 DEF NoneUnlock
  <2>14. CASE Advance(c)
    BY <2>14, RegionNextType DEF Advance
  <2>15. CASE FreeTest(c)
    BY <2>15 DEF FreeTest
  <2>16. CASE FreeLock(c)
    BY <2>16 DEF FreeLock
  <2>17. CASE UnsetBit(c)
    BY <2>17 DEF UnsetBit
  <2>18. CASE UncountUsed(c)
    BY <2>18, FrameFacts DEF UncountUsed
  <2>19. CASE UncountTotal(c)
    BY <2>19 DEF UncountTotal
  <2>20. CASE FreeUnlock(c)
    BY <2>20 DEF FreeUnlock
  <2> QED
    BY <1>2, <2>1, <2>2, <2>3, <2>4, <2>5, <2>6, <2>7, <2>8, <2>9, <2>10,
       <2>11, <2>12, <2>13, <2>14, <2>15, <2>16, <2>17, <2>18, <2>19, <2>20
    DEF Step
<1> QED
  BY <1>0, <1>1, <1>2 DEF Next

-----------------------------------------------------------------------------
(* Mutual exclusion *)

LEMMA MutexInit == Init => LockMutex
BY DEF Init, LockMutex, Critical

LEMMA MutexStep == Typed /\ LockMutex /\ [Next]_vars => LockMutex'
<1> SUFFICES ASSUME Typed, LockMutex, [Next]_vars PROVE LockMutex'
  OBVIOUS
<1> USE DEF LockMutex, Critical
<1>0. CASE UNCHANGED vars
  BY <1>0 DEF vars, shared
<1>1. ASSUME NEW c \in CPU, Call(c) PROVE LockMutex'
  <2>1. CASE GetFreeFrame(c)
    BY <2>1 DEF GetFreeFrame, Goto, Typed
  <2>2. ASSUME NEW f \in Frame, FreeFrame(c, f) PROVE LockMutex'
    BY <2>2, FreeFrameFinds DEF Goto, Typed
  <2> QED
    BY <1>1, <2>1, <2>2 DEF Call
<1>2. ASSUME NEW c \in CPU, Step(c) PROVE LockMutex'
  <2> USE DEF Goto, Return, Typed
  <2>1. ASSUME NEW from \in Labels, NEW to \in Labels, Lock(c, from, to),
               from \notin Critical, to \in Critical
        PROVE  LockMutex'
    BY <2>1 DEF Lock
  <2>2. CASE InitLock(c) \/ RegionLock(c) \/ FreeLock(c)
    BY <2>1, <2>2 DEF InitLock, RegionLock, FreeLock, Labels
  <2>3. ASSUME NEW from \in Critical, NEW to \in Labels, to \notin Critical,
               Goto(c, from, to), pmm_lock' = 0
        PROVE  LockMutex'
    BY <2>3
  <2>4. CASE InitUnlock(c) \/ FoundUnlock(c) \/ NoneUnlock(c) \/ FreeUnlock(c)
    BY <2>3, <2>4
    DEF InitUnlock, FoundUnlock, NoneUnlock, FreeUnlock, Labels
  <2>5. CASE CheckTotal(c) \/ ReadLast(c) \/ CheckRegion(c) \/ Advance(c)
                \/ FreeTest(c)
    BY <2>5 DEF CheckTotal, ReadLast, CheckRegion, Advance, FreeTest
  <2>6. CASE Scan(c) \/ SetBit(c) \/ CountUsed(c) \/ CountTotal(c)
                \/ MoveLast(c)
    BY <2>6 DEF Scan, SetBit, CountUsed, CountTotal, MoveLast
  <2>7. CASE UnsetBit(c) \/ UncountUsed(c) \/ UncountTotal(c)
    BY <2>7 DEF UnsetBit, UncountUsed, UncountTotal
  <2> QED
    BY <1>2, <2>2, <2>4, <2>5, <2>6, <2>7 DEF Step
<1> QED
  BY <1>0, <1>1, <1>2 DEF Next

\* Two CPUs are never both between a lock and the next unlock, whatever the
\* number of CPUs and the memory map.
THEOREM Mutex == Spec => []LockMutex
<1>1. Init => Typed /\ LockMutex
  BY TypedInit, MutexInit
<1>2. Typed /\ LockMutex /\ [Next]_vars => (Typed /\ LockMutex)'
  BY TypedStep, MutexStep
<1> QED
  BY <1>1, <1>2, PTL DEF Spec
-----------------------------------------------------------------------------
(* Ownership of the frames *)

\* NoDoubleAllocation, with what the lock protects: a block found clear
\* stays clear until it is claimed, a block cleared stays clear until the
\* counters know.
Ownership ==
    /\ NoDoubleAllocation
    /\ NoPanic
    /\ \A c \in CPU :
          pc[c] \in {"set_bit", "uncount_used", "uncount_total"}
            => frame[c] \notin bitmap

LEMMA OwnershipInit == Init => Ownership
BY DEF Init, Ownership, NoDoubleAllocation, NoPanic, Carried, Carrying

\* A step that claims, frees, hands over no frame keeps the ownership.
LEMMA OwnershipQuiet ==
    ASSUME Typed, Ownership, NEW c \in CPU, NEW to \in Labels,
           pc' = [pc EXCEPT ![c] = to],
           UNCHANGED <<bitmap, allocated>>,
           \A d \in CPU \ {c} : frame'[d] = frame[d],
           to \in Carrying <=> pc[c] \in Carrying,
           to \in Carrying => frame'[c] = frame[c],
           to # "panicked",
           to \in {"set_bit", "uncount_used", "uncount_total"}
                => frame'[c] \notin bitmap
    PROVE  Ownership'
<1> USE DEF Typed
<1>1. \A d \in CPU : /\ pc'[d] \in Carrying <=> pc[d] \in Carrying
                     /\ pc[d] \in Carrying => frame'[d] = frame[d]
  OBVIOUS
<1>2. Carried' = Carried
  BY <1>1 DEF Carried
<1>3. NoDoubleAllocation'
  BY <1>1, <1>2 DEF Ownership, NoDoubleAllocation
<1>4. NoPanic'
  BY DEF Ownership, NoPanic
<1>5. \A d \in CPU : pc'[d] \in {"set_bit", "uncount_used", "uncount_total"}
                        => frame'[d] \notin bitmap'
  BY DEF Ownership
<1> QED
  BY <1>3, <1>4, <1>5 DEF Ownership

\* The carried frame of a CPU is in nobody else's hands.
LEMMA CarriedFacts ==
    ASSUME Ownership, NEW c \in CPU, pc[c] \in Carrying
    PROVE  /\ frame[c] \in bitmap
           /\ frame[c] \notin Reserved \union allocated
           /\ \A d \in CPU \ {c} : pc[d] \in Carrying => frame[d] # frame[c]
BY DEF Ownership, NoDoubleAllocation, Carried

LEMMA OwnershipCall ==
    ASSUME Typed, Ownership, NEW c \in CPU, Call(c)
    PROVE  Ownership'
<1> USE DEF Goto
<1>1. CASE GetFreeFrame(c)
  BY <1>1, OwnershipQuiet DEF GetFreeFrame, shared, Labels, Carrying
<1>2. ASSUME NEW f \in Frame, FreeFrame(c, f) PROVE Ownership'
  <2> USE <1>2, FreeFrameFinds DEF shared, Typed
  <2>1. pc[c] \notin Carrying /\ "free_test" \in Carrying
    BY DEF Carrying
  <2>2. Carried' = Carried \union {f}
    BY <2>1 DEF Carried
  <2>3. f \notin Carried /\ f \notin Reserved
    BY DEF Ownership, NoDoubleAllocation
  <2>4. NoDoubleAllocation'
    <3>1. bitmap' = (Reserved \union allocated \union Carried)'
      BY <2>2 DEF Ownership, NoDoubleAllocation
    <3>2. (Reserved \intersect allocated = {})'
      BY DEF Ownership, NoDoubleAllocation
    <3>3. (Carried \intersect (Reserved \union allocated) = {})'
      BY <2>2, <2>3 DEF Ownership, NoDoubleAllocation
    <3>4. ASSUME NEW d \in CPU, NEW e \in CPU, pc'[d] \in Carrying,
                 pc'[e] \in Carrying, frame'[d] = frame'[e]
          PROVE  d = e
      <4>1. \A x \in CPU \ {c} : pc'[x] \in Carrying => frame'[x] # f
        BY <2>3 DEF Carried
      <4> QED
        BY <3>4, <4>1, <2>1 DEF Ownership, NoDoubleAllocation
    <3> QED
      BY <3>1, <3>2, <3>3, <3>4 DEF NoDoubleAllocation
  <2> QED
    BY <2>4 DEF Ownership, NoPanic
<1> QED
  BY <1>1, <1>2 DEF Call

LEMMA OwnershipSetBit ==
    ASSUME Typed, LockMutex, Ownership, NEW c \in CPU, SetBit(c)
    PROVE  Ownership'
<1> USE DEF SetBit, Goto, Typed
<1>1. pc[c] \notin Carrying /\ "count_used" \in Carrying
  BY DEF Carrying
<1>2. Carried' = Carried \union {frame[c]}
  BY <1>1 DEF Carried
<1>3. frame[c] \notin Reserved \union allocated \union Carried
  BY DEF Ownership, NoDoubleAllocation
<1>4. NoDoubleAllocation'
  <2>1. \A d \in CPU \ {c} : pc'[d] \in Carrying => frame'[d] # frame[c]
    BY <1>3 DEF Carried
  <2> QED
    BY <1>1, <1>2, <1>3, <2>1 DEF Ownership, NoDoubleAllocation
<1>5. \A d \in CPU : pc'[d] \notin {"set_bit", "uncount_used", "uncount_total"}
  BY DEF LockMutex, Critical
<1> QED
  BY <1>4, <1>5 DEF Ownership, NoPanic

LEMMA OwnershipFoundUnlock ==
    ASSUME Typed, Ownership, NEW c \in CPU, FoundUnlock(c)
    PROVE  Ownership'
<1> USE DEF FoundUnlock, Return, Goto, Typed, shared
<1>1. pc[c] \in Carrying /\ "idle" \notin Carrying
  BY DEF Carrying
<1>2. \A d \in CPU \ {c} : pc[d] \in Carrying => frame[d] # frame[c]
  BY <1>1, CarriedFacts
<1>3. Carried' = Carried \ {frame[c]} /\ frame[c] \in Carried
  BY <1>1, <1>2 DEF Carried
<1>4. NoDoubleAllocation'
  BY <1>1, <1>3, CarriedFacts DEF Ownership, NoDoubleAllocation
<1> QED
  BY <1>4 DEF Ownership, NoPanic

LEMMA OwnershipUnsetBit ==
    ASSUME Typed, Ownership, NEW c \in CPU, UnsetBit(c)
    PROVE  Ownership'
<1> USE DEF UnsetBit, Goto, Typed
<1>1. pc[c] \in Carrying /\ "uncount_used" \notin Carrying
  BY DEF Carrying
<1>2. \A d \in CPU \ {c} : pc[d] \in Carrying => frame[d] # frame[c]
  BY <1>1, CarriedFacts
<1>3. Carried' = Carried \ {frame[c]} /\ frame[c] \in Carried
  BY <1>1, <1>2 DEF Carried
<1>4. NoDoubleAllocation'
  BY <1>1, <1>3, CarriedFacts DEF Ownership, NoDoubleAllocation
<1>5. \A d \in CPU : pc'[d] \in {"set_bit", "uncount_used", "uncount_total"}
                        => frame'[d] \notin bitmap'
  BY DEF Ownership
<1> QED
  BY <1>4, <1>5 DEF Ownership, NoPanic

LEMMA OwnershipStep ==
    ASSUME Typed, LockMutex, Ownership, NEW c \in CPU, Step(c)
    PROVE  Ownership'
<1> USE DEF Goto, Return, shared
<1>1. CASE InitLock(c) \/ RegionLock(c) \/ FreeLock(c)
  BY <1>1, OwnershipQuiet
  DEF InitLock, RegionLock, FreeLock, Lock, Labels, Carrying
<1>2. CASE InitUnlock(c) \/ NoneUnlock(c)
  BY <1>2, OwnershipQuiet DEF InitUnlock, NoneUnlock, Labels, Carrying
<1>3. CASE CheckTotal(c)
  BY <1>3, OwnershipQuiet DEF CheckTotal, Labels, Carrying, Typed
<1>4. CASE ReadLast(c) \/ CheckRegion(c)
  BY <1>4, OwnershipQuiet DEF ReadLast, CheckRegion, Labels, Carrying
<1>5. CASE Scan(c)
  BY <1>5, OwnershipQuiet DEF Scan, Unset, Labels, Carrying, Typed
<1>6. CASE SetBit(c)
  BY <1>6, OwnershipSetBit
<1>7. CASE CountUsed(c) \/ CountTotal(c) \/ MoveLast(c)
  BY <1>7, OwnershipQuiet DEF CountUsed, CountTotal, MoveLast, Labels, Carrying
<1>8. CASE FoundUnlock(c)
  BY <1>8, OwnershipFoundUnlock
<1>9. CASE Advance(c)
  BY <1>9, OwnershipQuiet DEF Advance, Labels, Carrying, Typed
<1>10. CASE FreeTest(c)
  <2>1. frame[c] \in bitmap
    BY <1>10, CarriedFacts DEF FreeTest, Carrying
  <2> QED
    BY <1>10, <2>1, OwnershipQuiet DEF FreeTest, Labels, Carrying
<1>11. CASE UnsetBit(c)
  BY <1>11, OwnershipUnsetBit
<1>12. CASE UncountUsed(c) \/ UncountTotal(c)
  BY <1>12, OwnershipQuiet
  DEF UncountUsed, UncountTotal, Ownership, Labels, Carrying
<1>13. CASE FreeUnlock(c)
  BY <1>13, OwnershipQuiet DEF FreeUnlock, Labels, Carrying, Typed
<1> QED
  BY <1>1, <1>2, <1>3, <1>4, <1>5, <1>6, <1>7, <1>8, <1>9, <1>10, <1>11,
     <1>12, <1>13 DEF Step

LEMMA OwnershipNext ==
    Typed /\ LockMutex /\ Ownership /\ [Next]_vars => Ownership'
<1> SUFFICES ASSUME Typed, LockMutex, Ownership, [Next]_vars
             PROVE  Ownership'
  OBVIOUS
<1>1. CASE UNCHANGED vars
  BY <1>1 DEF vars, shared, Ownership, NoDoubleAllocation, NoPanic, Carried
<1>2. CASE Next
  BY <1>2, OwnershipCall, OwnershipStep DEF Next
<1> QED
  BY <1>1, <1>2

\* No frame is handed out twice: on any memory map, however the calls of
\* any number of CPUs interleave.
THEOREM Ownerships == Spec => []NoDoubleAllocation
<1>1. Init => Typed /\ LockMutex /\ Ownership
  BY TypedInit, MutexInit, OwnershipInit
<1>2. Typed /\ LockMutex /\ Ownership /\ [Next]_vars
        => (Typed /\ LockMutex /\ Ownership)'
  BY TypedStep, MutexStep, OwnershipNext
<1>3. Ownership => NoDoubleAllocation
  BY DEF Ownership
<1> QED
  BY <1>1, <1>2, <1>3, PTL DEF Spec
-----------------------------------------------------------------------------
(* The counters *)

\* The labels at which a counter lags behind the bitmaps.
Lagging == {"count_used", "count_total", "uncount_used", "uncount_total"}

\* Inside a critical section, a CPU is alone at those labels.
LEMMA AtAlone ==
    ASSUME LockMutex, NEW c \in CPU, pc[c] \in Critical,
           NEW L \in SUBSET Lagging
    PROVE  At(L) = IF pc[c] \in L THEN {frame[c]} ELSE {}
BY DEF LockMutex, Critical, Lagging, At

\* So it is after its step.
LEMMA AtAloneNext ==
    ASSUME Typed, LockMutex, NEW c \in CPU, pc[c] \in Critical,
           NEW to \in Labels, pc' = [pc EXCEPT ![c] = to],
           NEW L \in SUBSET Lagging
    PROVE  At(L)' = IF to \in L THEN {frame'[c]} ELSE {}
<1>1. L \subseteq Critical
  BY DEF Critical, Lagging
<1>2. \A d \in CPU : pc'[d] = IF d = c THEN to ELSE pc[d]
  BY DEF Typed
<1>3. \A d \in CPU : pc'[d] \in L <=> d = c /\ to \in L
  BY <1>1, <1>2 DEF LockMutex
<1>4. {d \in CPU : pc'[d] \in L} = IF to \in L THEN {c} ELSE {}
  BY <1>3
<1> QED
  BY <1>4 DEF At

\* A step that starts outside a critical section changes none of this.
LEMMA AtElsewhere ==
    ASSUME Typed, NEW c \in CPU, pc[c] \notin Lagging,
           NEW to \in Labels \ Lagging, pc' = [pc EXCEPT ![c] = to],
           \A d \in CPU \ {c} : frame'[d] = frame[d],
           NEW L \in SUBSET Lagging
    PROVE  At(L)' = At(L)
<1>1. \A d \in CPU : pc'[d] = IF d = c THEN to ELSE pc[d]
  BY DEF Typed
<1>2. \A d \in CPU : pc'[d] \in L <=> pc[d] \in L
  BY <1>1
<1>3. \A d \in CPU : pc[d] \in L => frame'[d] = frame[d]
  OBVIOUS
<1> QED
  BY <1>2, <1>3 DEF At

\* One more frame counts in its own region only.
LEMMA CountOneMore ==
    ASSUME NEW S, IsFiniteSet(S), NEW f, f \notin S, NEW r
    PROVE  Cardinality(OfRegion(S \union {f}, r)) =
              IF f[1] = r THEN Cardinality(OfRegion(S, r)) + 1
                          ELSE Cardinality(OfRegion(S, r))
<1>1. IsFiniteSet(OfRegion(S, r))
  <2>1. OfRegion(S, r) \in SUBSET S
    BY DEF OfRegion
  <2> QED
    BY <2>1, FS_Subset
<1>2. CASE f[1] = r
  <2>1. OfRegion(S \union {f}, r) = OfRegion(S, r) \union {f}
    BY <1>2 DEF OfRegion
  <2>2. f \notin OfRegion(S, r)
    BY DEF OfRegion
  <2>3. Cardinality(OfRegion(S, r) \union {f}) = Cardinality(OfRegion(S, r)) + 1
    BY <1>1, <2>2, FS_AddElement
  <2> QED
    BY <1>2, <2>1, <2>3
<1>3. CASE f[1] # r
  <2>1. OfRegion(S \union {f}, r) = OfRegion(S, r)
    BY <1>3 DEF OfRegion
  <2> QED
    BY <1>3, <2>1
<1> QED
  BY <1>2, <1>3

\* Every set of frames is finite, region by region.
LEMMA RegionCards ==
    ASSUME NEW S \in SUBSET Frame, NEW r
    PROVE  IsFiniteSet(S) /\ Cardinality(OfRegion(S, r)) \in Nat
<1>1. IsFiniteSet(S)
  BY FrameFacts, FS_Subset
<1>2. OfRegion(S, r) \in SUBSET S
  BY DEF OfRegion
<1> QED
  BY <1>1, <1>2, FS_Subset, FS_CardinalityType

LEMMA CountersInit == Init => Counters
<1> SUFFICES ASSUME Init PROVE Counters
  OBVIOUS
<1>1. Counted = Reserved /\ CountedTotal = Reserved
  BY DEF Init, Counted, CountedTotal, At
<1> QED
  BY <1>1 DEF Init, Counters

LEMMA CountersSame ==
    ASSUME Counters, UNCHANGED <<used_blocks, total_used_blocks>>,
           Counted' = Counted, CountedTotal' = CountedTotal
    PROVE  Counters'
BY DEF Counters

\* The counted sets are sets of frames.
LEMMA CountedFrames ==
    Typed => Counted \subseteq Frame /\ CountedTotal \subseteq Frame
BY DEF Typed, Counted, CountedTotal, At, Freeing

\* Steps that are neither a claim, a release nor an update of a counter.
LEMMA CountersQuiet ==
    ASSUME Typed, Counters, NEW c \in CPU, pc[c] \notin Lagging,
           NEW to \in Labels \ Lagging, pc' = [pc EXCEPT ![c] = to],
           \A d \in CPU \ {c} : frame'[d] = frame[d],
           UNCHANGED <<bitmap, used_blocks, total_used_blocks>>
    PROVE  Counters'
<1>1. \A L \in SUBSET Lagging : At(L)' = At(L)
  BY AtElsewhere
<1>2. Counted' = Counted /\ CountedTotal' = CountedTotal
  BY <1>1 DEF Counted, CountedTotal, Lagging
<1> QED
  BY <1>2, CountersSame

LEMMA CountersSetBit ==
    ASSUME Typed, LockMutex, Ownership, Counters, NEW c \in CPU, SetBit(c)
    PROVE  Counters'
<1> USE DEF SetBit, Goto
<1>1. pc[c] \in Critical /\ pc[c] \notin Lagging /\ "count_used" \in Labels
  BY DEF Critical, Lagging, Labels
<1>2. Counted = bitmap /\ CountedTotal = bitmap
  BY <1>1, AtAlone DEF Counted, CountedTotal, Lagging
<1>3. /\ At({"count_used"})' = {frame[c]}
      /\ At({"count_used", "count_total"})' = {frame[c]}
      /\ At({"uncount_used"})' = {}
      /\ At({"uncount_used", "uncount_total"})' = {}
  <2>1. \A L \in SUBSET Lagging :
            At(L)' = IF "count_used" \in L THEN {frame'[c]} ELSE {}
    BY <1>1, AtAloneNext
  <2> QED
    BY <2>1 DEF Lagging
<1>4. frame[c] \notin bitmap
  BY DEF Ownership
<1>5. Counted' = bitmap /\ CountedTotal' = bitmap
  BY <1>3, <1>4 DEF Counted, CountedTotal
<1> QED
  BY <1>2, <1>5, CountersSame

LEMMA CountersCountUsed ==
    ASSUME Typed, LockMutex, Ownership, Counters, NEW c \in CPU, CountUsed(c)
    PROVE  Counters'
<1> USE DEF CountUsed, Goto
<1>1. pc[c] \in Critical /\ "count_total" \in Labels
  BY DEF Critical, Labels
<1>2. Counted = bitmap \ {frame[c]} /\ CountedTotal = bitmap \ {frame[c]}
  BY <1>1, AtAlone DEF Counted, CountedTotal, Lagging
<1>3. Counted' = bitmap /\ CountedTotal' = bitmap \ {frame[c]}
  <2>1. \A L \in SUBSET Lagging :
            At(L)' = IF "count_total" \in L THEN {frame'[c]} ELSE {}
    BY <1>1, AtAloneNext
  <2> QED
    BY <2>1 DEF Counted, CountedTotal, Lagging
<1>4. frame[c] \in bitmap /\ frame[c][1] = curr[c] /\ curr[c] \in Region
  BY CarriedFacts DEF Carrying, Typed, Walking, Found
<1>5. Counted' = Counted \union {frame[c]} /\ frame[c] \notin Counted
  BY <1>2, <1>3, <1>4
<1>6. Counted \in SUBSET Frame
  BY CountedFrames
<1>7. ASSUME NEW r \in Region
      PROVE  used_blocks'[r] = Cardinality(OfRegion(Counted', r))
  <2>1. Cardinality(OfRegion(Counted', r)) =
            IF frame[c][1] = r THEN Cardinality(OfRegion(Counted, r)) + 1
                               ELSE Cardinality(OfRegion(Counted, r))
    BY <1>5, <1>6, RegionCards, CountOneMore
  <2> QED
    BY <2>1, <1>4 DEF Counters, Typed
<1> QED
  BY <1>2, <1>3, <1>7 DEF Counters, OfRegion

LEMMA CountersCountTotal ==
    ASSUME Typed, LockMutex, Ownership, Counters, NEW c \in CPU, CountTotal(c)
    PROVE  Counters'
<1> USE DEF CountTotal, Goto
<1>1. pc[c] \in Critical /\ "move_last" \in Labels
  BY DEF Critical, Labels
<1>2. Counted = bitmap /\ CountedTotal = bitmap \ {frame[c]}
  BY <1>1, AtAlone DEF Counted, CountedTotal, Lagging
<1>3. Counted' = bitmap /\ CountedTotal' = bitmap
  BY <1>1, AtAloneNext DEF Counted, CountedTotal, Lagging
<1>4. frame[c] \in bitmap
  BY CarriedFacts DEF Carrying
<1>5. IsFiniteSet(CountedTotal)
  BY CountedFrames, RegionCards
<1>6. Cardinality(CountedTotal') = Cardinality(CountedTotal) + 1
  <2>1. CountedTotal' = CountedTotal \union {frame[c]}
    BY <1>2, <1>3, <1>4
  <2> QED
    BY <1>2, <1>5, <2>1, FS_AddElement
<1> QED
  BY <1>2, <1>3, <1>6 DEF Counters, OfRegion

LEMMA CountersUnsetBit ==
    ASSUME Typed, LockMutex, Ownership, Counters, NEW c \in CPU, UnsetBit(c)
    PROVE  Counters'
<1> USE DEF UnsetBit, Goto
<1>1. pc[c] \in Critical /\ pc[c] \notin Lagging /\ "uncount_used" \in Labels
  BY DEF Critical, Lagging, Labels
<1>2. Counted = bitmap /\ CountedTotal = bitmap
  BY <1>1, AtAlone DEF Counted, CountedTotal, Lagging
<1>3. /\ At({"count_used"})' = {}
      /\ At({"count_used", "count_total"})' = {}
      /\ At({"uncount_used"})' = {frame[c]}
      /\ At({"uncount_used", "uncount_total"})' = {frame[c]}
  <2>1. \A L \in SUBSET Lagging :
            At(L)' = IF "uncount_used" \in L THEN {frame'[c]} ELSE {}
    BY <1>1, AtAloneNext
  <2> QED
    BY <2>1 DEF Lagging
<1>4. frame[c] \in bitmap
  BY CarriedFacts DEF Carrying
<1>5. Counted' = bitmap /\ CountedTotal' = bitmap
  BY <1>3, <1>4 DEF Counted, CountedTotal
<1> QED
  BY <1>2, <1>5, CountersSame

LEMMA CountersUncountUsed ==
    ASSUME Typed, LockMutex, Ownership, Counters, NEW c \in CPU, UncountUsed(c)
    PROVE  Counters'
<1> USE DEF UncountUsed, Goto
<1>1. pc[c] \in Critical /\ "uncount_total" \in Labels
  BY DEF Critical, Labels
<1>2. Counted = bitmap \union {frame[c]}
      /\ CountedTotal = bitmap \union {frame[c]}
  BY <1>1, AtAlone DEF Counted, CountedTotal, Lagging
<1>3. Counted' = bitmap /\ CountedTotal' = bitmap \union {frame[c]}
  <2>1. \A L \in SUBSET Lagging :
            At(L)' = IF "uncount_total" \in L THEN {frame'[c]} ELSE {}
    BY <1>1, AtAloneNext
  <2> QED
    BY <2>1 DEF Counted, CountedTotal, Lagging
<1>4. frame[c] \notin bitmap /\ frame[c][1] \in Region
  BY FrameFacts DEF Ownership, Typed, Freeing
<1>5. Counted = Counted' \union {frame[c]} /\ frame[c] \notin Counted'
  BY <1>2, <1>3, <1>4
<1>6. Counted' \in SUBSET Frame
  BY <1>3 DEF Typed
<1>7. ASSUME NEW r \in Region
      PROVE  used_blocks'[r] = Cardinality(OfRegion(Counted', r))
  <2>1. Cardinality(OfRegion(Counted, r)) =
            IF frame[c][1] = r THEN Cardinality(OfRegion(Counted', r)) + 1
                               ELSE Cardinality(OfRegion(Counted', r))
    BY <1>5, <1>6, RegionCards, CountOneMore
  <2>2. Cardinality(OfRegion(Counted', r)) \in Nat
    BY <1>6, RegionCards
  <2> QED
    BY <2>1, <2>2, <1>4 DEF Counters, Typed
<1> QED
  BY <1>2, <1>3, <1>7 DEF Counters, OfRegion

LEMMA CountersUncountTotal ==
    ASSUME Typed, LockMutex, Ownership, Counters, NEW c \in CPU,
           UncountTotal(c)
    PROVE  Counters'
<1> USE DEF UncountTotal, Goto
<1>1. pc[c] \in Critical /\ "free_unlock" \in Labels
  BY DEF Critical, Labels
<1>2. Counted = bitmap /\ CountedTotal = bitmap \union {frame[c]}
  BY <1>1, AtAlone DEF Counted, CountedTotal, Lagging
<1>3. Counted' = bitmap /\ CountedTotal' = bitmap
  BY <1>1, AtAloneNext DEF Counted, CountedTotal, Lagging
<1>4. frame[c] \notin bitmap
  BY DEF Ownership
<1>5. IsFiniteSet(bitmap) /\ Cardinality(bitmap) \in Nat
  BY FrameFacts, FS_Subset, FS_CardinalityType DEF Typed
<1>6. Cardinality(CountedTotal) = Cardinality(bitmap) + 1
  BY <1>2, <1>4, <1>5, FS_AddElement
<1> QED
  BY <1>2, <1>3, <1>5, <1>6 DEF Counters, OfRegion

LEMMA CountersStep ==
    Typed /\ LockMutex /\ Ownership /\ Counters /\ [Next]_vars => Counters'
<1> SUFFICES ASSUME Typed, LockMutex, Ownership, Counters, [Next]_vars
             PROVE  Counters'
  OBVIOUS
<1>1. CASE UNCHANGED vars
  BY <1>1 DEF vars, shared, Counters, Counted, CountedTotal, At
<1>2. ASSUME NEW c \in CPU, Call(c) PROVE Counters'
  <2> USE DEF Goto, shared, Labels, Lagging
  <2>1. CASE GetFreeFrame(c)
    BY <2>1, CountersQuiet DEF GetFreeFrame
  <2>2. ASSUME NEW f \in Frame, FreeFrame(c, f) PROVE Counters'
    BY <2>2, FreeFrameFinds, CountersQuiet DEF Typed
  <2> QED
    BY <1>2, <2>1, <2>2 DEF Call
<1>3. ASSUME NEW c \in CPU, Step(c) PROVE Counters'
  <2> USE DEF Goto, Return, shared
  <2>1. CASE InitLock(c) \/ RegionLock(c) \/ FreeLock(c)
    BY <2>1, CountersQuiet DEF InitLock, RegionLock, FreeLock, Lock, Labels,
                               Lagging
  <2>2. CASE InitUnlock(c) \/ NoneUnlock(c) \/ ReadLast(c)
                \/ CheckRegion(c) \/ MoveLast(c) \/ FreeTest(c)
    BY <2>2, CountersQuiet DEF InitUnlock, NoneUnlock, ReadLast, CheckRegion,
                               MoveLast, FreeTest, Labels, Lagging
  <2>3. CASE CheckTotal(c) \/ Advance(c)
    BY <2>3, CountersQuiet DEF CheckTotal, Advance, Labels, Lagging, Typed
  <2>4. CASE Scan(c)
    BY <2>4, CountersQuiet DEF Scan, Labels, Lagging, Typed
  <2>5. CASE FoundUnlock(c) \/ FreeUnlock(c)
    BY <2>5, CountersQuiet DEF FoundUnlock, FreeUnlock, Labels, Lagging, Typed
  <2> QED
    BY <1>3, <2>1, <2>2, <2>3, <2>4, <2>5, CountersSetBit, CountersCountUsed,
       CountersCountTotal, CountersUnsetBit, CountersUncountUsed,
       CountersUncountTotal DEF Step
<1> QED
  BY <1>1, <1>2, <1>3 DEF Next

-----------------------------------------------------------------------------
(* The inductive invariant and what follows from it *)

IInv == Typed /\ LockMutex /\ Ownership /\ Counters

\* The conjunction of the layers is inductive.
THEOREM Invariance == Spec => []IInv
<1>1. Init => IInv
  BY TypedInit, MutexInit, OwnershipInit, CountersInit DEF IInv
<1>2. IInv /\ [Next]_vars => IInv'
  BY TypedStep, MutexStep, OwnershipNext, CountersStep DEF IInv
<1> QED
  BY <1>1, <1>2, PTL DEF Spec

\* The counters are sizes of sets of frames, so they are never negative.
LEMMA IInvTypeOK == IInv => TypeOK
<1> SUFFICES ASSUME IInv PROVE TypeOK
  OBVIOUS
<1>1. Counted \in SUBSET Frame /\ CountedTotal \in SUBSET Frame
  BY CountedFrames DEF IInv
<1>2. Cardinality(CountedTotal) \in Nat
  BY <1>1, RegionCards, FS_CardinalityType
<1>3. \A r \in Region : Cardinality(OfRegion(Counted, r)) \in Nat
  BY <1>1, RegionCards
<1>4. total_used_blocks \in Nat /\ used_blocks \in [Region -> Nat]
  BY <1>2, <1>3 DEF IInv, Counters, Typed
<1> QED
  BY <1>4 DEF IInv, Typed, TypeOK

\* The unsigned counters never wrap below zero, and every variable has its
\* type.
THEOREM TypeCorrect == Spec => []TypeOK
BY Invariance, IInvTypeOK, PTL

\* The counters agree with the bitmaps up to the update in progress.
THEOREM CountersAgree == Spec => []Counters
<1>1. IInv => Counters
  BY DEF IInv
<1> QED
  BY <1>1, Invariance, PTL

\* No free of an address the kernel holds runs into the panic of line 389 or
\* of line 393, on a map of the assumed order.
THEOREM FreeNeverPanics == Spec => []NoPanic
<1>1. IInv => NoPanic
  BY DEF IInv, Ownership
<1> QED
  BY <1>1, Invariance, PTL

\* The only step from line 346 back to the caller.
LEMMA GivingUp ==
    ASSUME IInv, [Next]_vars, NEW c \in CPU,
           pc[c] = "check_total", pc'[c] = "idle"
    PROVE  TotalBlocks - total_used_blocks = 0
<1> USE DEF Goto, Return, Lock, IInv, Typed
<1>1. CASE UNCHANGED vars
  BY <1>1 DEF vars
<1>2. ASSUME NEW d \in CPU, Call(d) PROVE FALSE
  <2>1. ASSUME NEW f \in Frame, FreeFrame(d, f) PROVE FALSE
    BY <2>1, FreeFrameFinds
  <2> QED
    BY <1>2, <2>1 DEF Call, GetFreeFrame
<1>3. ASSUME NEW d \in CPU, Step(d), d # c PROVE FALSE
  BY <1>3 DEF Step, InitLock, InitUnlock, CheckTotal, ReadLast, CheckRegion,
     RegionLock, Scan, SetBit, CountUsed, CountTotal, MoveLast, FoundUnlock,
     NoneUnlock, Advance, FreeTest, FreeLock, UnsetBit, UncountUsed,
     UncountTotal, FreeUnlock
<1>4. CASE Step(c)
  BY <1>4 DEF Step, InitLock, InitUnlock, CheckTotal, ReadLast, CheckRegion,
     RegionLock, Scan, SetBit, CountUsed, CountTotal, MoveLast, FoundUnlock,
     NoneUnlock, Advance, FreeTest, FreeLock, UnsetBit, UncountUsed,
     UncountTotal, FreeUnlock
<1> QED
  BY <1>1, <1>2, <1>3, <1>4 DEF Next

\* When get_free_frame gives up before its search, no frame is free but the
\* one that a call is giving back.
THEOREM GivesUpWhenFull == Spec => FullWhenGivingUp
<1>1. ASSUME IInv, [Next]_vars, NEW c \in CPU,
             pc[c] = "check_total", pc'[c] = "idle"
      PROVE  Frame \ bitmap \subseteq At({"uncount_used", "uncount_total"})
  <2>1. TotalBlocks - total_used_blocks = 0
    BY <1>1, GivingUp
  <2>2. total_used_blocks = Cardinality(CountedTotal)
    BY <1>1 DEF IInv, Counters
  <2>3. CountedTotal \subseteq Frame
    BY <1>1, CountedFrames DEF IInv
  <2>4. Cardinality(CountedTotal) \in Nat /\ Cardinality(Frame) \in Nat
    BY <2>3, FrameFacts, FS_Subset, FS_CardinalityType
  <2>5. Cardinality(CountedTotal) = Cardinality(Frame)
    BY <2>1, <2>2, <2>4 DEF TotalBlocks
  <2>6. CountedTotal = Frame
    BY <2>3, <2>5, FrameFacts, FS_Subset
  <2> QED
    BY <2>6 DEF CountedTotal
<1>2. IInv /\ [Next]_vars
        => [\A c \in CPU : pc[c] = "check_total" /\ pc'[c] = "idle" =>
               Frame \ bitmap \subseteq At({"uncount_used", "uncount_total"})]_vars
  BY <1>1
<1> QED
  BY <1>2, Invariance, PTL DEF Spec, FullWhenGivingUp

-----------------------------------------------------------------------------
(* Refinement *)

\* The frame a CPU carries, as the abstract pool sees it.
Transit == [c \in CPU |-> IF pc[c] \in Carrying THEN frame[c] ELSE NoFrame]

LEMMA PoolInit == Init => Pool!Init
BY DEF Init, Pool!Init, Carrying

\* Steps the pool does not see.
LEMMA PoolQuiet ==
    ASSUME Typed, NEW c \in CPU, NEW to \in Labels,
           pc' = [pc EXCEPT ![c] = to],
           UNCHANGED <<bitmap, allocated>>,
           \A d \in CPU \ {c} : frame'[d] = frame[d],
           to \in Carrying <=> pc[c] \in Carrying,
           to \in Carrying => frame'[c] = frame[c]
    PROVE  UNCHANGED Pool!poolVars
<1>1. \A d \in CPU : pc'[d] = IF d = c THEN to ELSE pc[d]
  BY DEF Typed
<1>2. Transit' = Transit
  BY <1>1 DEF Transit
<1> QED
  BY <1>2 DEF Pool!poolVars, Transit

LEMMA PoolSetBit ==
    ASSUME Typed, Ownership, NEW c \in CPU, SetBit(c)
    PROVE  Pool!Claim(c, frame[c])
<1> USE DEF SetBit, Goto
<1>1. frame[c] \in Frame /\ frame[c] \notin bitmap
  BY DEF Typed, Found, Ownership
<1>2. Transit[c] = NoFrame
  BY DEF Transit, Carrying
<1>3. Transit' = [Transit EXCEPT ![c] = frame[c]]
  BY DEF Transit, Carrying, Typed
<1> QED
  BY <1>1, <1>2, <1>3 DEF Pool!Claim, Transit

LEMMA PoolFoundUnlock ==
    ASSUME Typed, Ownership, NEW c \in CPU, FoundUnlock(c)
    PROVE  Pool!Deliver(c)
<1> USE DEF FoundUnlock, Return, Goto, shared
<1>1. Transit[c] = frame[c] /\ frame[c] # NoFrame
  BY FrameFacts DEF Transit, Carrying, Typed, Found
<1>2. Transit' = [Transit EXCEPT ![c] = NoFrame]
  BY DEF Transit, Carrying, Typed
<1> QED
  BY <1>1, <1>2 DEF Pool!Deliver, Transit

LEMMA PoolFreeFrame ==
    ASSUME Typed, NEW c \in CPU, NEW f \in Frame, FreeFrame(c, f)
    PROVE  Pool!Surrender(c, f)
<1>1. /\ f \in allocated /\ allocated' = allocated \ {f} /\ bitmap' = bitmap
      /\ pc[c] = "idle" /\ pc' = [pc EXCEPT ![c] = "free_test"]
      /\ frame' = [frame EXCEPT ![c] = f]
  BY FreeFrameFinds DEF Goto, shared
<1>2. Transit[c] = NoFrame
  BY <1>1 DEF Transit, Carrying
<1>3. Transit' = [Transit EXCEPT ![c] = f]
  BY <1>1 DEF Transit, Carrying, Typed
<1> QED
  BY <1>1, <1>2, <1>3 DEF Pool!Surrender, Transit

LEMMA PoolUnsetBit ==
    ASSUME Typed, Ownership, NEW c \in CPU, UnsetBit(c)
    PROVE  Pool!Recycle(c)
<1> USE DEF UnsetBit, Goto
<1>1. Transit[c] = frame[c] /\ frame[c] \in Frame /\ frame[c] # NoFrame
  BY FrameFacts DEF Transit, Carrying, Typed, Freeing
<1>2. Transit' = [Transit EXCEPT ![c] = NoFrame]
  BY DEF Transit, Carrying, Typed
<1>3. Frame \ bitmap' = (Frame \ bitmap) \union {frame[c]}
  BY <1>1
<1> QED
  BY <1>1, <1>2, <1>3 DEF Pool!Recycle, Transit

LEMMA PoolStep == IInv /\ [Next]_vars => [Pool!Next]_(Pool!poolVars)
<1> SUFFICES ASSUME Typed, Ownership, [Next]_vars
             PROVE  Pool!Next \/ UNCHANGED Pool!poolVars
  BY DEF IInv
<1>1. CASE UNCHANGED vars
  BY <1>1 DEF vars, shared, Pool!poolVars
<1>2. ASSUME NEW c \in CPU, Call(c)
      PROVE  Pool!Next \/ UNCHANGED Pool!poolVars
  <2>1. CASE GetFreeFrame(c)
    BY <2>1, PoolQuiet DEF GetFreeFrame, Goto, shared, Labels, Carrying
  <2>2. ASSUME NEW f \in Frame, FreeFrame(c, f) PROVE Pool!Next
    BY <2>2, PoolFreeFrame DEF Pool!Next
  <2> QED
    BY <1>2, <2>1, <2>2 DEF Call
<1>3. ASSUME NEW c \in CPU, Step(c)
      PROVE  Pool!Next \/ UNCHANGED Pool!poolVars
  <2> USE DEF Goto, Return, shared, Labels, Carrying
  <2>1. CASE InitLock(c) \/ RegionLock(c) \/ FreeLock(c)
    BY <2>1, PoolQuiet DEF InitLock, RegionLock, FreeLock, Lock
  <2>2. CASE InitUnlock(c) \/ NoneUnlock(c) \/ ReadLast(c)
                \/ CheckRegion(c)
    BY <2>2, PoolQuiet DEF InitUnlock, NoneUnlock, ReadLast, CheckRegion
  <2>3. CASE CheckTotal(c) \/ Advance(c)
    BY <2>3, PoolQuiet DEF CheckTotal, Advance, Typed
  <2>4. CASE Scan(c)
    BY <2>4, PoolQuiet DEF Scan, Typed
  <2>5. CASE CountUsed(c) \/ CountTotal(c) \/ MoveLast(c)
    BY <2>5, PoolQuiet DEF CountUsed, CountTotal, MoveLast
  <2>6. CASE UncountUsed(c) \/ UncountTotal(c)
    BY <2>6, PoolQuiet DEF UncountUsed, UncountTotal
  <2>7. CASE FreeUnlock(c)
    BY <2>7, PoolQuiet DEF FreeUnlock, Typed
  <2>8. CASE FreeTest(c)
    <3>1. frame[c] \in bitmap
      BY <2>8, CarriedFacts DEF FreeTest
    <3> QED
      BY <2>8, <3>1, PoolQuiet DEF FreeTest
  <2>9. CASE SetBit(c)
    <3>1. frame[c] \in Frame
      BY <2>9 DEF SetBit, Typed, Found
    <3>2. Pool!Claim(c, frame[c])
      BY <2>9, PoolSetBit
    <3>3. \E f \in Frame : Pool!Claim(c, f)
      BY <3>1, <3>2 DEF Pool!Claim
    <3> QED
      BY <3>3 DEF Pool!Next
  <2>10. CASE FoundUnlock(c)
    BY <2>10, PoolFoundUnlock DEF Pool!Next
  <2>11. CASE UnsetBit(c)
    BY <2>11, PoolUnsetBit DEF Pool!Next
  <2> QED
    BY <1>3, <2>1, <2>2, <2>3, <2>4, <2>5, <2>6, <2>7, <2>8, <2>9, <2>10,
       <2>11 DEF Step
<1> QED
  BY <1>1, <1>2, <1>3 DEF Next

\* The manager is a pool of frames: each of its many steps is one of the
\* pool's four atomic operations or changes nothing the kernel can see.
THEOREM Refinement == Spec => PoolSpec
<1>1. Init => Pool!Init
  BY PoolInit
<1>2. IInv /\ [Next]_vars => [Pool!Next]_(Pool!poolVars)
  BY PoolStep
<1> QED
  BY <1>1, <1>2, Invariance, PTL DEF Spec, PoolSpec, Pool!Spec
=============================================================================
