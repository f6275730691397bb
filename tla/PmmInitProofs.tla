--------------------------- MODULE PmmInitProofs ---------------------------
(***************************************************************************)
(* Proofs that the memory map reaches the frame allocator and the heap     *)
(* without a mistake: what pmm_init leaves, in machines whose memory is in *)
(* order.                                                                  *)
(***************************************************************************)
EXTENDS BootProofs

-----------------------------------------------------------------------------
(* What is laid out, and what of it is reserved *)

\* The regions with their bitmaps, before anything is reserved.
Laid(mem, kernel) == Placed(Regions(mem), RoundUp(kernel.end))

Home(laid, q) == addr_to_bitmap(laid, q.start)
Blocks(q) == IF q.size < BLOCK_SIZE THEN 1 ELSE q.size \div BLOCK_SIZE
BitsOf(laid, q) ==
    LET bit == BitOf(laid[Home(laid, q)], q.start)
    IN  bit .. bit + Blocks(q) - 1

\* A region as it was laid out, with some bits set and counted.
SameRegion(r, l) ==
    /\ r.first = l.first /\ r.last = l.last /\ r.total_blocks = l.total_blocks
    /\ r.bitmap = l.bitmap /\ r.bitmap_size = l.bitmap_size
    /\ IsFiniteSet(r.bits) /\ r.reserved_blocks = Cardinality(r.bits)

\* The first n requests are what is reserved.
Done(rs, laid, wanted, n) ==
    /\ Len(rs) = Len(laid)
    /\ \A i \in 1 .. Len(laid) : SameRegion(rs[i], laid[i])
    /\ \A k \in 1 .. n : Home(laid, wanted[k]) # 0
                         /\ BitsOf(laid, wanted[k]) \subseteq rs[Home(laid, wanted[k])].bits
    /\ \A i \in 1 .. Len(laid) : \A b \in rs[i].bits :
          \E k \in 1 .. n : Home(laid, wanted[k]) = i /\ b \in BitsOf(laid, wanted[k])

-----------------------------------------------------------------------------
(* Pages *)

\* An address is rounded to a page.
LEMMA RoundUpIs ==
    ASSUME NEW a \in Nat
    PROVE  \E u \in Nat : RoundUp(a) = 4096 * u /\ a <= 4096 * u /\ 4096 * u < a + 4096
<1> DEFINE u == (a + 4095) \div 4096
<1>1. u \in Nat /\ a <= 4096 * u /\ 4096 * u < a + 4096
  OBVIOUS
<1>2. RoundUp(a) = u * 4096
  BY DEF RoundUp, PAGE_SIZE
<1> HIDE DEF u
<1>3. u * 4096 = 4096 * u
  BY <1>1
<1> QED
  BY <1>1, <1>2, <1>3

LEMMA RoundDownIs ==
    ASSUME NEW a \in Int
    PROVE  \E d \in Int : RoundDown(a) = 4096 * d /\ 4096 * d <= a /\ a < 4096 * d + 4096
<1> DEFINE d == a \div 4096
<1>1. d \in Int /\ 4096 * d <= a /\ a < 4096 * d + 4096
  OBVIOUS
<1>2. RoundDown(a) = d * 4096
  BY DEF RoundDown, PAGE_SIZE
<1> HIDE DEF d
<1>3. d * 4096 = 4096 * d
  BY <1>1
<1> QED
  BY <1>1, <1>2, <1>3

\* The number of a page.
LEMMA PageNumber == ASSUME NEW n \in Int PROVE (4096 * n) \div 4096 = n
OBVIOUS

\* A region reserves the whole frames of a range if it does so page by page.
LEMMA FramesByPage ==
    ASSUME NEW r, NEW f \in Int, r.first = 4096 * f, r.total_blocks \in Nat,
           NEW from \in Nat, NEW to \in Nat,
           \A p \in Int : from <= 4096 * p /\ 4096 * p + 4096 <= to
                          /\ f <= p /\ p < f + r.total_blocks => p - f \in r.bits
    PROVE  WholeFramesReserved(r, from, to)
<1>1. PICK u \in Nat : RoundUp(from) = 4096 * u /\ from <= 4096 * u
  BY RoundUpIs
<1>2. PICK d \in Int : RoundDown(to) = 4096 * d /\ 4096 * d <= to
  BY RoundDownIs
<1>3. /\ (RoundUp(from) - r.first) \div BLOCK_SIZE = u - f
      /\ (RoundDown(to) - r.first) \div BLOCK_SIZE = d - f
  <2>1. 4096 * u - 4096 * f = 4096 * (u - f) /\ 4096 * d - 4096 * f = 4096 * (d - f)
    OBVIOUS
  <2>2. u - f \in Int /\ d - f \in Int
    OBVIOUS
  <2> QED BY <1>1, <1>2, <2>1, <2>2, PageNumber DEF BLOCK_SIZE, PAGE_SIZE
<1>4. ASSUME NEW b \in u - f .. d - f - 1, b \in 0 .. r.total_blocks - 1
      PROVE  b \in r.bits
  <2> DEFINE p == b + f
  <2>1. /\ p \in Int /\ u <= p /\ p + 1 <= d /\ f <= p /\ p < f + r.total_blocks
        /\ p - f = b
    BY <1>4
  <2> HIDE DEF p
  <2>2. from <= 4096 * p /\ 4096 * p + 4096 <= to
    BY <1>1, <1>2, <2>1
  <2> QED BY <2>1, <2>2
<1> QED
  BY <1>3, <1>4 DEF WholeFramesReserved

-----------------------------------------------------------------------------
(* Regions *)

\* A region of an entry of the map: the first page in it, the last page that
\* begins in it, and as many frames as its length has.
Covers(r, e, f, z) ==
    /\ f \in Nat /\ z \in Int
    /\ r.first = 4096 * f /\ e.base <= 4096 * f /\ 4096 * f < e.base + 4096
    /\ r.last = 4096 * z /\ 4096 * z < e.base + e.length
    /\ e.base + e.length <= 4096 * z + 4096
    /\ r.total_blocks \in Nat /\ r.bitmap_size \in Nat
    /\ 4096 * r.total_blocks <= e.length /\ e.length < 4096 * r.total_blocks + 4096

LEMMA RegionIs ==
    ASSUME NEW e \in MemoryEntry
    PROVE  \E f, z : Covers(NewRegion(e), e, f, z)
<1>1. e.base \in Nat /\ e.length \in Nat
  BY DEF MemoryEntry
<1> DEFINE blocks == e.length \div BLOCK_SIZE
           size == (blocks + 7) \div 8
<1>2. blocks \in Nat /\ 4096 * blocks <= e.length /\ e.length < 4096 * blocks + 4096
  BY <1>1 DEF BLOCK_SIZE, PAGE_SIZE
<1>3. size \in Nat
  <2> HIDE DEF blocks
  <2> QED BY <1>2
<1>4. PICK f \in Nat : /\ RoundUp(e.base) = 4096 * f /\ e.base <= 4096 * f
                       /\ 4096 * f < e.base + 4096
  BY <1>1, RoundUpIs
<1>5. e.base + e.length - 1 \in Int
  BY <1>1
<1>6. PICK z \in Int : /\ RoundDown(e.base + e.length - 1) = 4096 * z
                       /\ 4096 * z <= e.base + e.length - 1
                       /\ e.base + e.length - 1 < 4096 * z + 4096
  BY <1>5, RoundDownIs
<1>7. 4096 * z < e.base + e.length /\ e.base + e.length <= 4096 * z + 4096
  BY <1>1, <1>6
<1> DEFINE r == NewRegion(e)
<1>8. /\ r.first = RoundUp(e.base) /\ r.last = RoundDown(e.base + e.length - 1)
      /\ r.total_blocks = blocks /\ r.bitmap_size = size
  BY DEF NewRegion
<1> HIDE DEF r, blocks, size
<1>9. Covers(r, e, f, z)
  BY <1>2, <1>3, <1>4, <1>6, <1>7, <1>8 DEF Covers
<1> QED
  BY <1>9 DEF r

\* The bitmaps behind those before are not before them.
LEMMA SizesOrdered ==
    ASSUME NEW rs \in Seq(RegionRecord), NEW i \in 1 .. Len(rs) + 1,
           NEW j \in i .. Len(rs) + 1
    PROVE  SizesBefore(rs, i) <= SizesBefore(rs, j)
<1> DEFINE N == Len(rs) + 1 - i
           size(k) == SizesBefore(rs, k)
           T == {k \in 0 .. N : size(i) <= size(i + k)}
<1>1. N \in Nat /\ i \in Nat /\ Len(rs) \in Nat /\ j - i \in 0 .. N /\ i + (j - i) = j /\ i + 0 = i
  OBVIOUS
<1>2. \A k \in 1 .. Len(rs) : rs[k].bitmap_size \in Nat
  <2>1. \A k \in 1 .. Len(rs) : rs[k] \in RegionRecord
    OBVIOUS
  <2> QED BY <2>1 DEF RegionRecord
<1>3. /\ \A k \in 1 .. Len(rs) : size(k + 1) = size(k) + rs[k].bitmap_size
      /\ \A k \in 1 .. Len(rs) + 1 : size(k) \in Nat
  BY SizesBeforeIs
<1> HIDE DEF size
<1>4. 0 \in T
  BY <1>1, <1>3
<1>5. \A k \in 0 .. N : k \in T /\ k < N => k + 1 \in T
  <2> SUFFICES ASSUME NEW k \in 0 .. N, size(i) <= size(i + k), k < N
               PROVE  size(i) <= size(i + (k + 1))
    BY <1>1
  <2>1. i + k \in 1 .. Len(rs) /\ i + k \in 1 .. Len(rs) + 1 /\ i + (k + 1) = (i + k) + 1
    BY <1>1
  <2>2. size((i + k) + 1) = size(i + k) + rs[i + k].bitmap_size /\ rs[i + k].bitmap_size \in Nat
    BY <1>2, <1>3, <2>1
  <2>3. size(i) \in Nat /\ size(i + k) \in Nat
    BY <1>1, <1>3, <2>1
  <2>4. size(i + k) <= size((i + k) + 1) /\ size((i + k) + 1) \in Nat
    BY <2>2, <2>3
  <2>5. size(i) <= size((i + k) + 1)
    BY <2>3, <2>4
  <2> QED BY <2>1, <2>5
<1>6. \A k \in 0 .. N : k \in T
  <2> HIDE DEF T, N
  <2> QED BY <1>1, <1>4, <1>5, UpTo
<1> HIDE DEF N
<1>7. size(i) <= size(i + (j - i))
  BY <1>1, <1>6
<1> QED
  BY <1>1, <1>7 DEF size

\* How the regions are laid out.
LEMMA LaidIs ==
    ASSUME NEW mem \in Seq(MemoryEntry), NEW kernel \in [start : Nat, end : Nat]
    PROVE  LET used == OfType(mem, Pool)
               laid == Laid(mem, kernel)
           IN  /\ laid \in Seq(RegionRecord) /\ Len(laid) = Len(used)
               /\ Len(laid) = Len(Regions(mem)) /\ used \in Seq(MemoryEntry)
               /\ \A i \in 1 .. Len(laid) :
                     /\ \E f, z : Covers(laid[i], used[i], f, z)
                     /\ laid[i].bitmap = RoundUp(kernel.end) + SizesBefore(Regions(mem), i)
                     /\ laid[i].bitmap_size = Regions(mem)[i].bitmap_size
                     /\ laid[i].bits = {} /\ laid[i].reserved_blocks = 0
<1> DEFINE used == OfType(mem, Pool)
           rs == Regions(mem)
           laid == Laid(mem, kernel)
           start == RoundUp(kernel.end)
<1>1. used \in Seq(MemoryEntry)
  BY OfTypeIs
<1>2. rs \in Seq(RegionRecord)
  BY RegionsTyped
<1>3. rs = [i \in DOMAIN used |-> NewRegion(used[i])]
  BY DEF Regions
<1>4. start \in Int
  BY Rounded
<1>5. laid = Placed(rs, start)
  BY DEF Laid
<1> HIDE DEF used, rs, start, laid
<1>6. Len(rs) = Len(used) /\ DOMAIN used = 1 .. Len(used) /\ Len(used) \in Nat
  BY <1>1, <1>2, <1>3
<1>7. laid \in Seq(RegionRecord) /\ Len(laid) = Len(rs)
  BY <1>2, <1>4, <1>5, PlacedTyped
<1>8. ASSUME NEW i \in 1 .. Len(laid)
      PROVE  /\ \E f, z : Covers(laid[i], used[i], f, z)
             /\ laid[i].bitmap = start + SizesBefore(rs, i)
             /\ laid[i].bitmap_size = rs[i].bitmap_size
             /\ laid[i].bits = {} /\ laid[i].reserved_blocks = 0
  <2>1. i \in DOMAIN rs /\ i \in DOMAIN used
    BY <1>2, <1>6, <1>7
  <2>2. rs[i] = NewRegion(used[i]) /\ rs[i] \in RegionRecord /\ used[i] \in MemoryEntry
    BY <1>1, <1>2, <1>3, <2>1
  <2>3. laid[i] = [rs[i] EXCEPT !.bitmap = start + SizesBefore(rs, i)]
    BY <1>5, <2>1 DEF Placed
  <2>4. /\ laid[i].first = rs[i].first /\ laid[i].last = rs[i].last
        /\ laid[i].total_blocks = rs[i].total_blocks
        /\ laid[i].bitmap_size = rs[i].bitmap_size /\ laid[i].bits = rs[i].bits
        /\ laid[i].reserved_blocks = rs[i].reserved_blocks
        /\ laid[i].bitmap = start + SizesBefore(rs, i)
    BY <2>2, <2>3 DEF RegionRecord
  <2>5. rs[i].bits = {} /\ rs[i].reserved_blocks = 0
    BY <2>2 DEF NewRegion
  <2>6. PICK f, z : Covers(rs[i], used[i], f, z)
    BY <2>2, RegionIs
  <2>7. Covers(laid[i], used[i], f, z)
    BY <2>4, <2>6 DEF Covers
  <2> QED BY <2>4, <2>5, <2>7
<1> QED
  BY <1>1, <1>6, <1>7, <1>8 DEF used, rs, start, laid

LEMMA LaidTyped ==
    ASSUME NEW mem \in Seq(MemoryEntry), NEW kernel \in [start : Nat, end : Nat]
    PROVE  /\ Laid(mem, kernel) \in Seq(RegionRecord) /\ Len(Laid(mem, kernel)) \in Nat
           /\ \A i \in 1 .. Len(Laid(mem, kernel)) :
                 Laid(mem, kernel)[i].bits = {} /\ Laid(mem, kernel)[i].reserved_blocks = 0
<1> DEFINE laid == Laid(mem, kernel)
<1>1. /\ laid \in Seq(RegionRecord)
      /\ \A i \in 1 .. Len(laid) : laid[i].bits = {} /\ laid[i].reserved_blocks = 0
  BY LaidIs
<1> HIDE DEF laid
<1>2. Len(laid) \in Nat
  BY <1>1
<1> QED
  BY <1>1, <1>2 DEF laid

\* The bitmaps are placed behind the kernel, or nowhere.
LEMMA StartIs ==
    ASSUME NEW mem \in Seq(MemoryEntry), NEW kernel \in [start : Nat, end : Nat],
           kernel.start = KERNEL_PHYSICAL_BASE, NEW size \in Nat
    PROVE  StartAvailableMemory(mem, kernel, size) \in {NoRoom, Null, RoundUp(kernel.end)}
<1>1. ASSUME NEW m \in MemoryEntry, m.base >= 1048576
      PROVE  kernel.start <= m.base + m.length /\ ~(RoundUp(m.base + size - 1) < kernel.start)
  <2>1. m.base \in Nat /\ m.length \in Nat /\ kernel.start = 1048576
    BY DEF MemoryEntry, KERNEL_PHYSICAL_BASE
  <2>2. m.base + size - 1 \in Nat /\ m.base + size - 1 > 1048574
    BY <1>1, <2>1
  <2>3. PICK u \in Nat : RoundUp(m.base + size - 1) = 4096 * u /\ m.base + size - 1 <= 4096 * u
    BY <2>2, RoundUpIs
  <2>4. 4096 * u > 1048574
    BY <2>2, <2>3
  <2>5. u >= 256
    BY <2>4
  <2>6. ~(RoundUp(m.base + size - 1) < kernel.start)
    BY <2>1, <2>3, <2>5
  <2> QED BY <1>1, <2>1, <2>6
<1>2. ASSUME NEW m \in MemoryEntry
      PROVE  RoomIn(m, kernel, size) \in {NoRoom, RoundUp(kernel.end)}
  <2>1. CASE ~InPool(m) \/ m.base < 1048576 \/ m.length < size
    BY <2>1 DEF RoomIn
  <2>2. CASE ~(~InPool(m) \/ m.base < 1048576 \/ m.length < size)
    <3>1. m.base >= 1048576
      BY <2>2 DEF MemoryEntry
    <3>2. kernel.start <= m.base + m.length /\ ~(RoundUp(m.base + size - 1) < kernel.start)
      BY <1>1, <3>1
    <3> QED BY <2>2, <3>2 DEF RoomIn
  <2> QED BY <2>1, <2>2
<1> DEFINE fits == {i \in DOMAIN mem : RoomIn(mem[i], kernel, size) # NoRoom}
<1>3. CASE mem = <<>>
  BY <1>3 DEF StartAvailableMemory
<1>4. CASE mem # <<>> /\ fits = {}
  BY <1>4 DEF StartAvailableMemory
<1>5. CASE mem # <<>> /\ fits # {}
  <2>1. fits \subseteq DOMAIN mem /\ fits \subseteq Nat
    OBVIOUS
  <2> HIDE DEF fits
  <2>2. Min(fits) \in DOMAIN mem
    BY <1>5, <2>1, MinIs
  <2>3. StartAvailableMemory(mem, kernel, size) = RoomIn(mem[Min(fits)], kernel, size)
    BY <1>5 DEF StartAvailableMemory, fits
  <2> QED BY <1>2, <2>2, <2>3
<1> QED
  BY <1>3, <1>4, <1>5

-----------------------------------------------------------------------------
(* Requests *)

\* What is in a sequence, and in one behind the other.
LEMMA InBoth ==
    ASSUME NEW S, NEW s \in Seq(S), NEW t \in Seq(S)
    PROVE  s \o t \in Seq(S) /\ ToSet(s \o t) = ToSet(s) \union ToSet(t)
<1>1. /\ s \o t \in Seq(S) /\ Len(s \o t) = Len(s) + Len(t)
      /\ Len(s) \in Nat /\ Len(t) \in Nat
      /\ DOMAIN s = 1 .. Len(s) /\ DOMAIN t = 1 .. Len(t)
      /\ DOMAIN (s \o t) = 1 .. Len(s) + Len(t)
  OBVIOUS
<1>2. /\ \A i \in 1 .. Len(s) : (s \o t)[i] = s[i]
      /\ \A i \in 1 .. Len(t) : (s \o t)[Len(s) + i] = t[i]
  OBVIOUS
<1> DEFINE st == s \o t
<1> HIDE DEF st
<1>3. ASSUME NEW x \in ToSet(st) PROVE x \in ToSet(s) \union ToSet(t)
  <2>1. PICK i \in 1 .. Len(s) + Len(t) : x = st[i]
    BY <1>1, <1>3 DEF ToSet, st
  <2>2. CASE i \in 1 .. Len(s)
    BY <1>1, <1>2, <2>1, <2>2 DEF ToSet, st
  <2>3. CASE i \notin 1 .. Len(s)
    <3>1. i - Len(s) \in 1 .. Len(t) /\ Len(s) + (i - Len(s)) = i
      BY <1>1, <2>3
    <3>2. x = t[i - Len(s)]
      BY <1>2, <2>1, <3>1 DEF st
    <3> QED BY <1>1, <3>1, <3>2 DEF ToSet
  <2> QED BY <2>2, <2>3
<1>4. ASSUME NEW x \in ToSet(s) PROVE x \in ToSet(st)
  <2>1. PICK i \in 1 .. Len(s) : x = s[i]
    BY <1>1, <1>4 DEF ToSet
  <2>2. i \in 1 .. Len(s) + Len(t) /\ x = st[i]
    BY <1>1, <1>2, <2>1 DEF st
  <2> QED BY <1>1, <2>2 DEF ToSet, st
<1>5. ASSUME NEW x \in ToSet(t) PROVE x \in ToSet(st)
  <2>1. PICK i \in 1 .. Len(t) : x = t[i]
    BY <1>1, <1>5 DEF ToSet
  <2>2. Len(s) + i \in 1 .. Len(s) + Len(t) /\ x = st[Len(s) + i]
    BY <1>1, <1>2, <2>1 DEF st
  <2> QED BY <1>1, <2>2 DEF ToSet, st
<1> QED
  BY <1>1, <1>3, <1>4, <1>5 DEF st

\* Every entry of the map of these types is found, and no other.
LEMMA OfTypeRange ==
    ASSUME NEW mem \in Seq(MemoryEntry), NEW types
    PROVE  ToSet(OfType(mem, types)) = {e \in ToSet(mem) : e.type \in types}
<1> DEFINE N == Len(mem)
           D == Seq(MemoryEntry)
           next(s, n) == IF mem[n].type \in types THEN Append(s, mem[n]) ELSE s
           First(n) == {mem[i] : i \in {i \in 1 .. n : mem[i].type \in types}}
<1>1. N \in Nat /\ <<>> \in D
  OBVIOUS
<1>2. PICK g : /\ g[0] = <<>> /\ \A n \in 1 .. N : g[n] = next(g[n - 1], n)
               /\ OfType(mem, types) = g[N]
  BY OfTypeFrom
<1> DEFINE S == {n \in 0 .. N : g[n] \in D /\ ToSet(g[n]) = First(n)}
<1>3. 0 \in S
  <2>1. 0 \in 0 .. N /\ First(0) = {} /\ ToSet(<<>>) = {}
    BY <1>1 DEF ToSet
  <2> HIDE DEF First
  <2> QED BY <1>1, <1>2, <2>1
<1>4. \A n \in 0 .. N : n \in S /\ n < N => n + 1 \in S
  <2> SUFFICES ASSUME NEW n \in 0 .. N, n < N, g[n] \in D, ToSet(g[n]) = First(n)
               PROVE  g[n + 1] \in D /\ ToSet(g[n + 1]) = First(n + 1)
    <3>1. \A n \in 0 .. N : n < N => n + 1 \in 0 .. N
      BY <1>1
    <3> HIDE DEF First, D, N
    <3> QED BY <3>1
  <2>1. n + 1 \in 1 .. N /\ (n + 1) - 1 = n /\ mem[n + 1] \in MemoryEntry
        /\ 1 .. n + 1 = (1 .. n) \union {n + 1}
    BY <1>1
  <2>2. g[n + 1] = next(g[n], n + 1)
    BY <1>2, <2>1
  <2>3. CASE mem[n + 1].type \in types
    <3>1. g[n + 1] = g[n] \o <<mem[n + 1]>> /\ <<mem[n + 1]>> \in D
      <4> DEFINE s == g[n]
                 e == mem[n + 1]
      <4>1. s \in Seq(MemoryEntry) /\ e \in MemoryEntry /\ g[n + 1] = Append(s, e)
        BY <2>1, <2>2, <2>3
      <4> HIDE DEF s, e
      <4>2. Append(s, e) = s \o <<e>> /\ <<e>> \in Seq(MemoryEntry)
        BY <4>1, AppendIsConcat, OneInSeq
      <4> QED BY <4>1, <4>2 DEF s, e
    <3>2. ToSet(<<mem[n + 1]>>) = {mem[n + 1]}
      BY DEF ToSet
    <3>3. First(n + 1) = First(n) \union {mem[n + 1]}
      BY <2>1, <2>3
    <3>4. ToSet(g[n] \o <<mem[n + 1]>>) = ToSet(g[n]) \union ToSet(<<mem[n + 1]>>)
      <4> DEFINE x == g[n]
                 y == <<mem[n + 1]>>
      <4>1. x \in Seq(MemoryEntry) /\ y \in Seq(MemoryEntry)
        BY <3>1
      <4> HIDE DEF x, y
      <4>2. ToSet(x \o y) = ToSet(x) \union ToSet(y)
        BY <4>1, InBoth
      <4> QED BY <4>2 DEF x, y
    <3>5. g[n] \o <<mem[n + 1]>> \in D
      BY <3>1, InBoth
    <3> HIDE DEF First, next, D
    <3> QED BY <3>1, <3>2, <3>3, <3>4, <3>5
  <2>4. CASE mem[n + 1].type \notin types
    <3>1. First(n + 1) = First(n)
      BY <2>1, <2>4
    <3> QED BY <2>2, <2>4, <3>1
  <2> QED BY <2>3, <2>4
<1>5. N \in S
  <2> HIDE DEF N, S
  <2>1. \A n \in 0 .. N : n \in S
    BY <1>1, <1>3, <1>4, UpTo
  <2> QED BY <1>1, <2>1
<1>6. First(N) = {e \in ToSet(mem) : e.type \in types}
  BY DEF ToSet
<1> QED
  BY <1>2, <1>5, <1>6

\* What is asked to be reserved.
Wanted(mem, kernel, smp, rs) ==
    {Reserved(0, 1023), Reserved(1024, 255), Reserved(524288, 131071),
     Reserved(kernel.start, kernel.end - kernel.start)}
    \union (IF smp THEN {Reserved(4096, 8192)} ELSE {})
    \union {Reserved(rs[i].bitmap, rs[i].bitmap_size) : i \in 1 .. Len(rs)}
    \union {Reserved(e.base, e.length) : e \in {e \in ToSet(mem) : e.type = "reclaimable"}}

\* The elements of four.
LEMMA FourElements ==
    ASSUME NEW t
    PROVE  {t[i] : i \in {1, 2, 3, 4}} = {t[1], t[2], t[3], t[4]}
BY Zenon

LEMMA WantedIs ==
    ASSUME NEW mem \in Seq(MemoryEntry), NEW kernel \in [start : Nat, end : Nat],
           NEW smp \in BOOLEAN, NEW rs \in Seq(RegionRecord)
    PROVE  ToSet(ToReserve(mem, kernel, smp, rs)) = Wanted(mem, kernel, smp, rs)
<1> DEFINE a == <<Reserved(0, 1023), Reserved(1024, 255), Reserved(524288, 131071),
                  Reserved(kernel.start, kernel.end - kernel.start)>>
           b == IF smp THEN <<Reserved(4096, 8192)>> ELSE <<>>
           c == [i \in DOMAIN rs |-> Reserved(rs[i].bitmap, rs[i].bitmap_size)]
           u == OfType(mem, {"reclaimable"})
           d == [i \in DOMAIN u |-> Reserved(u[i].base, u[i].length)]
<1>1. \A x, y \in Int : Reserved(x, y) \in Request
  BY DEF Reserved, Request
<1>2. /\ a \in Seq(Request)
      /\ ToSet(a) = {Reserved(0, 1023), Reserved(1024, 255), Reserved(524288, 131071),
                     Reserved(kernel.start, kernel.end - kernel.start)}
  <2> DEFINE r1 == Reserved(0, 1023)
             r2 == Reserved(1024, 255)
             r3 == Reserved(524288, 131071)
             r4 == Reserved(kernel.start, kernel.end - kernel.start)
  <2>0. kernel.start \in Int /\ kernel.end - kernel.start \in Int
    OBVIOUS
  <2>1. r1 \in Request /\ r2 \in Request /\ r3 \in Request /\ r4 \in Request
    BY <1>1, <2>0, SMT
  <2> HIDE DEF r1, r2, r3, r4
  <2>2. <<r1, r2, r3, r4>> \in Seq(Request)
    BY <2>1
  <2>3. DOMAIN <<r1, r2, r3, r4>> = {1, 2, 3, 4}
    OBVIOUS
  <2>4. ToSet(<<r1, r2, r3, r4>>) = {r1, r2, r3, r4}
    <3> DEFINE t == <<r1, r2, r3, r4>>
    <3>1. t[1] = r1 /\ t[2] = r2 /\ t[3] = r3 /\ t[4] = r4
      OBVIOUS
    <3>2. DOMAIN t = {1, 2, 3, 4}
      BY <2>3
    <3> HIDE DEF t
    <3>3. ToSet(t) = {t[i] : i \in {1, 2, 3, 4}}
      BY <3>2 DEF ToSet
    <3>4. {t[i] : i \in {1, 2, 3, 4}} = {t[1], t[2], t[3], t[4]}
      BY FourElements
    <3> QED BY <3>1, <3>3, <3>4 DEF t
  <2> DEFINE t == <<r1, r2, r3, r4>>
             S == {r1, r2, r3, r4}
  <2>5. a = t
    BY DEF r1, r2, r3, r4
  <2>6. S = {Reserved(0, 1023), Reserved(1024, 255), Reserved(524288, 131071),
             Reserved(kernel.start, kernel.end - kernel.start)}
    BY SMT DEF r1, r2, r3, r4
  <2> HIDE DEF a, t, S
  <2>7. a \in Seq(Request) /\ ToSet(a) = S
    BY <2>2, <2>4, <2>5 DEF t, S
  <2> QED BY <2>6, <2>7, SMT
<1>3. b \in Seq(Request) /\ ToSet(b) = IF smp THEN {Reserved(4096, 8192)} ELSE {}
  <2> DEFINE r5 == Reserved(4096, 8192)
  <2>1. r5 \in Request
    BY <1>1
  <2> HIDE DEF r5
  <2>2. /\ <<r5>> \in Seq(Request) /\ <<>> \in Seq(Request)
        /\ ToSet(<<r5>>) = {r5} /\ ToSet(<<>>) = {}
    BY <2>1 DEF ToSet
  <2>3. CASE smp
    BY <2>2, <2>3 DEF r5
  <2>4. CASE ~smp
    BY <2>2, <2>4
  <2> QED BY <2>3, <2>4
<1>4. /\ c \in Seq(Request)
      /\ ToSet(c) = {Reserved(rs[i].bitmap, rs[i].bitmap_size) : i \in 1 .. Len(rs)}
  <2>1. \A i \in DOMAIN rs : rs[i].bitmap \in Int /\ rs[i].bitmap_size \in Int
    <3>1. \A i \in DOMAIN rs : rs[i] \in RegionRecord
      OBVIOUS
    <3>2. \A r \in RegionRecord : r.bitmap \in Int /\ r.bitmap_size \in Int
      BY DEF RegionRecord
    <3> QED BY <3>1, <3>2
  <2>2. \A i \in DOMAIN rs : Reserved(rs[i].bitmap, rs[i].bitmap_size) \in Request
    BY <1>1, <2>1
  <2>3. DOMAIN rs = 1 .. Len(rs) /\ Len(rs) \in Nat
    OBVIOUS
  <2> QED BY <2>2, <2>3 DEF ToSet
<1>5. /\ d \in Seq(Request)
      /\ ToSet(d) = {Reserved(e.base, e.length) : e \in {e \in ToSet(mem) : e.type = "reclaimable"}}
  <2>1. u \in Seq(MemoryEntry) /\ ToSet(u) = {e \in ToSet(mem) : e.type \in {"reclaimable"}}
    BY OfTypeIs, OfTypeRange
  <2> HIDE DEF u
  <2>2. \A i \in DOMAIN u : u[i].base \in Int /\ u[i].length \in Int
    <3>1. \A i \in DOMAIN u : u[i] \in MemoryEntry
      BY <2>1
    <3>2. \A e \in MemoryEntry : e.base \in Int /\ e.length \in Int
      BY DEF MemoryEntry
    <3> QED BY <3>1, <3>2
  <2>3. \A i \in DOMAIN u : Reserved(u[i].base, u[i].length) \in Request
    BY <1>1, <2>2
  <2>4. DOMAIN u = 1 .. Len(u) /\ Len(u) \in Nat
    BY <2>1
  <2>5. d \in Seq(Request)
    BY <2>3, <2>4
  <2>6. ToSet(d) = {Reserved(e.base, e.length) : e \in ToSet(u)}
    BY DEF ToSet
  <2> QED BY <2>1, <2>5, <2>6
<1>6. ToReserve(mem, kernel, smp, rs) = a \o b \o c \o d
  BY SMT DEF ToReserve, FixedMemory, Reclaimable
<1> HIDE DEF a, b, c, d, u
<1>7. a \o b \in Seq(Request) /\ ToSet(a \o b) = ToSet(a) \union ToSet(b)
  <2>1. a \in Seq(Request) /\ b \in Seq(Request)
    BY <1>2, <1>3, SMT
  <2> QED BY <2>1, InBoth
<1> DEFINE ab == a \o b
<1> HIDE DEF ab
<1>8. ab \o c \in Seq(Request) /\ ToSet(ab \o c) = ToSet(ab) \union ToSet(c)
  <2>1. ab \in Seq(Request)
    BY <1>7 DEF ab
  <2> QED BY <1>4, <2>1, InBoth
<1> DEFINE abc == ab \o c
<1> HIDE DEF abc
<1>9. ToSet(abc \o d) = ToSet(abc) \union ToSet(d)
  <2>1. abc \in Seq(Request)
    BY <1>8 DEF abc
  <2> QED BY <1>5, <2>1, InBoth
<1>10. ToSet(abc \o d) = ToSet(a) \union ToSet(b) \union ToSet(c) \union ToSet(d)
  BY <1>7, <1>8, <1>9 DEF ab, abc
<1>11. ToReserve(mem, kernel, smp, rs) = abc \o d
  BY <1>6 DEF ab, abc
<1> DEFINE A == {Reserved(0, 1023), Reserved(1024, 255), Reserved(524288, 131071),
                 Reserved(kernel.start, kernel.end - kernel.start)}
           B == IF smp THEN {Reserved(4096, 8192)} ELSE {}
           C == {Reserved(rs[i].bitmap, rs[i].bitmap_size) : i \in 1 .. Len(rs)}
           E == {Reserved(e.base, e.length) : e \in {e \in ToSet(mem) : e.type = "reclaimable"}}
<1>12. Wanted(mem, kernel, smp, rs) = A \union B \union C \union E
  BY SMT DEF Wanted
<1>13. ToSet(a) = A /\ ToSet(b) = B /\ ToSet(c) = C /\ ToSet(d) = E
  BY <1>2, <1>3, <1>4, <1>5, SMT
<1> HIDE DEF A, B, C, E
<1> QED
  BY <1>10, <1>11, <1>12, <1>13

\* Reserving changes neither where the bitmaps are nor what is asked to be
\* reserved.
LEMMA SameRequests ==
    ASSUME NEW mem, NEW kernel, NEW smp, NEW rs \in Seq(RegionRecord),
           NEW laid \in Seq(RegionRecord), Len(rs) = Len(laid),
           \A i \in 1 .. Len(laid) : rs[i].bitmap = laid[i].bitmap
                                     /\ rs[i].bitmap_size = laid[i].bitmap_size
    PROVE  ToReserve(mem, kernel, smp, rs) = ToReserve(mem, kernel, smp, laid)
<1>1. DOMAIN rs = 1 .. Len(laid) /\ DOMAIN laid = 1 .. Len(laid)
  OBVIOUS
<1>2. [i \in DOMAIN rs |-> Reserved(rs[i].bitmap, rs[i].bitmap_size)]
      = [i \in DOMAIN laid |-> Reserved(laid[i].bitmap, laid[i].bitmap_size)]
  BY <1>1
<1> QED
  BY <1>2 DEF ToReserve

LEMMA SameHome ==
    ASSUME NEW rs, NEW laid, Len(rs) = Len(laid), Len(laid) \in Nat,
           \A i \in 1 .. Len(laid) : rs[i].last = laid[i].last, NEW address
    PROVE  addr_to_bitmap(rs, address) = addr_to_bitmap(laid, address)
<1> DEFINE T(s) == {i \in 1 .. Len(s) : address <= s[i].last}
<1>1. \A s : addr_to_bitmap(s, address) = IF T(s) # {} THEN Min(T(s)) ELSE 0
  BY DEF addr_to_bitmap, SelectInSeq
<1>2. T(rs) = T(laid)
  OBVIOUS
<1> HIDE DEF T
<1> QED
  BY <1>1, <1>2

\* The region of an address is the first one that does not end before it.
LEMMA HomeIs ==
    ASSUME NEW laid, Len(laid) \in Nat, NEW a \in Int, NEW k \in 1 .. Len(laid),
           \A i \in 1 .. Len(laid) : laid[i].last \in Int,
           \A j \in 1 .. Len(laid) : j < k => laid[j].last < a,
           a <= laid[k].last
    PROVE  addr_to_bitmap(laid, a) = k
<1> DEFINE T == {i \in 1 .. Len(laid) : a <= laid[i].last}
<1>1. addr_to_bitmap(laid, a) = IF T # {} THEN Min(T) ELSE 0
  BY DEF addr_to_bitmap, SelectInSeq
<1>2. T \subseteq Nat /\ k \in T /\ \A i \in T : i \in Nat /\ ~(i < k)
  OBVIOUS
<1> HIDE DEF T
<1> DEFINE n == Min(T)
<1>3. n \in T /\ n <= k
  BY <1>2, MinIs
<1>4. addr_to_bitmap(laid, a) = n
  BY <1>1, <1>2
<1> HIDE DEF n
<1>5. n = k
  BY <1>2, <1>3
<1> QED
  BY <1>4, <1>5

\* Bits that are set already are not counted twice.
LEMMA CountedOnce ==
    ASSUME NEW B, NEW T, IsFiniteSet(B), IsFiniteSet(T)
    PROVE  /\ IsFiniteSet(B \union T)
           /\ Cardinality(B \union T) = Cardinality(B) + Cardinality(T \ B)
<1> DEFINE R == T \ B
<1>1. R \in SUBSET T /\ B \union T = B \union R /\ B \intersect R = {}
  OBVIOUS
<1> HIDE DEF R
<1>2. IsFiniteSet(R)
  BY <1>1, FS_Subset
<1>3. /\ IsFiniteSet(B \union R)
      /\ Cardinality(B \union R) = Cardinality(B) + Cardinality(R) - Cardinality(B \intersect R)
  BY <1>2, FS_Union
<1>4. Cardinality(B \intersect R) = 0
  BY <1>1, FS_EmptySet
<1>5. Cardinality(B) \in Nat /\ Cardinality(R) \in Nat
  BY <1>2, FS_CardinalityType
<1>6. Cardinality(B \union R) = Cardinality(B) + Cardinality(R)
  BY <1>3, <1>4, <1>5
<1>7. IsFiniteSet(B \union T) /\ Cardinality(B \union T) = Cardinality(B) + Cardinality(R)
  BY <1>1, <1>3, <1>6
<1> QED
  BY <1>7 DEF R

\* One request more.
LEMMA DoneNext ==
    ASSUME NEW laid \in Seq(RegionRecord), NEW rs \in Seq(RegionRecord),
           NEW wanted \in Seq(Request), NEW n \in Nat, n + 1 \in 1 .. Len(wanted),
           Done(rs, laid, wanted, n), addr_to_bitmap(rs, wanted[n + 1].start) # 0
    PROVE  Done(reserve_region(rs, wanted[n + 1].start, wanted[n + 1].size), laid, wanted, n + 1)
<1> DEFINE q == wanted[n + 1]
           i == Home(laid, q)
           bits == BitsOf(laid, q)
           new == CountNew(rs[i], bits)
           after == reserve_region(rs, q.start, q.size)
<1>1. /\ q \in Request /\ q.start \in Int /\ q.size \in Int
      /\ Len(laid) \in Nat /\ Len(rs) = Len(laid) /\ Len(rs) \in Nat
      /\ DOMAIN rs = 1 .. Len(laid)
  <2>1. q \in Request
    OBVIOUS
  <2>2. Len(rs) = Len(laid)
    BY DEF Done
  <2> QED BY <2>1, <2>2 DEF Request
<1>2. \A k \in 1 .. Len(laid) : SameRegion(rs[k], laid[k])
  BY DEF Done
<1>3. addr_to_bitmap(rs, q.start) = i
  <2>1. \A k \in 1 .. Len(laid) : rs[k].last = laid[k].last
    BY <1>2 DEF SameRegion
  <2> HIDE DEF q
  <2> QED BY <1>1, <2>1, SameHome DEF Home
<1>4. i \in 1 .. Len(laid)
  <2>1. addr_to_bitmap(laid, q.start) # 0
    BY <1>3 DEF Home
  <2> HIDE DEF q
  <2> QED BY <1>1, <2>1, RegionFound DEF Home
<1>5. rs[i] \in RegionRecord /\ SameRegion(rs[i], laid[i])
  <2> HIDE DEF i
  <2> QED BY <1>1, <1>2, <1>4
<1>6. IsFiniteSet(bits) /\ bits \subseteq Int
  <2>1. laid[i].first \in Int
    <3> HIDE DEF i
    <3>1. laid[i] \in RegionRecord
      BY <1>4
    <3> QED BY <3>1 DEF RegionRecord
  <2>2. BitOf(laid[i], q.start) \in Int
    <3> HIDE DEF i, q
    <3> QED BY <1>1, <2>1 DEF BitOf, BLOCK_SIZE, PAGE_SIZE
  <2>3. Blocks(q) \in Int
    <3> HIDE DEF q
    <3> QED BY <1>1 DEF Blocks, BLOCK_SIZE, PAGE_SIZE
  <2> DEFINE bit == BitOf(laid[i], q.start)
             m == bit + Blocks(q) - 1
  <2>4. bits = bit .. m
    BY DEF BitsOf
  <2>5. m \in Int
    <3>1. \A x, y \in Int : x + y - 1 \in Int
      OBVIOUS
    <3> QED BY <2>2, <2>3, <3>1
  <2> HIDE DEF bits, bit, m
  <2>6. bit \in Int
    BY <2>2 DEF bit
  <2> QED BY <2>4, <2>5, <2>6, FS_Interval
<1>7. after = [rs EXCEPT ![i] = new]
  <2>1. BitOf(rs[i], q.start) = BitOf(laid[i], q.start)
    <3> HIDE DEF i, q
    <3> QED BY <1>5 DEF SameRegion, BitOf
  <2>2. bits = BitOf(rs[i], q.start) .. BitOf(rs[i], q.start) + Blocks(q) - 1
    BY <2>1 DEF BitsOf
  <2> QED BY <1>3, <2>2 DEF reserve_region, Blocks
<1> HIDE DEF bits, i, q
<1>8. /\ new.first = rs[i].first /\ new.last = rs[i].last
      /\ new.total_blocks = rs[i].total_blocks
      /\ new.bitmap = rs[i].bitmap /\ new.bitmap_size = rs[i].bitmap_size
      /\ new.bits = rs[i].bits \union bits
      /\ new.reserved_blocks = rs[i].reserved_blocks + Cardinality(bits \ rs[i].bits)
  BY <1>5 DEF CountNew, RegionRecord
<1>9. SameRegion(new, laid[i])
  <2>1. IsFiniteSet(rs[i].bits) /\ rs[i].reserved_blocks = Cardinality(rs[i].bits)
    BY <1>5 DEF SameRegion
  <2> HIDE DEF new
  <2>2. /\ IsFiniteSet(new.bits) /\ new.reserved_blocks = Cardinality(new.bits)
    BY <1>6, <1>8, <2>1, CountedOnce
  <2> QED BY <1>5, <1>8, <2>2 DEF SameRegion
<1> HIDE DEF new
<1>10. /\ Len(after) = Len(laid) /\ after[i] = new
       /\ \A k \in 1 .. Len(laid) : k # i => after[k] = rs[k]
  BY <1>1, <1>4, <1>7
<1> HIDE DEF after
<1>11. \A k \in 1 .. Len(laid) : SameRegion(after[k], laid[k])
  BY <1>2, <1>9, <1>10
<1>12. \A k \in 1 .. Len(laid) : rs[k].bits \subseteq after[k].bits
  BY <1>8, <1>10
<1>13. ASSUME NEW k \in 1 .. n + 1
       PROVE  /\ Home(laid, wanted[k]) # 0
              /\ BitsOf(laid, wanted[k]) \subseteq after[Home(laid, wanted[k])].bits
  <2>1. CASE k = n + 1
    <3>1. bits \subseteq after[i].bits /\ i # 0
      BY <1>4, <1>8, <1>10
    <3>2. wanted[k] = q /\ Home(laid, q) = i /\ BitsOf(laid, q) = bits
      BY <2>1 DEF q, i, bits
    <3> QED BY <3>1, <3>2
  <2>2. CASE k # n + 1
    <3>1. k \in 1 .. n
      BY <2>2
    <3> DEFINE h == Home(laid, wanted[k])
    <3>2. h # 0 /\ BitsOf(laid, wanted[k]) \subseteq rs[h].bits
      BY <3>1 DEF Done
    <3>3. h \in 1 .. Len(laid)
      BY <1>1, <3>2, RegionFound DEF Home
    <3> HIDE DEF h
    <3>4. BitsOf(laid, wanted[k]) \subseteq after[h].bits
      BY <1>12, <3>2, <3>3
    <3> QED BY <3>2, <3>4 DEF h
  <2> QED BY <2>1, <2>2
<1>14. ASSUME NEW k \in 1 .. Len(laid), NEW b \in after[k].bits
       PROVE  \E l \in 1 .. n + 1 : Home(laid, wanted[l]) = k /\ b \in BitsOf(laid, wanted[l])
  <2>1. CASE b \in rs[k].bits
    <3>1. PICK l \in 1 .. n : Home(laid, wanted[l]) = k /\ b \in BitsOf(laid, wanted[l])
      BY <2>1 DEF Done
    <3>2. l \in 1 .. n + 1
      OBVIOUS
    <3> QED BY <3>1, <3>2
  <2>2. CASE b \notin rs[k].bits
    <3>1. k = i /\ b \in bits
      BY <1>8, <1>10, <1>14, <2>2
    <3>2. n + 1 \in 1 .. n + 1
      OBVIOUS
    <3>3. Home(laid, wanted[n + 1]) = k /\ b \in BitsOf(laid, wanted[n + 1])
      BY <3>1 DEF q, i, bits
    <3> QED BY <3>2, <3>3
  <2> QED BY <2>1, <2>2
<1>15. Done(after, laid, wanted, n + 1)
  BY <1>10, <1>11, <1>13, <1>14 DEF Done
<1> QED
  BY <1>15 DEF after, q

-----------------------------------------------------------------------------
(* The inductive invariant *)

Reserves == {"reserve", "kernel_main", "running"}

\* The map stays what parse_memory_map made of it, and the regions are those
\* of the map.
MapKept ==
    /\ stage \in {"smp_init", "gdt_init", "pmm_init", "bitmaps"} \union Reserves =>
          memory = parse_memory_map(machine.map)
    /\ stage = "bitmaps" => regions = Regions(memory)

\* The requests before the current one have been reserved, and nothing else.
Marked ==
    LET laid == Laid(memory, machine.kernel)
        wanted == ToReserve(memory, machine.kernel, cpus.smp, laid)
    IN  /\ stage \in Reserves => at \in 1 .. Len(wanted) + 1 /\ Done(regions, laid, wanted, at - 1)
        /\ Ready => at = Len(wanted) + 1

MInv == MapKept /\ Marked

LEMMA InitMInv == ASSUME Init PROVE MInv
BY DEF Init, MInv, MapKept, Marked, Reserves, Ready

\* Before the memory is looked at, and in a panic, there is nothing to show.
LEMMA OutsideStep ==
    ASSUME stage' \notin {"smp_init", "gdt_init", "pmm_init", "bitmaps"} \union Reserves
    PROVE  MInv'
BY DEF MInv, MapKept, Marked, Reserves, Ready

LEMMA EarlyStep ==
    ASSUME IInv,
           NoMemory \/ BootInfo \/ ParseCmdline \/ BootConsoleInit \/ ConsoleFailed
           \/ CheckCpu \/ CheckMagic
    PROVE  MInv'
<1> DEFINE Out == {"panic", "parse_cmdline", "boot_console_init", "console failed",
                   "check_cpu", "magic", "parse_memory_map"}
<1>1. ASSUME NEW from, Panic(from) PROVE stage' \in Out
  BY <1>1 DEF Panic
<1>2. stage' \in Out
  <2>1. CASE NoMemory
    BY <1>1, <2>1 DEF NoMemory
  <2>2. CASE BootInfo
    BY <2>2 DEF BootInfo, Goto
  <2>3. CASE ParseCmdline
    BY <1>1, <2>3 DEF ParseCmdline, Goto
  <2>4. CASE BootConsoleInit
    BY <2>4 DEF BootConsoleInit, Goto
  <2>5. CASE ConsoleFailed
    BY <1>1, <2>5 DEF ConsoleFailed
  <2>6. CASE CheckCpu
    BY <1>1, <2>6 DEF CheckCpu, Goto
  <2>7. CASE CheckMagic
    BY <1>1, <2>7 DEF CheckMagic, Goto
  <2> QED BY <2>1, <2>2, <2>3, <2>4, <2>5, <2>6, <2>7
<1> QED
  BY <1>2, OutsideStep DEF Reserves

\* The map is copied and left alone.
LEMMA MapStep ==
    ASSUME IInv, MInv, ParseMemoryMap \/ SmpInit \/ Tables
    PROVE  MInv'
<1>1. CASE ParseMemoryMap
  <2>1. /\ stage' \in {"corrupt", "smp_init"} /\ machine' = machine
        /\ memory' = parse_memory_map(machine.map)
    BY <1>1 DEF ParseMemoryMap, Goto
  <2> QED BY <2>1 DEF MInv, MapKept, Marked, Reserves, Ready
<1>2. CASE SmpInit
  <2>1. stage = "smp_init" /\ stage' = "gdt_init" /\ machine' = machine /\ memory' = memory
    BY <1>2 DEF SmpInit, Goto, info
  <2> QED BY <2>1 DEF MInv, MapKept, Marked, Reserves, Ready
<1>3. CASE Tables
  <2>1. stage = "gdt_init" /\ stage' = "pmm_init" /\ machine' = machine /\ memory' = memory
    BY <1>3 DEF Tables, Goto, info
  <2> QED BY <2>1 DEF MInv, MapKept, Marked, Reserves, Ready
<1> QED
  BY <1>1, <1>2, <1>3

LEMMA RegionsStep == ASSUME IInv, MInv, PmmRegions PROVE MInv'
<1>1. CASE memory = <<>> \/ ListHasNoHead(memory)
  <2>1. stage' = "panic"
    BY <1>1 DEF PmmRegions, Panic
  <2> QED BY <2>1, OutsideStep DEF Reserves
<1>2. CASE ~(memory = <<>> \/ ListHasNoHead(memory))
  <2>1. /\ stage = "pmm_init" /\ stage' = "bitmaps" /\ machine' = machine
        /\ memory' = memory /\ regions' = Regions(memory)
    BY <1>2 DEF PmmRegions, Goto, info
  <2> QED BY <2>1 DEF MInv, MapKept, Marked, Reserves, Ready
<1> QED
  BY <1>1, <1>2

LEMMA BitmapsStep == ASSUME IInv, MInv, PmmBitmaps PROVE MInv'
<1> DEFINE start == StartAvailableMemory(memory, machine.kernel, AllBitmapsSize(regions))
           kernel == machine.kernel
<1>1. CASE ~HasRoom(start, regions)
  <2>1. stage' = "panic"
    BY <1>1 DEF PmmBitmaps, Panic
  <2> QED BY <2>1, OutsideStep DEF Reserves
<1>2. CASE HasRoom(start, regions)
  <2>1. /\ stage = "bitmaps" /\ stage' = "reserve" /\ machine' = machine
        /\ at' = 1 /\ cpus' = cpus /\ memory' = memory
        /\ regions' = Placed(regions, start)
    BY <1>2 DEF PmmBitmaps, Goto, info
  <2>2. /\ memory \in Seq(MemoryEntry) /\ machine \in Machines /\ cpus.smp \in BOOLEAN
        /\ regions \in Seq(RegionRecord)
    BY DEF IInv, Typed
  <2>3. kernel \in [start : Nat, end : Nat] /\ kernel.start = KERNEL_PHYSICAL_BASE
    BY <2>2, MachinesAssumption
  <2>4. memory = parse_memory_map(machine.map) /\ regions = Regions(memory)
    BY <2>1 DEF MInv, MapKept
  <2>5. start = RoundUp(kernel.end)
    <3>1. AllBitmapsSize(regions) \in Nat
      BY <2>2, AllSizes
    <3>2. start \in {NoRoom, Null, RoundUp(kernel.end)}
      BY <2>2, <2>3, <3>1, StartIs
    <3> HIDE DEF start
    <3> QED BY <1>2, <3>2 DEF HasRoom
  <2>6. regions' = Laid(memory, kernel)
    BY <2>1, <2>4, <2>5 DEF Laid
  <2> DEFINE laid == Laid(memory, kernel)
             wanted == ToReserve(memory, kernel, cpus.smp, laid)
  <2> HIDE DEF start
  <2>7. /\ laid \in Seq(RegionRecord) /\ Len(laid) \in Nat
        /\ \A i \in 1 .. Len(laid) : laid[i].bits = {} /\ laid[i].reserved_blocks = 0
    <3> HIDE DEF kernel
    <3> QED BY <2>2, <2>3, LaidTyped
  <2>8. Len(wanted) \in Nat
    <3>1. wanted \in Seq(Request)
      <4> HIDE DEF kernel, laid
      <4> QED BY <2>2, <2>3, <2>7, RequestsTyped
    <3> QED BY <3>1
  <2>9. Done(laid, laid, wanted, 0)
    <3> HIDE DEF laid, wanted
    <3>1. IsFiniteSet({}) /\ Cardinality({}) = 0
      BY FS_EmptySet
    <3>2. \A i \in 1 .. Len(laid) : SameRegion(laid[i], laid[i])
      BY <2>7, <3>1 DEF SameRegion
    <3>3. 1 .. 0 = {}
      OBVIOUS
    <3> QED BY <2>7, <3>2, <3>3 DEF Done
  <2>10. MapKept'
    BY <2>1, <2>4 DEF MapKept
  <2>11. 1 \in 1 .. Len(wanted) + 1
    <3> HIDE DEF wanted
    <3> QED BY <2>8
  <2>12. 1 - 1 = 0
    OBVIOUS
  <2>13. Laid(memory', machine'.kernel) = laid
    BY <2>1
  <2>14. ToReserve(memory', machine'.kernel, cpus'.smp, Laid(memory', machine'.kernel)) = wanted
    BY <2>1
  <2> HIDE DEF wanted, laid
  <2>15. Marked'
    BY <2>1, <2>6, <2>9, <2>11, <2>12, <2>13, <2>14 DEF Marked, Ready, laid
  <2> QED BY <2>10, <2>15 DEF MInv
<1> QED
  BY <1>1, <1>2

LEMMA ReserveStep == ASSUME IInv, MInv, PmmReserve PROVE MInv'
<1> DEFINE kernel == machine.kernel
           requests == ToReserve(memory, kernel, cpus.smp, regions)
           laid == Laid(memory, kernel)
           wanted == ToReserve(memory, kernel, cpus.smp, laid)
           q == requests[at]
           last == at = Len(requests)
<1>1. CASE addr_to_bitmap(regions, q.start) = 0
  <2>1. stage' = "panic"
    BY <1>1 DEF PmmReserve, Panic
  <2> QED BY <2>1, OutsideStep DEF Reserves
<1>2. CASE addr_to_bitmap(regions, q.start) # 0
  <2>1. /\ stage = "reserve" /\ stage' = (IF last THEN "kernel_main" ELSE "reserve")
        /\ machine' = machine /\ memory' = memory /\ cpus' = cpus /\ at' = at + 1
        /\ regions' = reserve_region(regions, q.start, q.size)
    BY <1>2 DEF PmmReserve, Goto, info
  <2>2. /\ memory \in Seq(MemoryEntry) /\ machine \in Machines /\ cpus.smp \in BOOLEAN
        /\ regions \in Seq(RegionRecord) /\ at \in Nat
    BY DEF IInv, Typed
  <2>3. kernel \in [start : Nat, end : Nat]
    BY <2>2, Machine
  <2>4. laid \in Seq(RegionRecord) /\ Len(laid) \in Nat
    <3> HIDE DEF kernel
    <3> QED BY <2>2, <2>3, LaidTyped
  <2>5. Done(regions, laid, wanted, at - 1)
    BY <2>1 DEF MInv, Marked, Reserves
  <2>6. memory = parse_memory_map(machine.map)
    BY <2>1 DEF MInv, MapKept, Reserves
  <2>7. requests = wanted
    <3> HIDE DEF laid, wanted, kernel
    <3>1. Len(regions) = Len(laid) /\ \A i \in 1 .. Len(laid) : SameRegion(regions[i], laid[i])
      BY <2>5 DEF Done
    <3>2. \A i \in 1 .. Len(laid) : regions[i].bitmap = laid[i].bitmap
                                    /\ regions[i].bitmap_size = laid[i].bitmap_size
      BY <3>1 DEF SameRegion
    <3> QED BY <2>2, <2>4, <3>1, <3>2, SameRequests DEF wanted
  <2>8. at \in 1 .. Len(requests)
    BY <2>1 DEF IInv, InRange
  <2>9. wanted \in Seq(Request)
    <3> HIDE DEF laid, kernel
    <3> QED BY <2>2, <2>3, <2>4, RequestsTyped
  <2>10. Done(regions', laid, wanted, at)
    <3> DEFINE n == at - 1
    <3>1. n \in Nat /\ n + 1 = at /\ n + 1 \in 1 .. Len(wanted)
      <4> HIDE DEF requests, wanted
      <4> QED BY <2>2, <2>7, <2>8
    <3> HIDE DEF requests, laid, wanted, n
    <3>2. q = wanted[n + 1]
      BY <2>7, <3>1
    <3>3. Done(regions, laid, wanted, n)
      BY <2>5 DEF n
    <3> HIDE DEF q
    <3>4. addr_to_bitmap(regions, wanted[n + 1].start) # 0
      BY <1>2, <3>2
    <3>5. Done(reserve_region(regions, wanted[n + 1].start, wanted[n + 1].size), laid, wanted, n + 1)
      BY <2>2, <2>4, <2>9, <3>1, <3>3, <3>4, DoneNext
    <3> QED BY <2>1, <3>1, <3>2, <3>5
  <2>11. /\ (at + 1) - 1 = at /\ at + 1 \in 1 .. Len(wanted) + 1
         /\ stage' # "reserve" => at + 1 = Len(wanted) + 1
         /\ stage' \in {"reserve", "kernel_main"}
    <3>1. Len(wanted) \in Nat
      BY <2>9
    <3> HIDE DEF requests, wanted
    <3> QED BY <2>1, <2>2, <2>7, <2>8, <3>1
  <2>12. MapKept'
    BY <2>1, <2>6, <2>11 DEF MapKept
  <2>13. Laid(memory', machine'.kernel) = laid
    BY <2>1
  <2>14. ToReserve(memory', machine'.kernel, cpus'.smp, Laid(memory', machine'.kernel)) = wanted
    BY <2>1
  <2> HIDE DEF wanted, laid, requests, q, last
  <2>15. Marked'
    BY <2>1, <2>10, <2>11, <2>13, <2>14 DEF Marked, Ready
  <2> QED BY <2>12, <2>15 DEF MInv
<1> QED
  BY <1>1, <1>2

LEMMA LastStep == ASSUME IInv, MInv, KernelMain \/ PageFault PROVE MInv'
<1>1. CASE PageFault
  <2>1. stage' \in {"panic", "stuck"}
    BY <1>1 DEF PageFault, Panic, Goto
  <2> QED BY <2>1, OutsideStep DEF Reserves
<1>2. CASE KernelMain
  <2>1. /\ stage = "kernel_main" /\ stage' \in {"running", "page_fault"}
        /\ machine' = machine /\ at' = at
        /\ memory' = memory /\ cpus' = cpus /\ regions' = regions
    BY <1>2 DEF KernelMain, Goto, info
  <2>2. MapKept'
    BY <2>1 DEF MInv, MapKept, Reserves
  <2>3. Marked'
    BY <2>1 DEF MInv, Marked, Reserves, Ready
  <2> QED BY <2>2, <2>3 DEF MInv
<1> QED
  BY <1>1, <1>2

\* The invariant: the map and the regions stay as they were made, and at each
\* call of reserve_region the requests before it have been met exactly.
THEOREM MemoryInvariant == Spec => []MInv
<1>1. Init => MInv
  BY InitMInv
<1>2. IInv /\ MInv /\ [Next]_vars => MInv'
  <2> SUFFICES ASSUME IInv, MInv, [Next]_vars PROVE MInv'
    OBVIOUS
  <2>1. CASE NoMemory \/ BootInfo \/ ParseCmdline \/ BootConsoleInit \/ ConsoleFailed
             \/ CheckCpu \/ CheckMagic
    BY <2>1, EarlyStep
  <2>2. CASE ParseMemoryMap \/ SmpInit \/ Tables
    BY <2>2, MapStep
  <2>3. CASE PmmRegions
    BY <2>3, RegionsStep
  <2>4. CASE PmmBitmaps
    BY <2>4, BitmapsStep
  <2>5. CASE PmmReserve
    BY <2>5, ReserveStep
  <2>6. CASE KernelMain \/ PageFault
    BY <2>6, LastStep
  <2>7. CASE UNCHANGED vars
    <3>1. /\ machine' = machine /\ stage' = stage /\ memory' = memory
          /\ at' = at /\ cpus' = cpus /\ regions' = regions
      BY <2>7 DEF vars, info
    <3>2. MapKept' /\ Marked'
      BY <3>1 DEF MInv, MapKept, Marked, Ready
    <3> QED BY <3>2 DEF MInv
  <2> QED
    BY <2>1, <2>2, <2>3, <2>4, <2>5, <2>6, <2>7 DEF Next
<1> QED
  BY <1>1, <1>2, Invariant, PTL DEF Spec

-----------------------------------------------------------------------------
(* What is left when everything has been reserved *)

\* Each region covers its entry of the map; its set bits are finitely many,
\* counted, and those of the requests that fall into it.
Settled(rs, mem, kernel, smp) ==
    LET used == OfType(mem, Pool)
        wanted == Wanted(mem, kernel, smp, rs)
    IN  /\ mem \in Seq(MemoryEntry) /\ kernel \in [start : Nat, end : Nat] /\ smp \in BOOLEAN
        /\ used \in Seq(MemoryEntry) /\ rs \in Seq(RegionRecord)
        /\ Len(rs) = Len(used) /\ Len(rs) = Len(Regions(mem))
        /\ \A i \in 1 .. Len(rs) :
              /\ \E f, z : Covers(rs[i], used[i], f, z)
              /\ rs[i].bitmap = RoundUp(kernel.end) + SizesBefore(Regions(mem), i)
              /\ rs[i].bitmap_size = Regions(mem)[i].bitmap_size
              /\ IsFiniteSet(rs[i].bits) /\ rs[i].reserved_blocks = Cardinality(rs[i].bits)
              /\ \A b \in rs[i].bits : \E q \in wanted : Home(rs, q) = i /\ b \in BitsOf(rs, q)
        /\ \A q \in wanted : /\ Home(rs, q) \in 1 .. Len(rs)
                             /\ BitsOf(rs, q) \subseteq rs[Home(rs, q)].bits

LEMMA DoneSettles ==
    ASSUME NEW mem \in Seq(MemoryEntry), NEW kernel \in [start : Nat, end : Nat],
           NEW smp \in BOOLEAN, NEW rs \in Seq(RegionRecord),
           Done(rs, Laid(mem, kernel), ToReserve(mem, kernel, smp, Laid(mem, kernel)),
                Len(ToReserve(mem, kernel, smp, Laid(mem, kernel))))
    PROVE  Settled(rs, mem, kernel, smp)
<1> DEFINE laid == Laid(mem, kernel)
           wanted == ToReserve(mem, kernel, smp, laid)
           used == OfType(mem, Pool)
           N == Len(wanted)
<1>1. /\ laid \in Seq(RegionRecord) /\ Len(laid) = Len(used) /\ Len(laid) = Len(Regions(mem))
      /\ used \in Seq(MemoryEntry)
  BY LaidIs
<1>2. \A i \in 1 .. Len(laid) :
         /\ \E f, z : Covers(laid[i], used[i], f, z)
         /\ laid[i].bitmap = RoundUp(kernel.end) + SizesBefore(Regions(mem), i)
         /\ laid[i].bitmap_size = Regions(mem)[i].bitmap_size
  BY LaidIs
<1>3. Done(rs, laid, wanted, N)
  OBVIOUS
<1>4. wanted \in Seq(Request)
  <2> HIDE DEF laid
  <2> QED BY <1>1, RequestsTyped
<1> HIDE DEF laid, wanted, used
<1>5. /\ Len(rs) = Len(laid) /\ Len(laid) \in Nat
      /\ \A i \in 1 .. Len(laid) : SameRegion(rs[i], laid[i])
  BY <1>1, <1>3 DEF Done
<1>6. \A q : Home(rs, q) = Home(laid, q)
  <2>1. \A i \in 1 .. Len(laid) : rs[i].last = laid[i].last
    BY <1>5 DEF SameRegion
  <2> QED BY <1>5, <2>1, SameHome DEF Home
<1>7. \A q : Home(laid, q) \in 1 .. Len(laid) => BitsOf(rs, q) = BitsOf(laid, q)
  <2> SUFFICES ASSUME NEW q, Home(laid, q) \in 1 .. Len(laid)
               PROVE  BitsOf(rs, q) = BitsOf(laid, q)
    OBVIOUS
  <2> DEFINE h == Home(laid, q)
  <2>1. rs[h].first = laid[h].first
    BY <1>5 DEF SameRegion
  <2> HIDE DEF h
  <2>2. BitOf(rs[h], q.start) = BitOf(laid[h], q.start)
    BY <2>1 DEF BitOf
  <2> QED BY <1>6, <2>2 DEF BitsOf, h
<1> DEFINE W == Wanted(mem, kernel, smp, rs)
<1>8. W = ToSet(wanted)
  <2>1. \A i \in 1 .. Len(laid) : rs[i].bitmap = laid[i].bitmap
                                  /\ rs[i].bitmap_size = laid[i].bitmap_size
    BY <1>5 DEF SameRegion
  <2>2. ToReserve(mem, kernel, smp, rs) = wanted
    BY <1>1, <1>5, <2>1, SameRequests DEF wanted
  <2> HIDE DEF W
  <2> QED BY <2>2, WantedIs DEF W
<1> HIDE DEF W
<1>9. \A q : q \in W <=> \E k \in 1 .. N : q = wanted[k]
  <2>1. DOMAIN wanted = 1 .. N
    BY <1>4
  <2> QED BY <1>8, <2>1 DEF ToSet
<1>10. ASSUME NEW q \in W
       PROVE  Home(rs, q) \in 1 .. Len(rs) /\ BitsOf(rs, q) \subseteq rs[Home(rs, q)].bits
  <2>1. PICK k \in 1 .. N : q = wanted[k]
    BY <1>9
  <2>2. Home(laid, q) # 0 /\ BitsOf(laid, q) \subseteq rs[Home(laid, q)].bits
    <3> HIDE DEF N
    <3> QED BY <1>3, <2>1 DEF Done
  <2>3. Home(laid, q) \in 1 .. Len(laid)
    BY <1>5, <2>2, RegionFound DEF Home
  <2> QED BY <1>5, <1>6, <1>7, <2>2, <2>3
<1>11. ASSUME NEW i \in 1 .. Len(rs), NEW b \in rs[i].bits
       PROVE  \E q \in W : Home(rs, q) = i /\ b \in BitsOf(rs, q)
  <2> HIDE DEF N
  <2>1. i \in 1 .. Len(laid)
    BY <1>5
  <2>2. PICK k \in 1 .. N : Home(laid, wanted[k]) = i /\ b \in BitsOf(laid, wanted[k])
    BY <1>3, <1>11, <2>1 DEF Done
  <2> DEFINE q == wanted[k]
  <2>3. q \in W
    BY <1>9
  <2>4. Home(laid, q) = i /\ b \in BitsOf(laid, q)
    BY <2>2
  <2> HIDE DEF q
  <2>5. Home(rs, q) = i /\ b \in BitsOf(rs, q)
    BY <1>6, <1>7, <2>1, <2>4
  <2> QED BY <2>3, <2>5
<1>12. ASSUME NEW i \in 1 .. Len(rs)
       PROVE  /\ \E f, z : Covers(rs[i], used[i], f, z)
              /\ rs[i].bitmap = RoundUp(kernel.end) + SizesBefore(Regions(mem), i)
              /\ rs[i].bitmap_size = Regions(mem)[i].bitmap_size
              /\ IsFiniteSet(rs[i].bits) /\ rs[i].reserved_blocks = Cardinality(rs[i].bits)
  <2>1. SameRegion(rs[i], laid[i]) /\ i \in 1 .. Len(laid)
    BY <1>5
  <2>2. PICK f, z : Covers(laid[i], used[i], f, z)
    BY <1>2, <2>1
  <2>3. Covers(rs[i], used[i], f, z)
    BY <2>1, <2>2 DEF SameRegion, Covers
  <2>4. /\ rs[i].bitmap = RoundUp(kernel.end) + SizesBefore(Regions(mem), i)
        /\ rs[i].bitmap_size = Regions(mem)[i].bitmap_size
    BY <1>2, <2>1 DEF SameRegion
  <2>5. IsFiniteSet(rs[i].bits) /\ rs[i].reserved_blocks = Cardinality(rs[i].bits)
    BY <2>1 DEF SameRegion
  <2> QED BY <2>3, <2>4, <2>5
<1> QED
  BY <1>1, <1>5, <1>10, <1>11, <1>12 DEF Settled, used, W

\* Regions with the same bitmaps have the same size of them all.
LEMMA SameSizes ==
    ASSUME NEW rs \in Seq(RegionRecord), NEW ts \in Seq(RegionRecord), Len(rs) = Len(ts),
           \A i \in 1 .. Len(rs) : rs[i].bitmap_size = ts[i].bitmap_size
    PROVE  AllBitmapsSize(rs) = AllBitmapsSize(ts)
<1> DEFINE N == Len(rs)
           T == {k \in 0 .. N : SizesBefore(rs, k + 1) = SizesBefore(ts, k + 1)}
<1>1. N \in Nat /\ \A k \in 0 .. N : k < N => k + 1 \in 1 .. N
  OBVIOUS
<1>2. 0 \in T
  BY <1>1, SizesBeforeIs
<1>3. \A k \in 0 .. N : k \in T /\ k < N => k + 1 \in T
  <2> SUFFICES ASSUME NEW k \in 0 .. N, k < N, SizesBefore(rs, k + 1) = SizesBefore(ts, k + 1)
               PROVE  SizesBefore(rs, (k + 1) + 1) = SizesBefore(ts, (k + 1) + 1)
    BY <1>1
  <2>1. k + 1 \in 1 .. Len(rs) /\ k + 1 \in 1 .. Len(ts)
    BY <1>1
  <2>2. /\ SizesBefore(rs, (k + 1) + 1) = SizesBefore(rs, k + 1) + rs[k + 1].bitmap_size
        /\ SizesBefore(ts, (k + 1) + 1) = SizesBefore(ts, k + 1) + ts[k + 1].bitmap_size
    BY <2>1, SizesBeforeIs
  <2>3. rs[k + 1].bitmap_size = ts[k + 1].bitmap_size
    BY <2>1
  <2> QED BY <2>2, <2>3
<1>4. \A k \in 0 .. N : k \in T
  <2> HIDE DEF T, N
  <2> QED BY <1>1, <1>2, <1>3, UpTo
<1>5. N \in T
  BY <1>1, <1>4
<1> QED
  BY <1>5 DEF AllBitmapsSize

\* The bitmaps lie behind the kernel, one behind the other.
LEMMA BitmapsLaid ==
    ASSUME NEW mem, NEW kernel, NEW smp, NEW rs, Settled(rs, mem, kernel, smp)
    PROVE  /\ AllBitmapsSize(rs) = AllBitmapsSize(Regions(mem)) /\ AllBitmapsSize(rs) \in Nat
           /\ \A i \in 1 .. Len(rs) :
                 /\ rs[i].bitmap \in Nat /\ rs[i].bitmap_size \in Nat
                 /\ RoundUp(kernel.end) <= rs[i].bitmap
                 /\ rs[i].bitmap + rs[i].bitmap_size
                       <= RoundUp(kernel.end) + AllBitmapsSize(rs)
                 /\ \A j \in 1 .. Len(rs) : i < j =>
                       rs[i].bitmap + rs[i].bitmap_size <= rs[j].bitmap
<1> DEFINE ts == Regions(mem)
           start == RoundUp(kernel.end)
           size(i) == SizesBefore(ts, i)
<1>1. /\ mem \in Seq(MemoryEntry) /\ rs \in Seq(RegionRecord) /\ Len(rs) = Len(ts)
      /\ kernel \in [start : Nat, end : Nat]
      /\ \A i \in 1 .. Len(rs) : /\ rs[i].bitmap = start + size(i)
                                 /\ rs[i].bitmap_size = ts[i].bitmap_size
  BY DEF Settled
<1>2. ts \in Seq(RegionRecord) /\ start \in Nat
  BY <1>1, RegionsTyped, Rounded
<1> HIDE DEF ts, start
<1>3. AllBitmapsSize(rs) = AllBitmapsSize(ts) /\ AllBitmapsSize(rs) \in Nat
  BY <1>1, <1>2, SameSizes, AllSizes
<1>4. /\ \A i \in 1 .. Len(ts) : size(i + 1) = size(i) + ts[i].bitmap_size
      /\ \A i \in 1 .. Len(ts) + 1 : size(i) \in Nat
      /\ \A i \in 1 .. Len(ts) + 1 : \A j \in i .. Len(ts) + 1 : size(i) <= size(j)
  BY <1>2, SizesBeforeIs, SizesOrdered
<1>5. AllBitmapsSize(ts) = size(Len(ts) + 1)
  BY DEF AllBitmapsSize
<1>6. \A i \in 1 .. Len(ts) : ts[i].bitmap_size \in Nat
  <2>1. \A i \in 1 .. Len(ts) : ts[i] \in RegionRecord
    BY <1>2
  <2> QED BY <2>1 DEF RegionRecord
<1>7. Len(ts) \in Nat
  BY <1>2
<1> HIDE DEF size
<1>8. ASSUME NEW i \in 1 .. Len(rs)
      PROVE  /\ rs[i].bitmap \in Nat /\ rs[i].bitmap_size \in Nat /\ start <= rs[i].bitmap
             /\ rs[i].bitmap + rs[i].bitmap_size <= start + AllBitmapsSize(rs)
             /\ \A j \in 1 .. Len(rs) : i < j =>
                   rs[i].bitmap + rs[i].bitmap_size <= rs[j].bitmap
  <2>1. /\ i \in 1 .. Len(ts) /\ i \in 1 .. Len(ts) + 1 /\ i + 1 \in 1 .. Len(ts) + 1
        /\ Len(ts) + 1 \in i + 1 .. Len(ts) + 1 /\ Len(ts) + 1 \in 1 .. Len(ts) + 1
    BY <1>1, <1>7
  <2>2. /\ rs[i].bitmap = start + size(i) /\ rs[i].bitmap_size = ts[i].bitmap_size
        /\ size(i + 1) = size(i) + ts[i].bitmap_size
        /\ size(i) \in Nat /\ ts[i].bitmap_size \in Nat
    BY <1>1, <1>4, <1>6, <2>1
  <2>3. size(i + 1) <= size(Len(ts) + 1) /\ size(Len(ts) + 1) \in Nat
    BY <1>4, <2>1
  <2>4. ASSUME NEW j \in 1 .. Len(rs), i < j
        PROVE  rs[i].bitmap + rs[i].bitmap_size <= rs[j].bitmap
    <3>1. j \in i + 1 .. Len(ts) + 1 /\ j \in 1 .. Len(ts) + 1
      BY <1>1, <1>7, <2>1, <2>4
    <3>2. size(i + 1) <= size(j) /\ size(j) \in Nat
      BY <1>4, <2>1, <3>1
    <3>3. rs[j].bitmap = start + size(j)
      BY <1>1
    <3> QED BY <1>2, <2>2, <3>2, <3>3
  <2>5. rs[i].bitmap + rs[i].bitmap_size <= start + AllBitmapsSize(rs)
    BY <1>2, <1>3, <1>5, <2>2, <2>3
  <2> QED BY <1>2, <2>2, <2>4, <2>5
<1> QED
  BY <1>3, <1>8 DEF ts, start

\* In the stages a running kernel is in, every request has been met.
LEMMA ReadySettled ==
    ASSUME IInv, MInv, Ready
    PROVE  /\ Settled(regions, memory, machine.kernel, cpus.smp)
           /\ memory = parse_memory_map(machine.map)
           /\ machine.kernel.start = KERNEL_PHYSICAL_BASE
           /\ machine.kernel.start < machine.kernel.end
<1> DEFINE kernel == machine.kernel
           laid == Laid(memory, kernel)
           wanted == ToReserve(memory, kernel, cpus.smp, laid)
<1>1. /\ memory \in Seq(MemoryEntry) /\ machine \in Machines /\ cpus.smp \in BOOLEAN
      /\ regions \in Seq(RegionRecord)
  BY DEF IInv, Typed
<1>2. /\ kernel \in [start : Nat, end : Nat]
      /\ kernel.start = KERNEL_PHYSICAL_BASE /\ kernel.start < kernel.end
  BY <1>1, MachinesAssumption
<1>3. stage \in Reserves
  BY DEF Ready, Reserves
<1>4. memory = parse_memory_map(machine.map)
  BY <1>3 DEF MInv, MapKept
<1>5. Done(regions, laid, wanted, at - 1) /\ at = Len(wanted) + 1
  BY <1>3 DEF MInv, Marked
<1>6. at - 1 = Len(wanted)
  <2>1. wanted \in Seq(Request)
    <3>1. laid \in Seq(RegionRecord)
      <4> HIDE DEF kernel
      <4> QED BY <1>1, <1>2, LaidTyped
    <3> HIDE DEF laid, kernel
    <3> QED BY <1>1, <1>2, <3>1, RequestsTyped
  <2>2. Len(wanted) \in Nat
    BY <2>1
  <2> HIDE DEF wanted
  <2> QED BY <1>5, <2>2
<1>7. Done(regions, laid, wanted, Len(wanted))
  BY <1>5, <1>6
<1>8. Settled(regions, memory, kernel, cpus.smp)
  <2> HIDE DEF kernel
  <2> QED BY <1>1, <1>2, <1>7, DoneSettles
<1> QED
  BY <1>2, <1>4, <1>8

\* The entry of the map a region is made of.
Entry(mem, i) == OfType(mem, Pool)[i]

LEMMA SettledIs ==
    ASSUME NEW mem, NEW kernel, NEW smp, NEW rs, Settled(rs, mem, kernel, smp)
    PROVE  /\ mem \in Seq(MemoryEntry) /\ kernel \in [start : Nat, end : Nat]
           /\ rs \in Seq(RegionRecord) /\ Len(rs) \in Nat
           /\ Len(rs) = Len(OfType(mem, Pool))
           /\ \A i \in 1 .. Len(rs) : Entry(mem, i) \in MemoryEntry
           /\ \A i \in 1 .. Len(rs) : \E f, z : Covers(rs[i], Entry(mem, i), f, z)
<1> DEFINE used == OfType(mem, Pool)
<1>1. /\ mem \in Seq(MemoryEntry) /\ kernel \in [start : Nat, end : Nat]
      /\ rs \in Seq(RegionRecord) /\ used \in Seq(MemoryEntry) /\ Len(rs) = Len(used)
      /\ \A i \in 1 .. Len(rs) : \E f, z : Covers(rs[i], used[i], f, z)
  BY DEF Settled
<1>2. \A i : Entry(mem, i) = used[i]
  BY DEF Entry
<1> HIDE DEF used
<1>3. \A i \in 1 .. Len(rs) : used[i] \in MemoryEntry
  BY <1>1
<1>4. Len(rs) \in Nat
  BY <1>1
<1> QED
  BY <1>1, <1>2, <1>3, <1>4 DEF used

\* The last frame of a region begins at its last page, or before.
LEMMA FramesEnd ==
    ASSUME NEW r, NEW e \in MemoryEntry, NEW f \in Nat, NEW z \in Int, Covers(r, e, f, z)
    PROVE  /\ f + r.total_blocks <= z + 1
           /\ 4096 * (f + r.total_blocks) < e.base + e.length + 4096
           /\ e.base + e.length < 4096 * (f + r.total_blocks) + 4096
<1>1. e.base \in Nat /\ e.length \in Nat
  BY DEF MemoryEntry
<1>2. /\ f \in Nat /\ z \in Int /\ r.total_blocks \in Nat
      /\ e.base <= 4096 * f /\ 4096 * f < e.base + 4096
      /\ e.base + e.length <= 4096 * z + 4096
      /\ 4096 * r.total_blocks <= e.length /\ e.length < 4096 * r.total_blocks + 4096
  BY DEF Covers
<1>3. 4096 * (f + r.total_blocks) = 4096 * f + 4096 * r.total_blocks
  BY <1>2
<1>4. /\ 4096 * (f + r.total_blocks) < e.base + e.length + 4096
      /\ e.base + e.length < 4096 * (f + r.total_blocks) + 4096
  BY <1>1, <1>2, <1>3
<1> QED
  BY <1>1, <1>2, <1>4

\* An address in a region, and behind those before it, is found in it.
LEMMA Lands ==
    ASSUME NEW mem, NEW kernel, NEW smp, NEW rs, Settled(rs, mem, kernel, smp),
           NEW i \in 1 .. Len(rs),
           NEW f \in Nat, NEW z \in Int, Covers(rs[i], Entry(mem, i), f, z), NEW a \in Int, a <= 4096 * z,
           \A j \in 1 .. Len(rs) : j < i => Entry(mem, j).base + Entry(mem, j).length <= a
    PROVE  addr_to_bitmap(rs, a) = i
<1>1. /\ rs \in Seq(RegionRecord) /\ Len(rs) \in Nat
      /\ \A j \in 1 .. Len(rs) : Entry(mem, j) \in MemoryEntry
      /\ \A j \in 1 .. Len(rs) : \E g, y : Covers(rs[j], Entry(mem, j), g, y)
  BY SettledIs
<1>3. \A j \in 1 .. Len(rs) : rs[j].last \in Int
  <2>1. \A j \in 1 .. Len(rs) : rs[j] \in RegionRecord
    BY <1>1
  <2> QED BY <2>1 DEF RegionRecord
<1>4. ASSUME NEW j \in 1 .. Len(rs), j < i PROVE rs[j].last < a
  <2>1. Entry(mem, j).base + Entry(mem, j).length <= a
    BY <1>4
  <2>2. PICK g, y : Covers(rs[j], Entry(mem, j), g, y)
    BY <1>1
  <2>3. rs[j].last < Entry(mem, j).base + Entry(mem, j).length
    BY <2>2 DEF Covers
  <2>4. Entry(mem, j).base + Entry(mem, j).length \in Int
    <3>1. Entry(mem, j) \in MemoryEntry
      BY <1>1
    <3> QED BY <3>1 DEF MemoryEntry
  <2> QED BY <1>3, <2>1, <2>3, <2>4
<1>5. a <= rs[i].last
  BY DEF Covers
<1> QED
  BY <1>1, <1>3, <1>4, <1>5, HomeIs

\* The bits of a request from a page of a region.
LEMMA BitsFrom ==
    ASSUME NEW rs, NEW q, NEW s \in Int, q.start \div 4096 = s, NEW i, Home(rs, q) = i,
           NEW f \in Int, rs[i].first = 4096 * f
    PROVE  BitsOf(rs, q) = s - f .. (s - f) + Blocks(q) - 1
<1>1. BitOf(rs[i], q.start) = s - f
  BY PageNumber DEF BitOf, BLOCK_SIZE, PAGE_SIZE
<1> QED
  BY <1>1 DEF BitsOf

\* The number of frames of a request.
LEMMA BlocksAre ==
    ASSUME NEW q, q.size \in Int
    PROVE  /\ Blocks(q) \in Nat /\ Blocks(q) >= 1
           /\ q.size >= 4096 => /\ 4096 * Blocks(q) <= q.size
                                /\ q.size < 4096 * Blocks(q) + 4096
           /\ q.size < 4096 => Blocks(q) = 1
BY DEF Blocks, BLOCK_SIZE, PAGE_SIZE

\* A page of the frames of a region, a request that reaches it from a page
\* of its own, and no region before that page.
RegionAt(mem, rs, i, f, z) ==
    /\ i \in 1 .. Len(rs) /\ f \in Nat /\ z \in Int
    /\ Covers(rs[i], Entry(mem, i), f, z)

PageOf(mem, rs, i, f, z, p) ==
    /\ RegionAt(mem, rs, i, f, z)
    /\ p \in Int /\ f <= p /\ p < f + rs[i].total_blocks

Reaches(q, s, p) ==
    /\ s \in Int /\ q.start = 4096 * s /\ q.size \in Int /\ s <= p
    /\ p = s \/ 4096 * p + 4096 <= q.start + q.size

NoneBefore(mem, rs, i, a) ==
    \A j \in 1 .. Len(rs) : j < i => Entry(mem, j).base + Entry(mem, j).length <= a

\* A page of a region is reserved by the request it lies in.
LEMMA PageReserved ==
    ASSUME NEW mem, NEW kernel, NEW smp, NEW rs, Settled(rs, mem, kernel, smp),
           NEW i, NEW f, NEW z, NEW p, PageOf(mem, rs, i, f, z, p),
           NEW q \in Wanted(mem, kernel, smp, rs), NEW s, Reaches(q, s, p),
           NoneBefore(mem, rs, i, q.start)
    PROVE  p - f \in rs[i].bits
<1>0. /\ i \in 1 .. Len(rs) /\ f \in Nat /\ z \in Int /\ Covers(rs[i], Entry(mem, i), f, z)
      /\ p \in Int /\ f <= p /\ p < f + rs[i].total_blocks
      /\ s \in Int /\ q.start = 4096 * s /\ q.size \in Int /\ s <= p
      /\ p = s \/ 4096 * p + 4096 <= q.start + q.size
      /\ \A j \in 1 .. Len(rs) : j < i =>
            Entry(mem, j).base + Entry(mem, j).length <= q.start
  BY DEF PageOf, RegionAt, Reaches, NoneBefore
<1>1. Entry(mem, i) \in MemoryEntry
  BY <1>0, SettledIs
<1>2. f \in Nat /\ z \in Int /\ rs[i].total_blocks \in Nat /\ rs[i].first = 4096 * f
  BY <1>0 DEF Covers
<1>3. f + rs[i].total_blocks <= z + 1
  <2> DEFINE r == rs[i]
             e == Entry(mem, i)
  <2>1. e \in MemoryEntry /\ f \in Nat /\ z \in Int /\ Covers(r, e, f, z)
    BY <1>0, <1>1
  <2> HIDE DEF r, e
  <2>2. f + r.total_blocks <= z + 1
    BY <2>1, FramesEnd
  <2> QED BY <2>2 DEF r
<1>4. q.start \in Int /\ q.start <= 4096 * z
  BY <1>0, <1>2, <1>3
<1>5. Home(rs, q) = i
  <2> DEFINE a == q.start
  <2>1. /\ a \in Int /\ a <= 4096 * z
        /\ \A j \in 1 .. Len(rs) : j < i => Entry(mem, j).base + Entry(mem, j).length <= a
    BY <1>0, <1>4
  <2> HIDE DEF a
  <2>2. addr_to_bitmap(rs, a) = i
    BY <1>0, <2>1, Lands
  <2> QED BY <2>2 DEF Home, a
<1>6. BitsOf(rs, q) = s - f .. (s - f) + Blocks(q) - 1
  <2>1. q.start \div 4096 = s
    BY <1>0, PageNumber
  <2> QED BY <1>0, <1>2, <1>5, <2>1, BitsFrom
<1>7. p < s + Blocks(q)
  <2> DEFINE c == Blocks(q)
  <2>1. /\ c \in Nat /\ c >= 1
        /\ q.size >= 4096 => q.size < 4096 * c + 4096
        /\ q.size < 4096 => c = 1
    BY <1>0, BlocksAre
  <2> HIDE DEF c
  <2>2. p < s + c
    BY <1>0, <2>1
  <2> QED BY <2>2 DEF c
<1>8. p - f \in BitsOf(rs, q)
  <2> DEFINE c == Blocks(q)
             bits == BitsOf(rs, q)
  <2>1. c \in Nat
    BY <1>0, BlocksAre
  <2>2. /\ bits = s - f .. (s - f) + c - 1 /\ p < s + c /\ s <= p
        /\ s \in Int /\ p \in Int /\ f \in Int
    BY <1>0, <1>2, <1>6, <1>7
  <2> HIDE DEF c, bits
  <2>3. p - f \in bits
    BY <2>1, <2>2
  <2> QED BY <2>3 DEF bits
<1>9. BitsOf(rs, q) \subseteq rs[Home(rs, q)].bits
  BY DEF Settled
<1> QED
  BY <1>5, <1>8, <1>9

-----------------------------------------------------------------------------
(* Memory in order *)

\* Orderly, said of the regions; the kernel is in the k-th.
InOrder(mem, kernel, rs, k) ==
    /\ \A i, j \in 1 .. Len(rs) : i < j =>
          /\ Entry(mem, i).base + Entry(mem, i).length <= Entry(mem, j).base
          /\ Entry(mem, j).base >= kernel.start
    /\ \A i \in 1 .. Len(rs) : Entry(mem, i).type = "reclaimable" =>
          Entry(mem, i).base % 4096 = 0 /\ Entry(mem, i).length >= 4096
    /\ k \in 1 .. Len(rs)
    /\ Entry(mem, k).type = "available" /\ Entry(mem, k).base = kernel.start
    /\ RoundUp(kernel.end) + AllBitmapsSize(rs) + 4096
          <= Entry(mem, k).base + Entry(mem, k).length

Sound(mem, kernel, smp, rs, k) ==
    /\ Settled(rs, mem, kernel, smp) /\ InOrder(mem, kernel, rs, k)
    /\ kernel.start = 4096 * 256 /\ kernel.start < kernel.end

LEMMA OrderlyIs ==
    ASSUME NEW m, NEW mem, mem = parse_memory_map(m.map), NEW smp, NEW rs,
           Settled(rs, mem, m.kernel, smp), Orderly(m),
           m.kernel.start = KERNEL_PHYSICAL_BASE, m.kernel.start < m.kernel.end
    PROVE  \E k : Sound(mem, m.kernel, smp, rs, k)
<1> DEFINE used == OfType(mem, Pool)
           bitmaps == AllBitmapsSize(Regions(mem))
<1>1. /\ rs \in Seq(RegionRecord) /\ Len(rs) \in Nat /\ Len(rs) = Len(used)
      /\ AllBitmapsSize(rs) = bitmaps
  BY SettledIs, BitmapsLaid
<1>2. used \in Seq(MemoryEntry)
  BY SettledIs, OfTypeIs
<1>3. /\ \A i, j \in DOMAIN used : i < j =>
            /\ used[i].base + used[i].length <= used[j].base
            /\ used[j].base >= m.kernel.start
      /\ \A i \in DOMAIN used : used[i].type = "reclaimable" =>
            used[i].base % PAGE_SIZE = 0 /\ used[i].length >= PAGE_SIZE
      /\ \E i \in DOMAIN used :
            /\ used[i].type = "available" /\ used[i].base = m.kernel.start
            /\ RoundUp(m.kernel.end) + bitmaps + PAGE_SIZE
                  <= used[i].base + used[i].length
  BY DEF Orderly
<1>4. \A i : Entry(mem, i) = used[i]
  BY DEF Entry
<1> HIDE DEF used, bitmaps
<1>5. DOMAIN used = 1 .. Len(rs)
  BY <1>1, <1>2
<1>6. PICK k \in DOMAIN used :
            /\ used[k].type = "available" /\ used[k].base = m.kernel.start
            /\ RoundUp(m.kernel.end) + bitmaps + PAGE_SIZE
                  <= used[k].base + used[k].length
  BY <1>3
<1>7. InOrder(mem, m.kernel, rs, k)
  BY <1>1, <1>3, <1>4, <1>5, <1>6 DEF InOrder, PAGE_SIZE
<1> QED
  BY <1>7, SMT DEF Sound, KERNEL_PHYSICAL_BASE

\* The region of the kernel begins at its page, and no region before it has
\* memory behind that; behind it there is room for the bitmaps.
LEMMA KernelRegion ==
    ASSUME NEW mem, NEW kernel, NEW smp, NEW rs, NEW k, Sound(mem, kernel, smp, rs, k)
    PROVE  /\ k \in 1 .. Len(rs) /\ kernel.end \in Nat
           /\ Entry(mem, k) \in MemoryEntry /\ Entry(mem, k).base = 4096 * 256
           /\ \E z \in Int : /\ Covers(rs[k], Entry(mem, k), 256, z)
                             /\ RoundUp(kernel.end) + AllBitmapsSize(rs) <= 4096 * z
           /\ \A j \in 1 .. Len(rs) : j < k =>
                 Entry(mem, j).base + Entry(mem, j).length <= 4096 * 256
           /\ \A j \in 1 .. Len(rs) : k < j =>
                 RoundUp(kernel.end) + AllBitmapsSize(rs) + 4096 <= Entry(mem, j).base
           /\ RoundUp(kernel.end) + AllBitmapsSize(rs) + 4096
                 <= Entry(mem, k).base + Entry(mem, k).length
           /\ RoundUp(kernel.end) \in Nat /\ kernel.end <= RoundUp(kernel.end)
           /\ AllBitmapsSize(rs) \in Nat
<1> DEFINE e == Entry(mem, k)
           room == RoundUp(kernel.end)
           size == AllBitmapsSize(rs)
<1>1. /\ Settled(rs, mem, kernel, smp) /\ InOrder(mem, kernel, rs, k)
      /\ kernel.start = 4096 * 256
  BY DEF Sound
<1>2. /\ k \in 1 .. Len(rs) /\ e.base = 4096 * 256 /\ room + size + 4096 <= e.base + e.length
      /\ \A j \in 1 .. Len(rs) : j < k => Entry(mem, j).base + Entry(mem, j).length <= e.base
      /\ \A j \in 1 .. Len(rs) : k < j => e.base + e.length <= Entry(mem, j).base
  BY <1>1 DEF InOrder
<1>3. /\ \A j \in 1 .. Len(rs) : Entry(mem, j) \in MemoryEntry
      /\ \A j \in 1 .. Len(rs) : \E f, z : Covers(rs[j], Entry(mem, j), f, z)
      /\ kernel \in [start : Nat, end : Nat]
  BY <1>1, SettledIs
<1>4. kernel.end \in Nat /\ room \in Nat /\ kernel.end <= room
  BY <1>3, Rounded
<1>5. size \in Nat
  BY <1>1, BitmapsLaid
<1>6. PICK f, z : Covers(rs[k], e, f, z)
  BY <1>2, <1>3
<1>7. /\ f \in Nat /\ z \in Int /\ e.base <= 4096 * f /\ 4096 * f < e.base + 4096
      /\ e.base + e.length <= 4096 * z + 4096
  BY <1>6 DEF Covers
<1>8. f = 256
  BY <1>2, <1>7
<1>9. e \in MemoryEntry /\ e.length \in Nat
  <2>1. e \in MemoryEntry
    BY <1>2, <1>3
  <2> QED BY <2>1 DEF MemoryEntry
<1> HIDE DEF e, room, size
<1>10. room + size <= 4096 * z
  BY <1>2, <1>4, <1>5, <1>7, <1>9
<1>11. ASSUME NEW j \in 1 .. Len(rs), k < j
       PROVE  room + size + 4096 <= Entry(mem, j).base
  <2>1. Entry(mem, j).base \in Nat
    <3>1. Entry(mem, j) \in MemoryEntry
      BY <1>3
    <3> QED BY <3>1 DEF MemoryEntry
  <2>2. e.base + e.length <= Entry(mem, j).base
    BY <1>2, <1>11
  <2> QED BY <1>2, <1>4, <1>5, <1>9, <2>1, <2>2
<1>12. Covers(rs[k], e, 256, z)
  BY <1>6, <1>8
<1> QED
  BY <1>2, <1>4, <1>5, <1>7, <1>9, <1>10, <1>11, <1>12 DEF e, room, size

\* Every region covers its entry.
LEMMA RegionCovers ==
    ASSUME NEW mem, NEW kernel, NEW smp, NEW rs, Settled(rs, mem, kernel, smp),
           NEW i \in 1 .. Len(rs)
    PROVE  \E f \in Nat, z \in Int : Covers(rs[i], Entry(mem, i), f, z)
<1>1. PICK f, z : Covers(rs[i], Entry(mem, i), f, z)
  BY SettledIs
<1>2. f \in Nat /\ z \in Int
  BY <1>1 DEF Covers
<1> QED
  BY <1>1, <1>2

\* No page of a region behind another one begins in front of its end.
LEMMA PagesBehind ==
    ASSUME NEW mem, NEW kernel, NEW smp, NEW rs, NEW k, Sound(mem, kernel, smp, rs, k),
           NEW i, NEW f, NEW z, RegionAt(mem, rs, i, f, z)
    PROVE  /\ rs[i].total_blocks \in Nat /\ rs[i].first = 4096 * f
           /\ Entry(mem, i) \in MemoryEntry
           /\ Entry(mem, i).base \in Nat /\ Entry(mem, i).length \in Nat
           /\ Entry(mem, i).base <= 4096 * f /\ 4096 * f < Entry(mem, i).base + 4096
           /\ 4096 * (f + rs[i].total_blocks)
                 < Entry(mem, i).base + Entry(mem, i).length + 4096
           /\ Entry(mem, i).base + Entry(mem, i).length
                 < 4096 * (f + rs[i].total_blocks) + 4096
           /\ f + rs[i].total_blocks <= z + 1
           /\ \A j \in 1 .. Len(rs) : j < i =>
                 /\ Entry(mem, j).base + Entry(mem, j).length <= Entry(mem, i).base
                 /\ Entry(mem, i).base >= 4096 * 256
           /\ \A j \in 1 .. Len(rs) : i < j =>
                 Entry(mem, i).base + Entry(mem, i).length <= Entry(mem, j).base
<1>0. i \in 1 .. Len(rs) /\ f \in Nat /\ z \in Int
  BY DEF RegionAt
<1> DEFINE r == rs[i]
           e == Entry(mem, i)
<1>1. /\ Settled(rs, mem, kernel, smp) /\ InOrder(mem, kernel, rs, k)
      /\ kernel.start = 4096 * 256
  BY DEF Sound
<1>2. e \in MemoryEntry
  BY <1>0, <1>1, SettledIs
<1>3. e.base \in Nat /\ e.length \in Nat
  BY <1>2 DEF MemoryEntry
<1>4. Covers(r, e, f, z)
  BY DEF RegionAt
<1>5. /\ r.total_blocks \in Nat /\ r.first = 4096 * f
      /\ e.base <= 4096 * f /\ 4096 * f < e.base + 4096
  BY <1>4 DEF Covers
<1>6. /\ \A j \in 1 .. Len(rs) : j < i =>
            /\ Entry(mem, j).base + Entry(mem, j).length <= e.base
            /\ e.base >= 4096 * 256
      /\ \A j \in 1 .. Len(rs) : i < j => e.base + e.length <= Entry(mem, j).base
  BY <1>0, <1>1 DEF InOrder
<1> HIDE DEF r, e
<1>7. /\ f + r.total_blocks <= z + 1
      /\ 4096 * (f + r.total_blocks) < e.base + e.length + 4096
      /\ e.base + e.length < 4096 * (f + r.total_blocks) + 4096
  BY <1>0, <1>2, <1>4, FramesEnd
<1> QED
  BY <1>2, <1>3, <1>5, <1>6, <1>7 DEF r, e

\* What is wanted, by name.
LEMMA WantedAre ==
    ASSUME NEW mem, NEW kernel, NEW smp, NEW rs, NEW q
    PROVE  q \in Wanted(mem, kernel, smp, rs) <=>
              \/ q \in {Reserved(0, 1023), Reserved(1024, 255), Reserved(524288, 131071)}
              \/ q = Reserved(kernel.start, kernel.end - kernel.start)
              \/ smp /\ q = Reserved(4096, 8192)
              \/ \E i \in 1 .. Len(rs) : q = Reserved(rs[i].bitmap, rs[i].bitmap_size)
              \/ \E e \in ToSet(mem) : /\ e.type = "reclaimable"
                                       /\ q = Reserved(e.base, e.length)
<1> DEFINE low == {Reserved(0, 1023), Reserved(1024, 255), Reserved(524288, 131071)}
           own == Reserved(kernel.start, kernel.end - kernel.start)
           code == Reserved(4096, 8192)
           maps == {Reserved(rs[i].bitmap, rs[i].bitmap_size) : i \in 1 .. Len(rs)}
           back == {Reserved(e.base, e.length) : e \in {e \in ToSet(mem) : e.type = "reclaimable"}}
<1>1. Wanted(mem, kernel, smp, rs)
      = (low \union {own}) \union (IF smp THEN {code} ELSE {}) \union maps \union back
  BY SMT DEF Wanted
<1>2. q \in maps <=> \E i \in 1 .. Len(rs) : q = Reserved(rs[i].bitmap, rs[i].bitmap_size)
  BY SMT
<1>3. q \in back <=> \E e \in ToSet(mem) : /\ e.type = "reclaimable"
                                           /\ q = Reserved(e.base, e.length)
  BY SMT
<1> HIDE DEF low, own, code, maps, back
<1>4. q \in Wanted(mem, kernel, smp, rs) <=>
        q \in low \/ q = own \/ (smp /\ q = code) \/ q \in maps \/ q \in back
  BY SMT, <1>1
<1> QED
  BY SMT, <1>2, <1>3, <1>4 DEF low, own, code

LEMMA RequestIs ==
    ASSUME NEW a, NEW b
    PROVE  Reserved(a, b).start = a /\ Reserved(a, b).size = b
BY DEF Reserved

\* The pages below the kernel that are asked for.
LEMMA LowPage ==
    ASSUME NEW mem, NEW kernel, NEW smp, NEW rs, NEW k, Sound(mem, kernel, smp, rs, k),
           NEW i, NEW f, NEW z, NEW p, PageOf(mem, rs, i, f, z, p),
           NEW s \in Nat, NEW size \in Nat,
           Reserved(4096 * s, size) \in Wanted(mem, kernel, smp, rs),
           s <= p, p < 256,
           p = s \/ 4096 * p + 4096 <= 4096 * s + size
    PROVE  p - f \in rs[i].bits
<1>0. /\ i \in 1 .. Len(rs) /\ f \in Nat /\ z \in Int /\ Covers(rs[i], Entry(mem, i), f, z)
      /\ p \in Int /\ f <= p /\ p < f + rs[i].total_blocks
  BY DEF PageOf, RegionAt
<1>20. /\ rs[i].total_blocks \in Nat /\ Entry(mem, i).base \in Nat
       /\ Entry(mem, i).length \in Nat /\ Entry(mem, i).base <= 4096 * f
       /\ 4096 * (f + rs[i].total_blocks)
             < Entry(mem, i).base + Entry(mem, i).length + 4096
       /\ \A j \in 1 .. Len(rs) : j < i =>
             /\ Entry(mem, j).base + Entry(mem, j).length <= Entry(mem, i).base
             /\ Entry(mem, i).base >= 4096 * 256
       /\ \A j \in 1 .. Len(rs) : i < j =>
             Entry(mem, i).base + Entry(mem, i).length <= Entry(mem, j).base
  BY PagesBehind DEF PageOf
<1> DEFINE q == Reserved(4096 * s, size)
<1>1. q.start = 4096 * s /\ q.size = size /\ q \in Wanted(mem, kernel, smp, rs)
  BY RequestIs
<1> HIDE DEF q
<1>2. ASSUME NEW j \in 1 .. Len(rs), j < i PROVE FALSE
  <2>1. Entry(mem, i).base >= 4096 * 256 /\ Entry(mem, i).base \in Nat
        /\ Entry(mem, i).base <= 4096 * f
    BY <1>2, <1>20
  <2> QED BY <1>0, <2>1
<1>3. Settled(rs, mem, kernel, smp)
  BY SMT DEF Sound
<1>4. \A j \in 1 .. Len(rs) : j < i => Entry(mem, j).base + Entry(mem, j).length <= q.start
  BY <1>2
<1>5. Reaches(q, s, p) /\ NoneBefore(mem, rs, i, q.start)
  BY <1>1, <1>4 DEF Reaches, NoneBefore
<1> QED
  BY <1>1, <1>3, <1>5, PageReserved

\* A page of a region that lies in an entry is a page of the region of that.
LEMMA SameEntry ==
    ASSUME NEW mem, NEW kernel, NEW smp, NEW rs, NEW k, Sound(mem, kernel, smp, rs, k),
           NEW i, NEW f, NEW z, NEW p, PageOf(mem, rs, i, f, z, p),
           NEW h \in 1 .. Len(rs), NEW s \in Nat, Entry(mem, h).base = 4096 * s, s <= p,
           4096 * p + 4096 <= Entry(mem, h).base + Entry(mem, h).length
    PROVE  i = h
<1> DEFINE n == rs[i].total_blocks
           from == Entry(mem, i).base
           length == Entry(mem, i).length
           start == Entry(mem, h).base
           end == start + Entry(mem, h).length
<1>1. RegionAt(mem, rs, i, f, z) /\ i \in 1 .. Len(rs)
  BY DEF PageOf, RegionAt
<1>2. f \in Nat /\ p \in Int /\ f <= p /\ p < f + n
  BY DEF PageOf, RegionAt
<1>3. /\ n \in Nat /\ from \in Nat /\ length \in Nat
      /\ from <= 4096 * f /\ 4096 * (f + n) < from + length + 4096
  BY <1>1, PagesBehind
<1>4. start = 4096 * s /\ 4096 * p + 4096 <= end
  OBVIOUS
<1>5. end \in Nat
  <2>1. Entry(mem, h) \in MemoryEntry
    BY SettledIs DEF Sound
  <2> QED BY <2>1 DEF MemoryEntry
<1>6. h < i => end <= from
  BY <1>1, PagesBehind
<1>7. i < h => from + length <= start
  BY <1>1, PagesBehind
<1>8. i \in Int /\ h \in Int
  <2>1. Len(rs) \in Nat
    BY SettledIs DEF Sound
  <2> QED BY <1>1, <2>1
<1> HIDE DEF n, from, length, start, end
<1>9. ~(end <= from)
  BY <1>2, <1>3, <1>4, <1>5
<1>10. ~(from + length <= start)
  BY <1>2, <1>3, <1>4
<1> QED
  BY <1>6, <1>7, <1>8, <1>9, <1>10

\* The pages of the kernel.
LEMMA KernelPage ==
    ASSUME NEW mem, NEW kernel, NEW smp, NEW rs, NEW k, Sound(mem, kernel, smp, rs, k),
           NEW i, NEW f, NEW z, NEW p, PageOf(mem, rs, i, f, z, p),
           kernel.start <= 4096 * p, 4096 * p + 4096 <= kernel.end
    PROVE  p - f \in rs[i].bits
<1> DEFINE q == Reserved(kernel.start, kernel.end - kernel.start)
           end == Entry(mem, k).base + Entry(mem, k).length
<1>1. /\ kernel.start = 4096 * 256 /\ Settled(rs, mem, kernel, smp)
      /\ k \in 1 .. Len(rs) /\ kernel.end \in Nat /\ Entry(mem, k).base = 4096 * 256
  BY KernelRegion DEF Sound
<1>2. p \in Int /\ 256 <= p
  <2>1. p \in Int
    BY DEF PageOf
  <2> QED BY <1>1, <2>1
<1>3. 4096 * p + 4096 <= end
  <2>1. /\ RoundUp(kernel.end) + AllBitmapsSize(rs) + 4096 <= end
        /\ RoundUp(kernel.end) \in Nat /\ kernel.end <= RoundUp(kernel.end)
        /\ AllBitmapsSize(rs) \in Nat
    BY KernelRegion
  <2>2. end \in Nat
    <3>1. Entry(mem, k) \in MemoryEntry
      BY KernelRegion
    <3> QED BY <3>1 DEF MemoryEntry
  <2> HIDE DEF end
  <2> QED BY <1>1, <1>2, <2>1, <2>2
<1>4. i = k
  <2>1. \A s \in Nat : Entry(mem, k).base = 4096 * s /\ s <= p => i = k
    BY <1>1, <1>3, SameEntry
  <2> QED BY <1>1, <1>2, <2>1
<1>5. q.start = 4096 * 256 /\ q.size = kernel.end - kernel.start
  BY <1>1, RequestIs
<1>6. q \in Wanted(mem, kernel, smp, rs)
  BY WantedAre
<1> HIDE DEF q
<1>7. \A j \in 1 .. Len(rs) : j < i => Entry(mem, j).base + Entry(mem, j).length <= q.start
  BY <1>1, <1>4, <1>5, KernelRegion
<1>8. Reaches(q, 256, p) /\ NoneBefore(mem, rs, i, q.start)
  BY <1>1, <1>2, <1>5, <1>7, SMT DEF Reaches, NoneBefore
<1> QED
  BY <1>1, <1>6, <1>8, PageReserved

\* What may be taken back is an entry of the pool, and whole pages.
LEMMA ReclaimableEntry ==
    ASSUME NEW mem, NEW kernel, NEW smp, NEW rs, NEW k, Sound(mem, kernel, smp, rs, k),
           NEW e \in ToSet(mem), e.type = "reclaimable"
    PROVE  \E h \in 1 .. Len(rs), s \in Nat :
              /\ Entry(mem, h) = e /\ e.base = 4096 * s /\ e.length >= 4096
              /\ e.base \in Nat /\ e.length \in Nat
<1>1. /\ mem \in Seq(MemoryEntry) /\ Settled(rs, mem, kernel, smp)
      /\ InOrder(mem, kernel, rs, k) /\ Len(rs) = Len(OfType(mem, Pool))
  BY SettledIs DEF Sound
<1>2. PICK h \in 1 .. Len(rs) : Entry(mem, h) = e
  <2>1. e \in {d \in ToSet(mem) : d.type \in Pool}
    BY DEF Pool
  <2>2. e \in ToSet(OfType(mem, Pool))
    BY <1>1, <2>1, OfTypeRange
  <2>3. OfType(mem, Pool) \in Seq(MemoryEntry)
    BY <1>1, OfTypeIs
  <2>4. DOMAIN OfType(mem, Pool) = 1 .. Len(OfType(mem, Pool))
    BY <2>3
  <2> QED BY <1>1, <2>2, <2>4 DEF ToSet, Entry
<1>3. e.base \in Nat /\ e.length \in Nat /\ e.base % 4096 = 0 /\ e.length >= 4096
  <2>1. e \in MemoryEntry
    BY <1>1, <1>2, SettledIs
  <2> QED BY <1>1, <1>2, <2>1 DEF InOrder, MemoryEntry
<1>4. PICK s \in Nat : e.base = 4096 * s
  <2>1. e.base \div 4096 \in Nat /\ e.base = 4096 * (e.base \div 4096)
    BY <1>3
  <2> QED BY <2>1
<1> QED
  BY <1>2, <1>3, <1>4

\* The pages of an entry that may be taken back.
LEMMA ReclaimablePage ==
    ASSUME NEW mem, NEW kernel, NEW smp, NEW rs, NEW k, Sound(mem, kernel, smp, rs, k),
           NEW i, NEW f, NEW z, NEW p, PageOf(mem, rs, i, f, z, p),
           NEW e \in ToSet(mem), e.type = "reclaimable",
           e.base <= 4096 * p, 4096 * p + 4096 <= e.base + e.length
    PROVE  p - f \in rs[i].bits
<1>0. /\ i \in 1 .. Len(rs) /\ f \in Nat /\ z \in Int /\ Covers(rs[i], Entry(mem, i), f, z)
      /\ p \in Int /\ f <= p /\ p < f + rs[i].total_blocks
  BY DEF PageOf, RegionAt
<1> DEFINE q == Reserved(e.base, e.length)
<1>1. Settled(rs, mem, kernel, smp)
  BY DEF Sound
<1>2. PICK h \in 1 .. Len(rs), s \in Nat :
            /\ Entry(mem, h) = e /\ e.base = 4096 * s /\ e.length >= 4096
            /\ e.base \in Nat /\ e.length \in Nat
  BY ReclaimableEntry
<1>5. q.start = 4096 * s /\ q.size = e.length
  BY <1>2, RequestIs
<1>6. q \in Wanted(mem, kernel, smp, rs)
  BY WantedAre
<1> HIDE DEF q
<1>7. s <= p
  BY <1>0, <1>2
<1>8. i = h
  BY <1>2, <1>7, SameEntry
<1>9. RegionAt(mem, rs, i, f, z) /\ Entry(mem, i).base = q.start
  BY <1>2, <1>5, <1>8 DEF PageOf
<1>10. \A j \in 1 .. Len(rs) : j < i => Entry(mem, j).base + Entry(mem, j).length <= q.start
  BY <1>9, PagesBehind
<1>11. s <= p /\ q.size \in Int /\ 4096 * p + 4096 <= q.start + q.size
  BY <1>0, <1>2, <1>5
<1>12. Reaches(q, s, p) /\ NoneBefore(mem, rs, i, q.start)
  BY <1>5, <1>10, <1>11 DEF Reaches, NoneBefore
<1> QED
  BY <1>1, <1>6, <1>12, PageReserved

\* The frames of a bitmap that are asked for lie in the kernel's region.
LEMMA BitmapPage ==
    ASSUME NEW mem, NEW kernel, NEW smp, NEW rs, NEW k, Sound(mem, kernel, smp, rs, k),
           NEW i, NEW f, NEW z, NEW p, PageOf(mem, rs, i, f, z, p),
           NEW j \in 1 .. Len(rs), NEW s \in Int, rs[j].bitmap \div 4096 = s, s <= p,
           p = s \/ p < s + rs[j].bitmap_size \div 4096
    PROVE  p - f \in rs[i].bits
<1> DEFINE q == Reserved(rs[j].bitmap, rs[j].bitmap_size)
           a == rs[j].bitmap
           size == rs[j].bitmap_size
           room == RoundUp(kernel.end) + AllBitmapsSize(rs)
           end == Entry(mem, k).base + Entry(mem, k).length
           c == Blocks(q)
<1>1. /\ Settled(rs, mem, kernel, smp) /\ k \in 1 .. Len(rs) /\ Entry(mem, k).base = 4096 * 256
      /\ RoundUp(kernel.end) \in Nat /\ AllBitmapsSize(rs) \in Nat
      /\ kernel.start = 4096 * 256 /\ kernel.start < kernel.end /\ kernel.end \in Nat
      /\ kernel.end <= RoundUp(kernel.end)
  BY KernelRegion DEF Sound
<1>2. a \in Nat /\ size \in Nat /\ RoundUp(kernel.end) <= a /\ a + size <= room
  BY <1>1, BitmapsLaid
<1>3. room \in Nat /\ room + 4096 <= end /\ end \in Nat
  <2>1. Entry(mem, k) \in MemoryEntry
    BY KernelRegion
  <2>2. end \in Nat
    BY <2>1 DEF MemoryEntry
  <2>3. room \in Nat
    BY <1>1
  <2>4. room + 4096 <= end
    <3> HIDE DEF a, size, q, c
    <3> QED BY KernelRegion
  <2> QED BY <2>2, <2>3, <2>4
<1>4. PICK y \in Int : Covers(rs[k], Entry(mem, k), 256, y) /\ room <= 4096 * y
  BY KernelRegion
<1>5. q.start = a /\ q.size = size
  BY RequestIs
<1>6. q \in Wanted(mem, kernel, smp, rs)
  BY WantedAre
<1>7. p \in Int
  BY DEF PageOf
<1>8. 4096 * 256 <= a
  BY <1>1, <1>2
<1>9. /\ c \in Nat /\ c >= 1
      /\ size >= 4096 => 4096 * c <= size /\ size < 4096 * c + 4096
      /\ size < 4096 => c = 1
  BY <1>2, <1>5, BlocksAre
<1>10. a \div 4096 = s /\ (p = s \/ p < s + size \div 4096)
  OBVIOUS
<1>11. \A g \in Nat : /\ g \div 4096 \in Nat /\ 4096 * (g \div 4096) <= g
                      /\ g < 4096 * (g \div 4096) + 4096
  OBVIOUS
<1>12. \A h \in 1 .. Len(rs) : h < k =>
          /\ Entry(mem, h).base + Entry(mem, h).length <= 4096 * 256
          /\ Entry(mem, h).base + Entry(mem, h).length \in Nat
  <2>1. \A h \in 1 .. Len(rs) : h < k =>
            Entry(mem, h).base + Entry(mem, h).length <= 4096 * 256
    BY KernelRegion
  <2>2. \A h \in 1 .. Len(rs) : Entry(mem, h) \in MemoryEntry
    BY <1>1, SettledIs
  <2>3. \A e \in MemoryEntry : e.base + e.length \in Nat
    BY DEF MemoryEntry
  <2> QED BY <2>1, <2>2, <2>3
<1>13. PICK d \in Nat : /\ size \div 4096 = d /\ 4096 * d <= size /\ size < 4096 * d + 4096
  <2>1. size \in Nat
    BY <1>2
  <2> HIDE DEF size
  <2>2. /\ size \div 4096 \in Nat /\ 4096 * (size \div 4096) <= size
        /\ size < 4096 * (size \div 4096) + 4096
    BY <2>1, <1>11
  <2> QED BY <2>2
<1>14. 4096 * s <= a /\ a < 4096 * s + 4096
  BY <1>2, <1>10, <1>11
<1>15. Home(rs, q) = k
  <2>1. a \in Int /\ a <= 4096 * y
    <3> HIDE DEF a, size, room
    <3> QED BY <1>2, <1>3, <1>4
  <2>2. \A h \in 1 .. Len(rs) : h < k => Entry(mem, h).base + Entry(mem, h).length <= a
    <3> HIDE DEF a
    <3> QED BY <1>2, <1>8, <1>12
  <2> HIDE DEF a
  <2>3. addr_to_bitmap(rs, a) = k
    <3>1. Covers(rs[k], Entry(mem, k), 256, y) /\ 256 \in Nat
      BY <1>4
    <3> QED BY <1>1, <2>1, <2>2, <3>1, Lands
  <2> QED BY <1>5, <2>3 DEF Home
<1> HIDE DEF q, a, size, room, end, c
<1>16. 256 <= s
  BY <1>2, <1>8, <1>14
<1>17. p < s + c /\ s <= p /\ 4096 * p + 4096 <= end
  <2>1. CASE p = s
    BY <1>2, <1>3, <1>7, <1>9, <1>14, <2>1
  <2>2. CASE p # s
    <3>1. p < s + d
      BY <1>10, <1>13, <2>2
    <3>2. d <= c
      BY <1>2, <1>9, <1>13, <3>1, <1>7
    <3>3. 4096 * p + 4096 <= 4096 * s + 4096 * d
      BY <1>7, <3>1
    <3> QED BY <1>2, <1>3, <1>7, <1>9, <1>13, <1>14, <3>1, <3>2, <3>3
  <2> QED BY <2>1, <2>2
<1>18. i = k
  <2>1. \A t \in Nat : Entry(mem, k).base = 4096 * t /\ t <= p => i = k
    BY <1>1, <1>17, SameEntry DEF end
  <2>2. 256 \in Nat /\ 256 <= p
    BY <1>7, <1>16, <1>17
  <2> QED BY <1>1, <2>1, <2>2
<1>19. rs[i].first = 4096 * f /\ f \in Int
  BY DEF PageOf, RegionAt, Covers
<1>20. BitsOf(rs, q) = s - f .. (s - f) + c - 1
  <2>1. q.start \div 4096 = s /\ Home(rs, q) = i
    BY <1>5, <1>10, <1>15, <1>18
  <2>2. BitsOf(rs, q) = s - f .. (s - f) + Blocks(q) - 1
    BY <1>19, <2>1, BitsFrom
  <2> QED BY <2>2 DEF c
<1>21. p - f \in BitsOf(rs, q)
  <2> DEFINE bits == BitsOf(rs, q)
  <2>1. bits = s - f .. (s - f) + c - 1
    BY <1>20
  <2> HIDE DEF bits
  <2>2. p - f \in bits
    BY <1>7, <1>9, <1>17, <1>19, <2>1
  <2> QED BY <2>2 DEF bits
<1>22. BitsOf(rs, q) \subseteq rs[Home(rs, q)].bits
  BY <1>1, <1>6 DEF Settled
<1> QED
  BY <1>15, <1>18, <1>21, <1>22

\* What is in use is reserved, if each of its pages is.
LEMMA ByPage ==
    ASSUME NEW mem, NEW kernel, NEW smp, NEW rs, NEW k, Sound(mem, kernel, smp, rs, k),
           NEW i \in 1 .. Len(rs), NEW from \in Nat, NEW to \in Nat,
           \A f, z, p : PageOf(mem, rs, i, f, z, p) /\ from <= 4096 * p
                        /\ 4096 * p + 4096 <= to => p - f \in rs[i].bits
    PROVE  WholeFramesReserved(rs[i], from, to)
<1>1. PICK f \in Nat, z \in Int : Covers(rs[i], Entry(mem, i), f, z)
  BY RegionCovers DEF Sound
<1>2. RegionAt(mem, rs, i, f, z)
  BY <1>1 DEF RegionAt
<1> DEFINE r == rs[i]
<1>3. r.first = 4096 * f /\ r.total_blocks \in Nat
  BY <1>1 DEF Covers
<1>4. ASSUME NEW p \in Int, from <= 4096 * p, 4096 * p + 4096 <= to,
             f <= p, p < f + r.total_blocks
      PROVE  p - f \in r.bits
  <2>1. PageOf(mem, rs, i, f, z, p)
    BY <1>2, <1>4 DEF PageOf
  <2> QED BY <1>4, <2>1
<1> HIDE DEF r
<1>5. WholeFramesReserved(r, from, to)
  BY <1>3, <1>4, FramesByPage
<1> QED
  BY <1>5 DEF r

\* The low memory that is in use.
LEMMA LowReserved ==
    ASSUME NEW mem, NEW kernel, NEW smp, NEW rs, NEW k, Sound(mem, kernel, smp, rs, k),
           NEW i \in 1 .. Len(rs)
    PROVE  /\ WholeFramesReserved(rs[i], 0, IF smp THEN 12288 ELSE 4096)
           /\ WholeFramesReserved(rs[i], 524288, 651264)
<1> DEFINE to == IF smp THEN 12288 ELSE 4096
<1>1. ASSUME NEW f, NEW z, NEW p, PageOf(mem, rs, i, f, z, p), 0 <= 4096 * p,
             4096 * p + 4096 <= to
      PROVE  p - f \in rs[i].bits
  <2>1. p \in Int
    BY <1>1 DEF PageOf
  <2>2. CASE p = 0
    <3>1. Reserved(4096 * 0, 1023) \in Wanted(mem, kernel, smp, rs)
      BY SMT, WantedAre
    <3>2. 0 <= p /\ p < 256 /\ 0 \in Nat /\ 1023 \in Nat
      BY <2>2
    <3> QED BY <1>1, <2>2, <3>1, <3>2, LowPage
  <2>3. CASE p # 0
    <3>1. smp /\ p \in {1, 2}
      <4>1. smp
        BY <1>1, <2>1, <2>3
      <4> QED BY <1>1, <2>1, <2>3, <4>1
    <3>2. Reserved(4096 * 1, 8192) \in Wanted(mem, kernel, smp, rs)
      <4> DEFINE low == {Reserved(0, 1023), Reserved(1024, 255), Reserved(524288, 131071),
                         Reserved(kernel.start, kernel.end - kernel.start)}
                 code == Reserved(4096, 8192)
                 maps == {Reserved(rs[j].bitmap, rs[j].bitmap_size) : j \in 1 .. Len(rs)}
                 back == {Reserved(e.base, e.length) :
                             e \in {e \in ToSet(mem) : e.type = "reclaimable"}}
      <4>1. Wanted(mem, kernel, smp, rs) = low \union {code} \union maps \union back
        BY <3>1, SMT DEF Wanted
      <4>2. code = Reserved(4096 * 1, 8192)
        OBVIOUS
      <4> HIDE DEF low, code, maps, back
      <4>3. code \in Wanted(mem, kernel, smp, rs)
        BY <4>1
      <4> QED BY <4>2, <4>3
    <3>3. 1 <= p /\ p < 256 /\ 1 \in Nat /\ 8192 \in Nat /\ 4096 * p + 4096 <= 4096 * 1 + 8192
      BY <3>1
    <3> QED BY <1>1, <3>2, <3>3, LowPage
  <2> QED BY <2>2, <2>3
<1>2. WholeFramesReserved(rs[i], 0, to)
  <2> DEFINE a == 0
  <2>1. a \in Nat /\ to \in Nat
    OBVIOUS
  <2>2. \A f, z, p : PageOf(mem, rs, i, f, z, p) /\ a <= 4096 * p
                     /\ 4096 * p + 4096 <= to => p - f \in rs[i].bits
    BY <1>1
  <2> HIDE DEF a, to
  <2>3. WholeFramesReserved(rs[i], a, to)
    BY <2>1, <2>2, ByPage
  <2> QED BY <2>3 DEF a
<1>3. ASSUME NEW f, NEW z, NEW p, PageOf(mem, rs, i, f, z, p), 524288 <= 4096 * p,
             4096 * p + 4096 <= 651264
      PROVE  p - f \in rs[i].bits
  <2>1. p \in Int
    BY <1>3, SMT DEF PageOf
  <2>2. Reserved(4096 * 128, 131071) \in Wanted(mem, kernel, smp, rs)
    BY SMT, WantedAre
  <2>3. /\ 128 <= p /\ p < 256 /\ 128 \in Nat /\ 131071 \in Nat
        /\ 4096 * p + 4096 <= 4096 * 128 + 131071
    BY <1>3, <2>1, SMT
  <2> QED BY <1>3, <2>2, <2>3, LowPage, SMT
<1>4. WholeFramesReserved(rs[i], 524288, 651264)
  <2> DEFINE a == 524288
             b == 651264
  <2>1. a \in Nat /\ b \in Nat
    BY SMT
  <2>2. \A f, z, p : PageOf(mem, rs, i, f, z, p) /\ a <= 4096 * p
                     /\ 4096 * p + 4096 <= b => p - f \in rs[i].bits
    BY <1>3, SMT
  <2> HIDE DEF a, b
  <2>3. WholeFramesReserved(rs[i], a, b)
    BY <2>1, <2>2, ByPage
  <2> QED BY <2>3, SMT DEF a, b
<1> QED
  BY <1>2, <1>4, SMT

\* The kernel, and what only the firmware may give back.
LEMMA RestReserved ==
    ASSUME NEW mem, NEW kernel, NEW smp, NEW rs, NEW k, Sound(mem, kernel, smp, rs, k),
           NEW i \in 1 .. Len(rs)
    PROVE  /\ WholeFramesReserved(rs[i], kernel.start, kernel.end)
           /\ \A m \in ToSet(mem) : m.type = "reclaimable" =>
                 WholeFramesReserved(rs[i], m.base, m.base + m.length)
<1>1. mem \in Seq(MemoryEntry) /\ kernel \in [start : Nat, end : Nat]
  BY SettledIs DEF Sound
<1>2. WholeFramesReserved(rs[i], kernel.start, kernel.end)
  <2> DEFINE from == kernel.start
             to == kernel.end
  <2>1. from \in Nat /\ to \in Nat
    BY <1>1
  <2>2. \A f, z, p : PageOf(mem, rs, i, f, z, p) /\ from <= 4096 * p
                     /\ 4096 * p + 4096 <= to => p - f \in rs[i].bits
    BY KernelPage
  <2> HIDE DEF from, to
  <2>3. WholeFramesReserved(rs[i], from, to)
    BY <2>1, <2>2, ByPage
  <2> QED BY <2>3 DEF from, to
<1>3. ASSUME NEW m \in ToSet(mem), m.type = "reclaimable"
      PROVE  WholeFramesReserved(rs[i], m.base, m.base + m.length)
  <2> DEFINE from == m.base
             to == m.base + m.length
  <2>1. from \in Nat /\ to \in Nat
    <3>1. m \in MemoryEntry
      BY <1>1 DEF ToSet
    <3> QED BY <3>1 DEF MemoryEntry
  <2>2. \A f, z, p : PageOf(mem, rs, i, f, z, p) /\ from <= 4096 * p
                     /\ 4096 * p + 4096 <= to => p - f \in rs[i].bits
    BY <1>3, ReclaimablePage
  <2> HIDE DEF from, to
  <2>3. WholeFramesReserved(rs[i], from, to)
    BY <2>1, <2>2, ByPage
  <2> QED BY <2>3 DEF from, to
<1> QED
  BY <1>2, <1>3

\* The bitmaps, as far as their sizes have whole frames.
LEMMA BitmapReserved ==
    ASSUME NEW mem, NEW kernel, NEW smp, NEW rs, NEW k, Sound(mem, kernel, smp, rs, k),
           NEW i \in 1 .. Len(rs), NEW j \in 1 .. Len(rs)
    PROVE  LeadingFramesReserved(rs[i], rs[j].bitmap, rs[j].bitmap + rs[j].bitmap_size)
<1> DEFINE r == rs[i]
           a == rs[j].bitmap
           size == rs[j].bitmap_size
           s == a \div 4096
           d == size \div 4096
<1>1. PICK f \in Nat, z \in Int : Covers(rs[i], Entry(mem, i), f, z)
  BY RegionCovers DEF Sound
<1>2. RegionAt(mem, rs, i, f, z)
  BY <1>1 DEF RegionAt
<1>3. r.first = 4096 * f /\ r.total_blocks \in Nat
  BY <1>1 DEF Covers
<1>4. a \in Nat /\ size \in Nat
  BY BitmapsLaid DEF Sound
<1>5. s \in Int /\ d \in Int /\ (a + size) - a = size
  BY <1>4
<1>6. ASSUME NEW p \in Int, f <= p, p < f + r.total_blocks, s <= p, p = s \/ p < s + d
      PROVE  p - f \in r.bits
  <2>1. PageOf(mem, rs, i, f, z, p)
    BY <1>2, <1>6 DEF PageOf
  <2>2. rs[j].bitmap \div 4096 = s
    OBVIOUS
  <2> QED BY <1>5, <1>6, <2>1, <2>2, BitmapPage
<1>7. (RoundDown(a) - r.first) \div BLOCK_SIZE = s - f
  <2>1. RoundDown(a) = s * 4096
    BY DEF RoundDown, PAGE_SIZE
  <2> HIDE DEF r, a, s
  <2>2. s * 4096 - 4096 * f = 4096 * (s - f) /\ s - f \in Int
    BY <1>5
  <2> QED BY <1>3, <2>1, <2>2, PageNumber DEF BLOCK_SIZE, PAGE_SIZE
<1> HIDE DEF r, a, size, s
<1>8. ((a + size) - a) \div BLOCK_SIZE = d
  BY <1>5 DEF BLOCK_SIZE, PAGE_SIZE
<1> HIDE DEF d
<1>9. ASSUME NEW b \in {s - f} \union (s - f .. (s - f) + d - 1), b \in 0 .. r.total_blocks - 1
      PROVE  b \in r.bits
  <2> DEFINE p == b + f
  <2>1. /\ p \in Int /\ f <= p /\ p < f + r.total_blocks /\ p - f = b
        /\ s <= p /\ (p = s \/ p < s + d)
    BY <1>3, <1>5, <1>9
  <2> HIDE DEF p
  <2> QED BY <1>6, <2>1
<1>10. LeadingFramesReserved(r, a, a + size)
  BY <1>7, <1>8, <1>9 DEF LeadingFramesReserved
<1> QED
  BY <1>10 DEF r, a, size

\* A kernel that ends at a page, and bitmaps that fit in the next one: no
\* frame of theirs is left.
LEMMA WholeReserved ==
    ASSUME NEW mem, NEW kernel, NEW smp, NEW rs, NEW k, Sound(mem, kernel, smp, rs, k),
           kernel.end % 4096 = 0, AllBitmapsSize(rs) <= 4096,
           NEW i \in 1 .. Len(rs), NEW j \in 1 .. Len(rs),
           NEW b \in 0 .. rs[i].total_blocks - 1,
           \/ Holds(rs[i], b, kernel.start, kernel.end)
           \/ Holds(rs[i], b, rs[j].bitmap, rs[j].bitmap + rs[j].bitmap_size)
    PROVE  b \in rs[i].bits
<1>1. PICK f \in Nat, z \in Int : Covers(rs[i], Entry(mem, i), f, z)
  BY RegionCovers DEF Sound
<1>2. RegionAt(mem, rs, i, f, z)
  BY <1>1 DEF RegionAt
<1> DEFINE n == rs[i].total_blocks
           p == f + b
           a == rs[j].bitmap
           to == a + rs[j].bitmap_size
           end == kernel.end
           size == AllBitmapsSize(rs)
<1>3. rs[i].first = 4096 * f /\ n \in Nat
  BY <1>1 DEF Covers
<1>4. b \in Int /\ p \in Int /\ f <= p /\ p < f + n /\ p - f = b
  BY <1>3
<1>5. PageOf(mem, rs, i, f, z, p)
  BY <1>2, <1>4 DEF PageOf
<1>6. FrameStart(rs[i], b) = 4096 * p
  BY <1>3, <1>4 DEF FrameStart, BLOCK_SIZE, PAGE_SIZE
<1>7. \A from, upto : Holds(rs[i], b, from, upto) => 4096 * p < upto /\ from < 4096 * p + 4096
  BY <1>6 DEF Holds, BLOCK_SIZE, PAGE_SIZE
<1>8. kernel.start = 4096 * 256 /\ end \in Nat /\ size \in Nat /\ size <= 4096
  BY KernelRegion DEF Sound
<1>9. PICK e \in Nat : end = 4096 * e
  <2>1. end % 4096 = 0
    OBVIOUS
  <2> HIDE DEF end
  <2>2. end \div 4096 \in Nat /\ end = 4096 * (end \div 4096)
    BY <1>8, <2>1
  <2> QED BY <2>2
<1>10. CASE Holds(rs[i], b, kernel.start, kernel.end)
  <2>1. 4096 * p < end /\ 4096 * 256 < 4096 * p + 4096
    BY <1>7, <1>8, <1>10
  <2>2. kernel.start <= 4096 * p /\ 4096 * p + 4096 <= kernel.end
    <3> HIDE DEF p, end
    <3>1. 4096 * 256 <= 4096 * p /\ 4096 * p + 4096 <= end
      BY <1>4, <1>9, <2>1
    <3> QED BY <1>8, <3>1 DEF end
  <2>3. p - f \in rs[i].bits
    BY <1>5, <2>2, KernelPage
  <2> QED BY <1>4, <2>3
<1>11. CASE Holds(rs[i], b, rs[j].bitmap, rs[j].bitmap + rs[j].bitmap_size)
  <2>1. 4096 * p < to /\ a < 4096 * p + 4096
    BY <1>7, <1>11
  <2>2. a \in Nat /\ to \in Nat /\ RoundUp(end) <= a /\ to <= RoundUp(end) + size
    <3>1. /\ rs[j].bitmap \in Nat /\ rs[j].bitmap_size \in Nat
          /\ RoundUp(kernel.end) <= rs[j].bitmap
          /\ rs[j].bitmap + rs[j].bitmap_size <= RoundUp(kernel.end) + AllBitmapsSize(rs)
      BY BitmapsLaid DEF Sound
    <3> QED BY <3>1
  <2>3. RoundUp(end) = 4096 * e
    <3> HIDE DEF end
    <3> QED BY <1>9 DEF RoundUp, PAGE_SIZE
  <2>4. p = e /\ a \div 4096 = p
    <3> HIDE DEF p, a, to, end, size
    <3>1. 4096 * p < 4096 * e + 4096 /\ 4096 * e < 4096 * p + 4096
      BY <1>4, <1>8, <2>1, <2>2, <2>3
    <3>2. p = e
      BY <1>4, <3>1
    <3>3. 4096 * p <= a /\ a < 4096 * p + 4096
      BY <2>1, <2>2, <2>3, <3>2
    <3>4. a \div 4096 = p
      BY <1>4, <2>2, <3>3
    <3> QED BY <3>2, <3>4
  <2>5. p - f \in rs[i].bits
    BY <1>4, <1>5, <2>4, BitmapPage
  <2> QED BY <1>4, <2>5
<1> QED
  BY <1>10, <1>11

\* The bits of a request that ends in the region it begins in.
LEMMA Inside ==
    ASSUME NEW mem, NEW kernel, NEW smp, NEW rs, NEW k, Sound(mem, kernel, smp, rs, k),
           NEW i, NEW f, NEW z, RegionAt(mem, rs, i, f, z),
           NEW q, Home(rs, q) = i, NEW s \in Int, q.start \div 4096 = s, f <= s,
           s + Blocks(q) <= f + rs[i].total_blocks, Blocks(q) \in Nat,
           NEW b \in BitsOf(rs, q)
    PROVE  b \in 0 .. rs[i].total_blocks - 1
<1> DEFINE n == rs[i].total_blocks
           c == Blocks(q)
<1>1. f \in Nat /\ rs[i].first = 4096 * f /\ n \in Nat
  BY DEF RegionAt, Covers
<1>2. BitsOf(rs, q) = s - f .. (s - f) + c - 1
  BY <1>1, BitsFrom
<1>3. f <= s /\ s + c <= f + n /\ c \in Nat
  OBVIOUS
<1> HIDE DEF n, c
<1>4. b \in s - f .. (s - f) + c - 1
  BY <1>2
<1>5. b \in 0 .. n - 1
  BY <1>1, <1>3, <1>4
<1> QED
  BY <1>5 DEF n

\* The low requests are met in the first region, if that begins at 0.
LEMMA LowInside ==
    ASSUME NEW mem, NEW kernel, NEW smp, NEW rs, NEW k, Sound(mem, kernel, smp, rs, k),
           rs[1].first = 0, rs[1].total_blocks >= 159,
           NEW q, q.start \in Nat, q.start <= 4096 * 158, Blocks(q) \in Nat,
           q.start \div 4096 + Blocks(q) <= 159, NEW i, Home(rs, q) = i,
           NEW b \in BitsOf(rs, q)
    PROVE  b \in 0 .. rs[i].total_blocks - 1
<1> DEFINE n == rs[1].total_blocks
           a == q.start
           s == a \div 4096
           c == Blocks(q)
<1>1. /\ k \in 1 .. Len(rs) /\ Settled(rs, mem, kernel, smp) /\ Len(rs) \in Nat
      /\ \A j \in 1 .. Len(rs) : Entry(mem, j) \in MemoryEntry
  BY KernelRegion, SettledIs DEF Sound
<1>2. 1 \in 1 .. Len(rs)
  BY <1>1
<1>3. PICK f \in Nat, z \in Int : Covers(rs[1], Entry(mem, 1), f, z)
  BY <1>1, <1>2, RegionCovers
<1>4. RegionAt(mem, rs, 1, f, z)
  BY <1>2, <1>3 DEF RegionAt
<1>5. rs[1].first = 4096 * f /\ n \in Nat
  BY <1>3 DEF Covers
<1>6. f + n <= z + 1
  BY <1>4, PagesBehind
<1>7. n >= 159 /\ a \in Nat /\ a <= 4096 * 158 /\ c \in Nat /\ s + c <= 159
  OBVIOUS
<1>8. f = 0
  BY <1>5
<1>9. s \in Int /\ 0 <= s
  BY <1>7
<1> HIDE DEF n, a, s, c
<1>10. a <= 4096 * z /\ a \in Int
  BY <1>5, <1>6, <1>7, <1>8
<1>11. addr_to_bitmap(rs, a) = 1
  <2>1. \A j \in 1 .. Len(rs) : j < 1 => Entry(mem, j).base + Entry(mem, j).length <= a
    BY <1>1
  <2> QED BY <1>1, <1>2, <1>3, <1>10, <2>1, Lands
<1>12. i = 1
  BY <1>11 DEF Home, a
<1>13. f <= s /\ s + c <= f + n
  BY <1>5, <1>7, <1>8, <1>9
<1>14. /\ RegionAt(mem, rs, i, f, z) /\ q.start \div 4096 = s /\ c = Blocks(q)
       /\ n = rs[i].total_blocks
  BY <1>4, <1>12 DEF n, s, a, c
<1> QED
  BY <1>7, <1>9, <1>13, <1>14, Inside

\* The kernel and the bitmaps are met in the kernel's region.
LEMMA KernelInside ==
    ASSUME NEW mem, NEW kernel, NEW smp, NEW rs, NEW k, Sound(mem, kernel, smp, rs, k),
           NEW q, q.start \in Nat, q.size \in Nat, 4096 * 256 <= q.start,
           q.start + q.size <= RoundUp(kernel.end) + AllBitmapsSize(rs),
           NEW i, Home(rs, q) = i, NEW b \in BitsOf(rs, q)
    PROVE  b \in 0 .. rs[i].total_blocks - 1
<1> DEFINE n == rs[k].total_blocks
           a == q.start
           size == q.size
           s == a \div 4096
           c == Blocks(q)
           room == RoundUp(kernel.end) + AllBitmapsSize(rs)
           end == Entry(mem, k).base + Entry(mem, k).length
<1>1. /\ k \in 1 .. Len(rs) /\ Settled(rs, mem, kernel, smp) /\ Len(rs) \in Nat
  BY KernelRegion, SettledIs DEF Sound
<1>2. PICK z \in Int : Covers(rs[k], Entry(mem, k), 256, z) /\ room <= 4096 * z
  BY KernelRegion
<1>3. RegionAt(mem, rs, k, 256, z)
  BY <1>1, <1>2 DEF RegionAt
<1>4. room \in Nat /\ room + 4096 <= end
  BY KernelRegion
<1>5. n \in Nat /\ end < 4096 * (256 + n) + 4096 /\ end \in Nat
  BY <1>3, PagesBehind
<1>6. a \in Nat /\ size \in Nat /\ 4096 * 256 <= a /\ a + size <= room
  OBVIOUS
<1>7. /\ c \in Nat /\ c >= 1 /\ (size >= 4096 => 4096 * c <= size) /\ (size < 4096 => c = 1)
  BY BlocksAre
<1>8. s \in Nat /\ 4096 * s <= a /\ 256 <= s
  BY <1>6
<1>9. /\ \A j \in 1 .. Len(rs) : j < k =>
            Entry(mem, j).base + Entry(mem, j).length <= 4096 * 256
      /\ \A j \in 1 .. Len(rs) : j < k => Entry(mem, j).base + Entry(mem, j).length \in Nat
  <2>1. \A j \in 1 .. Len(rs) : j < k =>
            Entry(mem, j).base + Entry(mem, j).length <= 4096 * 256
    BY KernelRegion
  <2>2. \A j \in 1 .. Len(rs) : Entry(mem, j) \in MemoryEntry
    BY <1>1, SettledIs
  <2>3. \A e \in MemoryEntry : e.base + e.length \in Nat
    BY DEF MemoryEntry
  <2> QED BY <2>1, <2>2, <2>3
<1> HIDE DEF n, a, size, s, c, room, end
<1>10. a \in Int /\ a <= 4096 * z
  BY <1>2, <1>4, <1>6
<1>11. addr_to_bitmap(rs, a) = k
  <2>1. \A j \in 1 .. Len(rs) : j < k => Entry(mem, j).base + Entry(mem, j).length <= a
    BY <1>6, <1>9
  <2>2. Covers(rs[k], Entry(mem, k), 256, z) /\ 256 \in Nat
    BY <1>2
  <2> QED BY <1>1, <1>10, <2>1, <2>2, Lands
<1>12. i = k
  BY <1>11 DEF Home, a
<1>13. s + c <= 256 + n
  <2>1. CASE size >= 4096
    BY <1>4, <1>5, <1>6, <1>7, <1>8, <2>1
  <2>2. CASE size < 4096
    BY <1>4, <1>5, <1>6, <1>7, <1>8, <2>2
  <2> QED BY <1>6, <2>1, <2>2
<1>14. /\ RegionAt(mem, rs, i, 256, z) /\ q.start \div 4096 = s /\ c = Blocks(q)
       /\ n = rs[i].total_blocks /\ s \in Int
  BY <1>3, <1>8, <1>12 DEF n, s, a, c
<1> QED
  BY <1>7, <1>8, <1>13, <1>14, Inside

\* What may be taken back is met in its own region.
LEMMA ReclaimableInside ==
    ASSUME NEW mem, NEW kernel, NEW smp, NEW rs, NEW k, Sound(mem, kernel, smp, rs, k),
           NEW e \in ToSet(mem), e.type = "reclaimable",
           NEW q, q.start = e.base, q.size = e.length,
           NEW i, Home(rs, q) = i, NEW b \in BitsOf(rs, q)
    PROVE  b \in 0 .. rs[i].total_blocks - 1
<1> DEFINE a == q.start
           size == q.size
           c == Blocks(q)
<1>1. PICK h \in 1 .. Len(rs), s \in Nat :
            /\ Entry(mem, h) = e /\ e.base = 4096 * s /\ e.length >= 4096
            /\ e.base \in Nat /\ e.length \in Nat
  BY ReclaimableEntry
<1> DEFINE n == rs[h].total_blocks
<1>2. Settled(rs, mem, kernel, smp)
  BY DEF Sound
<1>3. PICK f \in Nat, z \in Int : Covers(rs[h], Entry(mem, h), f, z)
  BY <1>2, RegionCovers
<1>4. RegionAt(mem, rs, h, f, z)
  BY <1>3 DEF RegionAt
<1>5. /\ a = 4096 * s /\ a <= 4096 * f /\ 4096 * f < a + 4096 /\ n \in Nat
      /\ f + n <= z + 1 /\ a + size < 4096 * (f + n) + 4096
  <2> DEFINE base == Entry(mem, h).base
             length == Entry(mem, h).length
  <2>1. /\ base <= 4096 * f /\ 4096 * f < base + 4096 /\ n \in Nat
        /\ f + n <= z + 1 /\ base + length < 4096 * (f + n) + 4096
    BY <1>4, PagesBehind
  <2>2. a = base /\ size = length /\ a = 4096 * s
    BY <1>1
  <2> HIDE DEF a, size, n, base, length
  <2> QED BY <2>1, <2>2
<1>6. a \in Nat /\ size \in Nat /\ size >= 4096 /\ a \div 4096 = s
  <2>1. a = 4096 * s
    BY <1>5
  <2>2. (4096 * s) \div 4096 = s
    BY PageNumber
  <2> QED BY <1>1, <2>1, <2>2
<1>7. c \in Nat /\ 4096 * c <= size
  BY <1>6, BlocksAre
<1>8. \A j \in 1 .. Len(rs) : j < h => Entry(mem, j).base + Entry(mem, j).length <= a
  <2>1. \A j \in 1 .. Len(rs) : j < h =>
           Entry(mem, j).base + Entry(mem, j).length <= Entry(mem, h).base
    BY <1>4, PagesBehind
  <2> QED BY <1>1, <2>1
<1> HIDE DEF n, a, size, c
<1>9. f = s
  BY <1>5
<1>10. s + c <= f + n
  BY <1>5, <1>6, <1>7, <1>9
<1>11. a \in Int /\ a <= 4096 * z
  BY <1>5, <1>6, <1>7, <1>9
<1>12. addr_to_bitmap(rs, a) = h
  BY <1>2, <1>3, <1>8, <1>11, Lands
<1>13. i = h
  BY <1>12 DEF Home, a
<1>14. /\ RegionAt(mem, rs, i, f, z) /\ q.start \div 4096 = s /\ c = Blocks(q)
       /\ n = rs[i].total_blocks /\ s \in Int /\ f <= s
  BY <1>4, <1>6, <1>9, <1>13 DEF n, a, c
<1> QED
  BY <1>7, <1>10, <1>14, Inside

-----------------------------------------------------------------------------
(* What the frame allocator and the heap are given *)

\* Every bit that is set belongs to a frame, given low memory.
LEMMA BitsInside ==
    ASSUME NEW mem, NEW kernel, NEW smp, NEW rs, NEW k, Sound(mem, kernel, smp, rs, k),
           rs[1].first = 0, rs[1].total_blocks >= 159,
           NEW i \in 1 .. Len(rs), NEW b \in rs[i].bits
    PROVE  b \in 0 .. rs[i].total_blocks - 1
<1>1. Settled(rs, mem, kernel, smp)
  BY DEF Sound
<1>2. PICK q \in Wanted(mem, kernel, smp, rs) : Home(rs, q) = i /\ b \in BitsOf(rs, q)
  BY <1>1 DEF Settled
<1>3. \A a, size : q = Reserved(a, size) => q.start = a /\ q.size = size
  BY RequestIs
<1>4. ASSUME q.start \in Nat, q.start <= 4096 * 158, Blocks(q) \in Nat,
             q.start \div 4096 + Blocks(q) <= 159
      PROVE  b \in 0 .. rs[i].total_blocks - 1
  BY <1>2, <1>4, LowInside
<1>5. CASE q = Reserved(0, 1023)
  <2>1. q.start = 0 /\ q.size = 1023
    BY <1>3, <1>5
  <2>2. Blocks(q) = 1
    BY <2>1 DEF Blocks, BLOCK_SIZE, PAGE_SIZE
  <2>3. /\ q.start \in Nat /\ q.start <= 4096 * 158 /\ Blocks(q) \in Nat
        /\ q.start \div 4096 + Blocks(q) <= 159
    BY <2>1, <2>2
  <2> QED BY <1>4, <2>3
<1>6. CASE q = Reserved(1024, 255)
  <2>1. q.start = 1024 /\ q.size = 255
    BY <1>3, <1>6
  <2>2. Blocks(q) = 1
    BY <2>1 DEF Blocks, BLOCK_SIZE, PAGE_SIZE
  <2>3. /\ q.start \in Nat /\ q.start <= 4096 * 158 /\ Blocks(q) \in Nat
        /\ q.start \div 4096 + Blocks(q) <= 159
    BY <2>1, <2>2
  <2> QED BY <1>4, <2>3
<1>7. CASE q = Reserved(524288, 131071)
  <2>1. q.start = 4096 * 128 /\ q.size = 131071
    BY <1>3, <1>7, SMT
  <2>2. Blocks(q) = 31
    BY <2>1, SMT DEF Blocks, BLOCK_SIZE, PAGE_SIZE
  <2>3. (4096 * 128) \div 4096 = 128
    BY PageNumber
  <2>4. /\ q.start \in Nat /\ q.start <= 4096 * 158 /\ Blocks(q) \in Nat
        /\ q.start \div 4096 + Blocks(q) <= 159
    BY <2>1, <2>2, <2>3, SMT
  <2> QED BY <1>4, <2>4, SMT
<1>8. CASE q = Reserved(4096, 8192)
  <2>1. q.start = 4096 /\ q.size = 8192
    BY <1>3, <1>8
  <2>2. Blocks(q) = 2
    BY <2>1 DEF Blocks, BLOCK_SIZE, PAGE_SIZE
  <2>3. /\ q.start \in Nat /\ q.start <= 4096 * 158 /\ Blocks(q) \in Nat
        /\ q.start \div 4096 + Blocks(q) <= 159
    BY <2>1, <2>2
  <2> QED BY <1>4, <2>3
<1> DEFINE room == RoundUp(kernel.end) + AllBitmapsSize(rs)
<1>9. /\ kernel.start = 4096 * 256 /\ kernel.start < kernel.end /\ kernel.end \in Nat
      /\ RoundUp(kernel.end) \in Nat /\ kernel.end <= RoundUp(kernel.end)
      /\ AllBitmapsSize(rs) \in Nat
  BY KernelRegion DEF Sound
<1>10. ASSUME q.start \in Nat, q.size \in Nat, 4096 * 256 <= q.start,
              q.start + q.size <= room
       PROVE  b \in 0 .. rs[i].total_blocks - 1
  BY <1>2, <1>10, KernelInside
<1>11. CASE q = Reserved(kernel.start, kernel.end - kernel.start)
  <2>1. q.start = kernel.start /\ q.size = kernel.end - kernel.start
    BY <1>3, <1>11
  <2>2. /\ q.start \in Nat /\ q.size \in Nat /\ 4096 * 256 <= q.start
        /\ q.start + q.size <= room
    BY <1>9, <2>1
  <2> QED BY <1>10, <2>2
<1>12. CASE \E j \in 1 .. Len(rs) : q = Reserved(rs[j].bitmap, rs[j].bitmap_size)
  <2>1. PICK j \in 1 .. Len(rs) : q = Reserved(rs[j].bitmap, rs[j].bitmap_size)
    BY <1>12
  <2>2. q.start = rs[j].bitmap /\ q.size = rs[j].bitmap_size
    BY <1>3, <2>1
  <2>3. /\ q.start \in Nat /\ q.size \in Nat /\ RoundUp(kernel.end) <= q.start
        /\ q.start + q.size <= room
    BY <1>1, <2>2, BitmapsLaid
  <2>4. 4096 * 256 <= q.start
    BY <1>9, <2>3
  <2> QED BY <1>10, <2>3, <2>4
<1>13. CASE \E e \in ToSet(mem) : e.type = "reclaimable" /\ q = Reserved(e.base, e.length)
  <2>1. PICK e \in ToSet(mem) : e.type = "reclaimable" /\ q = Reserved(e.base, e.length)
    BY <1>13
  <2>2. q.start = e.base /\ q.size = e.length
    BY <1>3, <2>1
  <2> QED BY <1>2, <2>1, <2>2, ReclaimableInside
<1> QED
  BY <1>5, <1>6, <1>7, <1>8, <1>11, <1>12, <1>13, WantedAre, SMT

\* The bitmaps lie behind the kernel, in the memory it is in.
LEMMA BitmapsFit ==
    ASSUME NEW mem, NEW kernel, NEW smp, NEW rs, NEW k, Sound(mem, kernel, smp, rs, k),
           NEW i \in 1 .. Len(rs)
    PROVE  /\ kernel.end <= rs[i].bitmap
           /\ \A j \in (1 .. Len(rs)) \ {i} :
                 \/ rs[i].bitmap + rs[i].bitmap_size <= rs[j].bitmap
                 \/ rs[j].bitmap + rs[j].bitmap_size <= rs[i].bitmap
           /\ \E m \in ToSet(mem) :
                 /\ m.type = "available" /\ m.base <= rs[i].bitmap
                 /\ rs[i].bitmap + rs[i].bitmap_size <= m.base + m.length
<1> DEFINE room == RoundUp(kernel.end)
           size == AllBitmapsSize(rs)
           m == Entry(mem, k)
           end == m.base + m.length
           from == rs[i].bitmap
           to == from + rs[i].bitmap_size
<1>1. /\ Settled(rs, mem, kernel, smp) /\ InOrder(mem, kernel, rs, k)
      /\ mem \in Seq(MemoryEntry) /\ Len(rs) \in Nat /\ Len(rs) = Len(OfType(mem, Pool))
  BY SettledIs DEF Sound
<1>2. /\ k \in 1 .. Len(rs) /\ kernel.end \in Nat /\ room \in Nat /\ kernel.end <= room
      /\ size \in Nat /\ room + size + 4096 <= end /\ m \in MemoryEntry
      /\ m.base = 4096 * 256 /\ kernel.start = 4096 * 256 /\ kernel.start < kernel.end
  BY KernelRegion DEF Sound
<1>3. /\ from \in Nat /\ to \in Nat /\ room <= from /\ to <= room + size
  <2>1. rs[i].bitmap \in Nat /\ rs[i].bitmap_size \in Nat
        /\ room <= rs[i].bitmap /\ rs[i].bitmap + rs[i].bitmap_size <= room + size
    BY <1>1, BitmapsLaid
  <2> QED BY <2>1
<1>4. ASSUME NEW j \in 1 .. Len(rs), j # i
      PROVE  \/ to <= rs[j].bitmap
             \/ rs[j].bitmap + rs[j].bitmap_size <= from
  <2>1. CASE i < j
    BY <1>1, <2>1, BitmapsLaid
  <2>2. CASE j < i
    BY <1>1, <2>2, BitmapsLaid
  <2> QED BY <1>1, <1>4, <2>1, <2>2
<1>5. m \in ToSet(mem) /\ m.type = "available"
  <2>1. m.type = "available"
    BY <1>1 DEF InOrder
  <2>2. OfType(mem, Pool) \in Seq(MemoryEntry)
    BY <1>1, OfTypeIs
  <2>3. DOMAIN OfType(mem, Pool) = 1 .. Len(rs)
    BY <1>1, <2>2
  <2>4. m \in ToSet(OfType(mem, Pool))
    BY <1>2, <2>3 DEF ToSet, Entry
  <2>5. m \in {e \in ToSet(mem) : e.type \in Pool}
    BY <1>1, <2>4, OfTypeRange
  <2> QED BY <2>1, <2>5
<1>6. end \in Nat
  BY <1>2 DEF MemoryEntry
<1>7. kernel.end <= from /\ m.base <= from /\ to <= end
  <2> HIDE DEF from, to, room, size, end, m
  <2> QED BY <1>2, <1>3, <1>6
<1> QED
  BY <1>4, <1>5, <1>7

\* The heap begins behind the bitmaps.
LEMMA HeapFits ==
    ASSUME NEW mem, NEW kernel, NEW smp, NEW rs, Settled(rs, mem, kernel, smp),
           kernel.end % 4096 = 0, NEW i \in 1 .. Len(rs)
    PROVE  rs[i].bitmap + rs[i].bitmap_size <= HeapStart(kernel, rs)
<1> DEFINE size == AllBitmapsSize(rs)
           end == rs[i].bitmap + rs[i].bitmap_size
           e == kernel.end
<1>1. /\ end <= RoundUp(e) + size /\ size \in Nat
      /\ rs[i].bitmap \in Nat /\ rs[i].bitmap_size \in Nat
  BY BitmapsLaid
<1>2. end \in Nat
  BY <1>1
<1>3. e \in Nat /\ e % 4096 = 0
  BY SettledIs
<1>4. HeapStart(kernel, rs) = RoundUp(e + size)
  BY DEF HeapStart, KernelEnd
<1> HIDE DEF size, end, e
<1>5. RoundUp(e) = e
  BY <1>3 DEF RoundUp, PAGE_SIZE
<1>6. e + size \in Nat
  BY <1>1, <1>3
<1>7. RoundUp(e + size) \in Nat /\ e + size <= RoundUp(e + size)
  BY <1>6, Rounded
<1>8. end <= RoundUp(e + size)
  BY <1>1, <1>2, <1>5, <1>6, <1>7
<1> QED
  BY <1>4, <1>8 DEF end

\* The frames of a region are memory of its entry.
LEMMA FramesFit ==
    ASSUME NEW mem, NEW kernel, NEW smp, NEW rs, Settled(rs, mem, kernel, smp),
           NEW i \in 1 .. Len(rs), Entry(mem, i).base % 4096 = 0
    PROVE  FrameStart(rs[i], rs[i].total_blocks)
              <= Entry(mem, i).base + Entry(mem, i).length
<1> DEFINE n == rs[i].total_blocks
           base == Entry(mem, i).base
           length == Entry(mem, i).length
<1>1. PICK f \in Nat, z \in Int : Covers(rs[i], Entry(mem, i), f, z)
  BY RegionCovers
<1>2. /\ rs[i].first = 4096 * f /\ base <= 4096 * f /\ 4096 * f < base + 4096
      /\ n \in Nat /\ 4096 * n <= length
  BY <1>1 DEF Covers
<1>3. base \in Nat /\ length \in Nat
  <2>1. Entry(mem, i) \in MemoryEntry
    BY SettledIs
  <2> QED BY <2>1 DEF MemoryEntry
<1>4. FrameStart(rs[i], n) = 4096 * f + n * 4096
  BY <1>2 DEF FrameStart, BLOCK_SIZE, PAGE_SIZE
<1>5. base % 4096 = 0
  OBVIOUS
<1> HIDE DEF n, base, length
<1>6. base = 4096 * f
  <2>1. PICK s \in Nat : base = 4096 * s
    <3>1. base \div 4096 \in Nat /\ base = 4096 * (base \div 4096)
      BY <1>3, <1>5
    <3> QED BY <3>1
  <2>2. s <= f /\ f < s + 1
    BY <1>2, <2>1
  <2> QED BY <2>1, <2>2
<1>7. FrameStart(rs[i], n) <= base + length
  BY <1>2, <1>3, <1>4, <1>6
<1> QED
  BY <1>7 DEF n, base, length

LEMMA DomainOfRegions ==
    ASSUME NEW mem, NEW kernel, NEW smp, NEW rs, Settled(rs, mem, kernel, smp)
    PROVE  DOMAIN rs = 1 .. Len(rs)
<1>1. rs \in Seq(RegionRecord)
  BY SettledIs
<1> QED
  BY <1>1

LEMMA FramesFollow == ASSUME IInv, MInv PROVE FramesAreMemory
<1> SUFFICES ASSUME Ready PROVE FramesAreMemory
  BY DEF FramesAreMemory
<1>1. Settled(regions, memory, machine.kernel, cpus.smp)
  BY ReadySettled
<1>2. ASSUME NEW i \in DOMAIN regions
      PROVE  \/ OfType(memory, Pool)[i].base % PAGE_SIZE # 0
             \/ FrameStart(regions[i], regions[i].total_blocks)
                   <= OfType(memory, Pool)[i].base + OfType(memory, Pool)[i].length
  <2>1. i \in 1 .. Len(regions)
    BY <1>1, DomainOfRegions
  <2>2. CASE Entry(memory, i).base % 4096 = 0
    BY <1>1, <2>1, <2>2, FramesFit DEF Entry
  <2>3. CASE Entry(memory, i).base % 4096 # 0
    BY <2>3 DEF Entry, PAGE_SIZE
  <2> QED BY <2>2, <2>3
<1> QED
  BY <1>2 DEF FramesAreMemory

LEMMA HeapFollows == ASSUME IInv, MInv PROVE HeapBehindBitmaps
<1> SUFFICES ASSUME Ready, machine.kernel.end % PAGE_SIZE = 0 PROVE HeapBehindBitmaps
  BY DEF HeapBehindBitmaps
<1>1. Settled(regions, memory, machine.kernel, cpus.smp)
  BY ReadySettled
<1>2. machine.kernel.end % 4096 = 0
  BY DEF PAGE_SIZE
<1>3. ASSUME NEW i \in DOMAIN regions
      PROVE  regions[i].bitmap + regions[i].bitmap_size <= HeapStart(machine.kernel, regions)
  <2>1. i \in 1 .. Len(regions)
    BY <1>1, DomainOfRegions
  <2> QED BY <1>1, <1>2, <2>1, HeapFits
<1> QED
  BY <1>3 DEF HeapBehindBitmaps

\* Once the memory is ready, in a machine with its memory in order.
LEMMA ReadySound ==
    ASSUME IInv, MInv, Ready, Orderly(machine)
    PROVE  \E k : Sound(memory, machine.kernel, cpus.smp, regions, k)
<1>1. /\ Settled(regions, memory, machine.kernel, cpus.smp)
      /\ memory = parse_memory_map(machine.map)
      /\ machine.kernel.start = KERNEL_PHYSICAL_BASE
      /\ machine.kernel.start < machine.kernel.end
  BY ReadySettled
<1> QED
  BY <1>1, OrderlyIs

LEMMA PoolFollows == ASSUME IInv, MInv, Orderly(machine) PROVE PoolReady
<1> SUFFICES ASSUME Ready, LowMemory PROVE PoolReady
  BY DEF PoolReady
<1>1. PICK k : Sound(memory, machine.kernel, cpus.smp, regions, k)
  BY ReadySound
<1>2. Settled(regions, memory, machine.kernel, cpus.smp)
  BY <1>1 DEF Sound
<1>3. regions[1].first = 0 /\ regions[1].total_blocks >= 159
  BY DEF LowMemory
<1>4. ASSUME NEW i \in DOMAIN regions
      PROVE  /\ regions[i].bits \subseteq 0 .. regions[i].total_blocks - 1
             /\ regions[i].reserved_blocks = Cardinality(regions[i].bits)
  <2>1. i \in 1 .. Len(regions)
    BY <1>2, DomainOfRegions
  <2>2. regions[i].bits \subseteq 0 .. regions[i].total_blocks - 1
    BY <1>1, <1>3, <2>1, BitsInside
  <2>3. regions[i].reserved_blocks = Cardinality(regions[i].bits)
    BY <1>2, <2>1 DEF Settled
  <2> QED BY <2>2, <2>3
<1> QED
  BY <1>4 DEF PoolReady

LEMMA InUseFollows == ASSUME IInv, MInv, Orderly(machine) PROVE MemoryInUseIsReserved
<1> SUFFICES ASSUME Ready PROVE MemoryInUseIsReserved
  BY DEF MemoryInUseIsReserved
<1>1. PICK k : Sound(memory, machine.kernel, cpus.smp, regions, k)
  BY ReadySound
<1>2. Settled(regions, memory, machine.kernel, cpus.smp)
  BY <1>1 DEF Sound
<1> DEFINE Kept(r) ==
        /\ WholeFramesReserved(r, 0, IF cpus.smp THEN 12288 ELSE 4096)
        /\ WholeFramesReserved(r, 524288, 651264)
        /\ WholeFramesReserved(r, machine.kernel.start, machine.kernel.end)
        /\ \A m \in ToSet(memory) : m.type = "reclaimable" =>
              WholeFramesReserved(r, m.base, m.base + m.length)
        /\ \A j \in DOMAIN regions :
              LeadingFramesReserved(r, regions[j].bitmap,
                                    regions[j].bitmap + regions[j].bitmap_size)
<1>3. ASSUME NEW i \in 1 .. Len(regions) PROVE Kept(regions[i])
  <2>1. \A j \in DOMAIN regions :
           LeadingFramesReserved(regions[i], regions[j].bitmap,
                                 regions[j].bitmap + regions[j].bitmap_size)
    BY <1>1, <1>2, BitmapReserved, DomainOfRegions
  <2> QED BY <1>1, <2>1, LowReserved, RestReserved, SMT
<1>4. MemoryInUseIsReserved <=> \A i \in DOMAIN regions : Kept(regions[i])
  BY SMT DEF MemoryInUseIsReserved
<1> HIDE DEF Kept
<1> QED
  BY <1>2, <1>3, <1>4, DomainOfRegions

LEMMA WholeFollows == ASSUME IInv, MInv, Orderly(machine) PROVE WholePagesReserved
<1> SUFFICES ASSUME Ready, machine.kernel.end % PAGE_SIZE = 0,
                    AllBitmapsSize(regions) <= PAGE_SIZE
             PROVE  NothingInUseIsFree
  BY DEF WholePagesReserved
<1>1. PICK k : Sound(memory, machine.kernel, cpus.smp, regions, k)
  BY ReadySound
<1>2. DOMAIN regions = 1 .. Len(regions)
  BY <1>1, DomainOfRegions DEF Sound
<1>3. machine.kernel.end % 4096 = 0 /\ AllBitmapsSize(regions) <= 4096
  BY DEF PAGE_SIZE
<1>4. \A i, j \in 1 .. Len(regions) : \A b \in 0 .. regions[i].total_blocks - 1 :
         \/ Holds(regions[i], b, machine.kernel.start, machine.kernel.end)
         \/ Holds(regions[i], b, regions[j].bitmap,
                  regions[j].bitmap + regions[j].bitmap_size)
         => b \in regions[i].bits
  BY <1>1, <1>3, WholeReserved
<1> QED
  BY <1>2, <1>4, Zenon DEF NothingInUseIsFree

LEMMA ApartFollows == ASSUME IInv, MInv, Orderly(machine) PROVE BitmapsApart
<1> SUFFICES ASSUME Ready PROVE BitmapsApart
  BY DEF BitmapsApart
<1>1. PICK k : Sound(memory, machine.kernel, cpus.smp, regions, k)
  BY ReadySound
<1>2. DOMAIN regions = 1 .. Len(regions)
  BY <1>1, DomainOfRegions DEF Sound
<1>3. \A i \in 1 .. Len(regions) :
         /\ machine.kernel.end <= regions[i].bitmap
         /\ \A j \in (1 .. Len(regions)) \ {i} :
               \/ regions[i].bitmap + regions[i].bitmap_size <= regions[j].bitmap
               \/ regions[j].bitmap + regions[j].bitmap_size <= regions[i].bitmap
         /\ \E m \in ToSet(memory) :
               /\ m.type = "available" /\ m.base <= regions[i].bitmap
               /\ regions[i].bitmap + regions[i].bitmap_size <= m.base + m.length
  BY <1>1, BitmapsFit
<1> QED
  BY <1>2, <1>3, Zenon DEF BitmapsApart

\* The part of MemoryFit that asks nothing of the map, of pmm_init alone: a
\* frame of the pool is memory of one entry, and the heap that
\* k_malloc_init starts behind kernel_virtual_end begins behind the bitmaps.
THEOREM FramesAndHeapFit == Spec => [](FramesAreMemory /\ HeapBehindBitmaps)
<1>1. IInv /\ MInv => FramesAreMemory /\ HeapBehindBitmaps
  BY FramesFollow, HeapFollows
<1> QED
  BY <1>1, Invariant, MemoryInvariant, PTL

\* In a machine whose memory is in order, whatever its sizes and the number of
\* its regions, what pmm_init leaves is what the frame allocator and the heap
\* may start from: what is in use is reserved but for the ends the rounding of
\* pm.c:80 leaves, and without those ends all of it; the bitmaps lie apart in
\* memory that is available; and the bits and the counters agree.
THEOREM MemoryFitHolds == Spec => [](Orderly(machine) => MemoryFit)
<1>1. IInv /\ MInv => (Orderly(machine) => MemoryFit)
  BY FramesFollow, HeapFollows, PoolFollows, InUseFollows, WholeFollows, ApartFollows
  DEF MemoryFit
<1> QED
  BY <1>1, Invariant, MemoryInvariant, PTL

=============================================================================
