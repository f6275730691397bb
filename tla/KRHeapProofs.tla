---------------------------- MODULE KRHeapProofs ----------------------------
(***************************************************************************)
(* Proofs about KRHeap for a heap of any size and any requests that        *)
(* satisfy the assumptions.                                                *)
(*                                                                         *)
(* The argument joins the list and the space.  Blocks do not overlap and   *)
(* cover what the break has given (Sized, Apart, Covered); the list links  *)
(* each header to the next one (Ring) and its blocks do not touch          *)
(* (NoTouch).  That the block k_free puts back lies between its neighbours *)
(* is the lemma FollowsInserted, that only these can touch it the lemma    *)
(* LinkNoTouch.  Each action has a lemma that it keeps the invariant.      *)
(***************************************************************************)
EXTENDS KRHeap, TLAPS

\* The blocks the kernel holds.
HeldAt == {block.at : block \in held}

\* The block on its way back to the list.
Back == IF Placing THEN {bp} ELSE {}

\* All blocks, and the header base, which is on the list but not in the heap.
All == HeldAt \union listed \union Back

\* The list exists from the first allocation on and contains base, which has
\* no units; freep points into it.
Listing ==
    /\ freep = NULL => listed = {} /\ held = {} /\ heap_brk = HeapStart /\ pc = "idle"
    /\ freep # NULL => Base \in listed /\ freep \in listed /\ size[Base] = 0

\* What the two loops keep of their locals. The search of a free block stands
\* at the successor of prevp.
Locals ==
    /\ pc = "idle" => bp = NULL /\ ~more
    /\ pc = "search" => /\ freep # NULL /\ prevp \in listed /\ p = ptr[prevp]
                        /\ n_bytes \in Requests /\ bp = NULL /\ ~more
    /\ pc = "place" => /\ freep # NULL /\ p \in listed /\ bp \in Address
                       /\ more => n_bytes \in Requests

\* A block is in one place: held once, on the list or on its way back.
Separate ==
    /\ Base \notin HeldAt
    /\ \A block \in held : block.at \notin listed /\ (Placing => block.at # bp)
    /\ Placing => bp \notin listed
    /\ \A b, c \in held : b.at = c.at => b = c

\* A block has at least its header and ends below the break.
Sized == \A b \in All \ {Base} : size[b] >= 1 /\ b + size[b] <= heap_brk

\* Blocks do not overlap.
Apart == \A b, c \in All : b < c => b + size[b] <= c

\* Every address below the break belongs to a block.
Covered == \A a \in HeapStart .. heap_brk - 1 :
              \E b \in All : b <= a /\ a < b + size[b]

\* g comes next after h in the order of the addresses of S, around the ring;
\* a header alone follows itself.
Follows(h, g, S) ==
    \/ h < g /\ \A f \in S : f <= h \/ g <= f
    \/ g <= h /\ \A f \in S : g <= f /\ f <= h

\* The pointers of the list link each header to the next one.
Ring == \A h \in listed : ptr[h] \in listed /\ Follows(h, ptr[h], listed)

\* No block on the list ends where another begins: k_free has merged them.
NoTouch == \A b \in listed \ {Base} : b + size[b] \notin listed

\* A walk around the ring from first to now has h behind it.
Passed(h, first, now) ==
    IF first < now THEN first < h /\ h < now ELSE first < h \/ h < now

\* The search has passed over blocks that are too small only.
Searched ==
    Searching => \A h \in listed : Passed(h, freep, p) => size[h] < Units(n_bytes)

\* The inductive invariant. RingInOrder alone is not inductive: that Link
\* keeps it takes that blocks do not overlap, and Tiled needs the order to
\* know that the merged neighbours are the ones that touch.
IInv == /\ TypeOK /\ Listing /\ Locals /\ Separate /\ Sized /\ Apart /\ Covered
        /\ Ring /\ NoTouch /\ RoomForRequest /\ Searched

-----------------------------------------------------------------------------
(* Numbers *)

\* What the layout gives: addresses are numbers, and base lies outside the
\* heap.
LEMMA HeadersAre == /\ Header \subseteq Nat /\ Address \subseteq Nat /\ Base \in Header
                    /\ Address \subseteq Header /\ Base \notin Address
                    /\ NULL \notin Header
                    /\ \A a \in Address : HeapStart <= a /\ a < HeapEnd
                    /\ \A a \in Header : a # Base => a \in Address
                    /\ Base \in Nat /\ HeapStart \in Nat /\ HeapEnd \in Nat
                    /\ (Base < HeapStart \/ HeapEnd < Base)
                    /\ HeapStart <= HeapEnd
  BY LayoutAssumption DEF Header, Address, NULL

\* A sum below the modulus does not wrap.
LEMMA SmallRemainder == \A x \in Nat, m \in Nat \ {0} : x < m => x % m = x
  OBVIOUS

\* The units of a request hold its bytes and a header, and adding the chunk
\* to any break does not wrap.
LEMMA UnitsAre ==
    ASSUME NEW n \in Requests
    PROVE  /\ Units(n) \in Nat /\ Units(n) >= 1 /\ n <= HeaderSize * (Units(n) - 1)
           /\ Chunk(Units(n)) \in Nat /\ Chunk(Units(n)) >= Units(n)
           /\ HeapEnd + Chunk(Units(n)) < WordUnits
<1>1. n \in Nat /\ n + 8 <= Word /\ Word \in Nat \ {0}
  BY RequestsAssumption, CoreAssumption DEF Word, HeaderSize
<1>2. (n + 7) % Word = n + 7
  BY <1>1, SmallRemainder
<1>3. Units(n) = ((n + 7) \div 8) + 1
  <2>1. n + 8 - 1 = n + 7
    BY <1>1
  <2> QED
    BY <1>2, <2>1 DEF Units, HeaderSize
<1>4. (n + 7) \div 8 \in Nat /\ n <= 8 * ((n + 7) \div 8)
  BY <1>1
<1>5. Units(n) \in Nat /\ Units(n) >= 1 /\ Units(n) - 1 = (n + 7) \div 8
  BY <1>3, <1>4
<1>6. n <= HeaderSize * (Units(n) - 1)
  BY <1>4, <1>5 DEF HeaderSize
<1>7. Chunk(Units(n)) \in Nat /\ Chunk(Units(n)) >= Units(n)
  BY <1>5, CoreAssumption DEF Chunk
<1> QED
  BY <1>5, <1>6, <1>7, RequestsAssumption

\* k_sbrk compares the break it would set, not its remainder.
LEMMA NewBreakIs ==
    ASSUME TypeOK, n_bytes \in Requests
    PROVE  NewBreak = heap_brk + Chunk(Units(n_bytes))
<1> DEFINE c == Chunk(Units(n_bytes))
<1>1. c \in Nat /\ HeapEnd + c < WordUnits
  BY UnitsAre
<1>2. heap_brk \in Nat /\ heap_brk <= HeapEnd /\ HeapEnd \in Nat /\ WordUnits \in Nat \ {0}
  BY LayoutAssumption, CoreAssumption DEF TypeOK
<1> HIDE DEF c
<1>3. heap_brk + c < WordUnits /\ heap_brk + c \in Nat
  BY <1>1, <1>2
<1>4. (heap_brk + c) % WordUnits = heap_brk + c
  BY <1>2, <1>3, SmallRemainder
<1> QED
  BY <1>4 DEF NewBreak, c

\* Blocks are addresses with sizes.
LEMMA AllAre ==
    ASSUME IInv
    PROVE  /\ All \subseteq Header /\ HeldAt \subseteq Address
           /\ \A b \in All : b \in Nat /\ size[b] \in Nat /\ (b # Base => b \in Address)
           /\ heap_brk \in Nat /\ HeapStart <= heap_brk /\ heap_brk <= HeapEnd
<1>1. HeldAt \subseteq Address
  BY DEF IInv, TypeOK, HeldAt, Block
<1>2. Back \subseteq Address
  BY DEF IInv, Locals, Back, Placing
<1>3. All \subseteq Header
  BY <1>1, <1>2, HeadersAre DEF All, IInv, TypeOK
<1>4. \A b \in All : b \in Nat /\ size[b] \in Nat /\ (b # Base => b \in Address)
  BY <1>3, HeadersAre DEF IInv, TypeOK
<1>5. heap_brk \in Nat /\ HeapStart <= heap_brk /\ heap_brk <= HeapEnd
  BY LayoutAssumption DEF IInv, TypeOK
<1> QED
  BY <1>1, <1>3, <1>4, <1>5

\* An address belongs to one block only.
LEMMA Disjoint ==
    ASSUME IInv, NEW b \in All, NEW c \in All, NEW a \in Nat,
           b <= a, a < b + size[b], c <= a, a < c + size[c]
    PROVE  b = c
<1>1. b \in Nat /\ c \in Nat /\ size[b] \in Nat /\ size[c] \in Nat
  BY AllAre
<1>2. CASE b < c
  BY <1>1, <1>2 DEF IInv, Apart
<1>3. CASE c < b
  BY <1>1, <1>3 DEF IInv, Apart
<1> QED
  BY <1>1, <1>2, <1>3

-----------------------------------------------------------------------------
(* Types *)

\* Type correctness of the initial states.
LEMMA TypesStart == Init => TypeOK
<1> SUFFICES ASSUME Init PROVE TypeOK
  OBVIOUS
<1>1. heap_brk \in HeapStart .. HeapEnd
  BY HeadersAre DEF Init
<1>2. ptr \in [Header -> Header \union {NULL}] /\ size \in [Header -> Nat]
  BY DEF Init
<1> QED
  BY <1>1, <1>2 DEF Init, TypeOK

\* Every step keeps the types: k_malloc and k_free write only through
\* pointers to headers.
LEMMA TypesKept ==
    ASSUME IInv, [Next]_vars
    PROVE  TypeOK'
<1> USE DEF IInv, NULL
<1>0. /\ Base \in Header /\ Address \subseteq Header /\ Address \subseteq Nat /\ Header \subseteq Nat
      /\ HeapStart \in Nat /\ HeapEnd \in Nat
      /\ Address = HeapStart .. HeapEnd - 1
  BY HeadersAre DEF Address
<1>1. ASSUME NEW n \in Requests, Malloc(n) PROVE TypeOK'
  <2>1. n \in Nat
    BY RequestsAssumption
  <2>2. CASE freep = NULL
    BY <1>0, <1>1, <2>1, <2>2 DEF Malloc, TypeOK
  <2>3. CASE freep # NULL
    BY <1>0, <1>1, <2>1, <2>3 DEF Malloc, TypeOK
  <2> QED
    BY <2>2, <2>3
<1>2. ASSUME Searching PROVE /\ p \in listed /\ listed \subseteq Header /\ ptr[p] \in listed
                             /\ prevp \in Header /\ n_bytes \in Requests /\ freep \in Header
  BY <1>2 DEF Searching, Locals, Ring, TypeOK, Listing
<1>3. CASE TakeWhole
  <2>1. size[p] >= 1 /\ p \in Header /\ p # Base
    BY <1>2, <1>3, UnitsAre DEF TakeWhole, Listing, Locals, Searching
  <2>2. [at |-> p, bytes |-> n_bytes] \in Block
    BY <2>1, HeadersAre DEF Block, TypeOK
  <2> QED
    BY <1>0, <1>2, <1>3, <2>2 DEF TakeWhole, Return, TypeOK
<1>4. CASE TakeTail
  <2> DEFINE u == Units(n_bytes)
             rest == size[p] - u
  <2>1. p \in listed /\ p \in Header /\ u \in Nat /\ u >= 1 /\ size[p] \in Nat /\ size[p] > u
    BY <1>2, <1>4, UnitsAre DEF TakeTail, TypeOK
  <2>2. p \in All \ {Base}
    BY <1>2, <1>4, <2>1 DEF TakeTail, Listing, Locals, Searching, All
  <2>3. p + size[p] <= heap_brk /\ p \in Nat /\ heap_brk \in Nat /\ heap_brk <= HeapEnd /\ HeapStart <= p
    BY <2>2, AllAre, HeadersAre DEF Sized
  <2>4. rest \in Nat /\ p + rest \in Address
    BY <1>0, <2>1, <2>3, SMTT(30)
  <2>5. [at |-> p + rest, bytes |-> n_bytes] \in Block
    BY <2>4 DEF Block, TypeOK
  <2>6. size' = [size EXCEPT ![p] = rest, ![p + rest] = u]
    BY <1>4 DEF TakeTail
  <2>7. held' = held \union {[at |-> p + rest, bytes |-> n_bytes]}
    BY <1>4 DEF TakeTail
  <2> HIDE DEF u, rest
  <2>8. size' \in [Header -> Nat]
    BY <1>0, <2>1, <2>4, <2>6 DEF TypeOK
  <2> QED
    BY <1>0, <1>2, <1>4, <2>5, <2>7, <2>8 DEF TakeTail, Return, TypeOK
<1>5. CASE SearchNext
  BY <1>0, <1>2, <1>5 DEF SearchNext, TypeOK
<1>6. CASE Extend
  <2> DEFINE c == Chunk(Units(n_bytes))
  <2>1. n_bytes \in Requests
    BY <1>2, <1>6 DEF Extend
  <2>2. NewBreak = heap_brk + c /\ c \in Nat /\ c >= 1
    BY <2>1, NewBreakIs, UnitsAre
  <2> HIDE DEF c
  <2>3. heap_brk' = heap_brk + c /\ heap_brk + c <= HeapEnd
    BY <1>6, <2>2 DEF Extend
  <2>4. heap_brk \in Address /\ heap_brk' \in HeapStart .. HeapEnd
    BY <1>0, <2>2, <2>3 DEF TypeOK
  <2>5. size' = [size EXCEPT ![heap_brk] = c]
    BY <1>6 DEF Extend, c
  <2> QED
    BY <1>0, <1>6, <2>2, <2>4, <2>5 DEF Extend, TypeOK
<1>7. CASE Fail
  BY <1>7 DEF Fail, Return, TypeOK
<1>8. ASSUME NEW block \in held, Free(block) PROVE TypeOK'
  BY <1>8 DEF Free, TypeOK, Block
<1>9. CASE PlaceNext
  BY <1>9 DEF PlaceNext, TypeOK, Locals, Ring, Placing
<1>10. CASE Link
  <2> DEFINE next == ptr[p]
             grown == IF bp + size[bp] = next THEN size[bp] + size[next] ELSE size[bp]
             after == IF bp + size[bp] = next THEN ptr[next] ELSE next
  <2>1. p \in listed /\ bp \in Address /\ next \in listed /\ listed \subseteq Header /\ freep \in Header
    BY <1>10 DEF Link, Placing, Locals, Ring, TypeOK, Listing
  <2>2. after \in Header /\ p \in Header /\ bp \in Header
    BY <1>0, <2>1 DEF Ring
  <2>3. grown \in Nat
    BY <1>0, <2>1, SMTT(30) DEF TypeOK
  <2>4. \/ size' = [size EXCEPT ![bp] = grown, ![p] = size[p] + grown]
        \/ size' = [size EXCEPT ![bp] = grown]
    BY <1>10, <2>1, <2>2 DEF Link, Placing, Locals, TypeOK
  <2>5. \/ ptr' = [ptr EXCEPT ![bp] = after, ![p] = after]
        \/ ptr' = [ptr EXCEPT ![bp] = after, ![p] = bp]
    BY <1>10 DEF Link
  <2>6. listed' \subseteq listed \union {bp}
    BY <1>10 DEF Link
  <2>7. \/ Return
        \/ /\ pc' = "search" /\ prevp' = p /\ p' = ptr'[p] /\ bp' = NULL /\ more' = FALSE
           /\ UNCHANGED n_bytes
    BY <1>10 DEF Link
  <2>8. freep' = p /\ UNCHANGED <<heap_brk, held>>
    BY <1>10 DEF Link
  <2> HIDE DEF grown, after, next
  <2>9. size' \in [Header -> Nat]
    <3>1. size[p] + grown \in Nat
      BY <2>2, <2>3 DEF TypeOK
    <3> QED
      BY <2>2, <2>3, <2>4, <3>1 DEF TypeOK
  <2>10. ptr' \in [Header -> Header \union {NULL}]
    BY <2>2, <2>5 DEF TypeOK
  <2>11. ptr'[p] \in Header \union {NULL}
    BY <2>2, <2>10
  <2>12. /\ pc' \in {"idle", "search", "place"} /\ n_bytes' \in Nat /\ prevp' \in Header \union {NULL}
         /\ p' \in Header \union {NULL} /\ bp' \in Address \union {NULL} /\ more' \in BOOLEAN
    <3>1. CASE Return
      BY <3>1 DEF Return
    <3>2. CASE /\ pc' = "search" /\ prevp' = p /\ p' = ptr'[p] /\ bp' = NULL /\ more' = FALSE
               /\ UNCHANGED n_bytes
      BY <2>2, <2>11, <3>2 DEF TypeOK
    <3> QED
      BY <2>7, <3>1, <3>2
  <2>13. listed' \subseteq Header /\ freep' \in Header
    BY <2>1, <2>2, <2>6, <2>8
  <2> QED
    BY <2>8, <2>9, <2>10, <2>12, <2>13 DEF TypeOK
<1>11. CASE UNCHANGED vars
  BY <1>11 DEF vars, TypeOK
<1> QED
  BY <1>1, <1>3, <1>4, <1>5, <1>6, <1>7, <1>8, <1>9, <1>10, <1>11 DEF Next, Step

-----------------------------------------------------------------------------
(* Rings of addresses *)

\* A header follows one header only.
LEMMA FollowsOnce ==
    ASSUME NEW S, S \subseteq Nat, NEW h \in S, NEW g \in S, NEW x \in S,
           Follows(h, x, S), Follows(g, x, S)
    PROVE  h = g
<1>1. h \in Nat /\ g \in Nat /\ x \in Nat
  OBVIOUS
<1> QED
  BY <1>1 DEF Follows

\* Two neighbours stay neighbours when others are removed.
LEMMA FollowsSubset ==
    ASSUME NEW S, NEW T, T \subseteq S, NEW h, NEW g, Follows(h, g, S)
    PROVE  Follows(h, g, T)
  BY DEF Follows

\* Removing a header makes its neighbours neighbours.
LEMMA FollowsRemoved ==
    ASSUME NEW S, S \subseteq Nat, NEW h \in S, NEW x \in S, NEW g \in S,
           Follows(h, x, S), Follows(x, g, S), h # x
    PROVE  Follows(h, g, S \ {x})
<1>0. h \in Nat /\ g \in Nat /\ x \in Nat /\ \A f \in S : f \in Nat
  OBVIOUS
<1>1. CASE h < x /\ x < g
  BY <1>0, <1>1 DEF Follows
<1>2. CASE h < x /\ g <= x
  BY <1>0, <1>2 DEF Follows
<1>3. CASE x <= h /\ x < g
  BY <1>0, <1>3 DEF Follows
<1>4. CASE x <= h /\ g <= x
  BY <1>0, <1>4 DEF Follows
<1> QED
  BY <1>0, <1>1, <1>2, <1>3, <1>4

\* The test of k_free for the place of a block (lines 93 and 94).
Between(x, h, g) == (h < x /\ x < g) \/ (h >= g /\ (h < x \/ x < g))

\* Between the headers where k_free puts a block, no other lies.
LEMMA Neighbours ==
    ASSUME NEW S, S \subseteq Nat, NEW h \in S, NEW g \in S, Follows(h, g, S),
           NEW x \in Nat, x \notin S, Between(x, h, g)
    PROVE  /\ \A f \in S : f > x => x < g /\ g <= f
           /\ \A f \in S : f < x => h < x /\ f <= h
<1>0. h \in Nat /\ g \in Nat /\ x \in Nat /\ \A f \in S : f \in Nat
  OBVIOUS
<1> QED
  BY <1>0 DEF Follows, Between

\* A block put there becomes a neighbour of both, and other neighbours stay
\* neighbours.
LEMMA FollowsInserted ==
    ASSUME NEW S, S \subseteq Nat, NEW h \in S, NEW g \in S, Follows(h, g, S),
           NEW x \in Nat, x \notin S, Between(x, h, g)
    PROVE  /\ Follows(h, x, S \union {x}) /\ Follows(x, g, S \union {x})
           /\ \A k, m \in S : k # h /\ Follows(k, m, S) => Follows(k, m, S \union {x})
<1>0. h \in Nat /\ g \in Nat /\ x \in Nat /\ \A f \in S : f \in Nat
  OBVIOUS
<1>1. /\ \A f \in S : f > x => x < g /\ g <= f
      /\ \A f \in S : f < x => h < x /\ f <= h
  BY Neighbours
<1>2. \A f \in S : f < x \/ f > x
  BY <1>0
<1>3. Follows(h, x, S \union {x})
  BY <1>0, <1>1, <1>2 DEF Follows, Between
<1>4. Follows(x, g, S \union {x})
  BY <1>0, <1>1, <1>2 DEF Follows, Between
<1>5. ASSUME NEW k \in S, NEW m \in S, k # h, Follows(k, m, S)
      PROVE  Follows(k, m, S \union {x})
  <2>0. k \in Nat /\ m \in Nat
    OBVIOUS
  <2>1. CASE k < m
    <3>1. x <= k \/ m <= x
      BY <1>0, <1>1, <1>5, <2>0, <2>1 DEF Follows
    <3> QED
      BY <1>0, <1>5, <2>0, <2>1, <3>1 DEF Follows
  <2>2. CASE m <= k
    <3>1. m <= x /\ x <= k
      BY <1>0, <1>1, <1>2, <1>5, <2>0, <2>2 DEF Follows, Between
    <3> QED
      BY <1>0, <1>5, <2>0, <2>2, <3>1 DEF Follows
  <2> QED
    BY <2>0, <2>1, <2>2
<1> QED
  BY <1>3, <1>4, <1>5

\* The first step of a walk passes over nothing.
LEMMA NothingPassed ==
    ASSUME NEW S, S \subseteq Nat, NEW h \in S, NEW g \in S, Follows(h, g, S)
    PROVE  \A f \in S : ~Passed(f, h, g)
<1>0. h \in Nat /\ g \in Nat /\ \A f \in S : f \in Nat
  OBVIOUS
<1> QED
  BY <1>0 DEF Follows, Passed

\* Another step passes over one header, the one it leaves.
LEMMA OnePassed ==
    ASSUME NEW S, S \subseteq Nat, NEW first \in S, NEW h \in S, NEW g \in S, Follows(h, g, S),
           h # first
    PROVE  \A f \in S : Passed(f, first, g) => Passed(f, first, h) \/ f = h
<1>0. h \in Nat /\ g \in Nat /\ first \in Nat /\ \A f \in S : f \in Nat
  OBVIOUS
<1> QED
  BY <1>0 DEF Follows, Passed

\* A walk back at its beginning has passed over everything else.
LEMMA AllPassed ==
    ASSUME NEW S, S \subseteq Nat, NEW first \in S
    PROVE  \A f \in S : Passed(f, first, first) \/ f = first
<1>0. first \in Nat /\ \A f \in S : f \in Nat
  OBVIOUS
<1> QED
  BY <1>0 DEF Passed

-----------------------------------------------------------------------------
(* Steps that leave the blocks alone *)

\* The invariant without the types.
Rest == Listing /\ Locals /\ Separate /\ Sized /\ Apart /\ Covered /\ Ring /\ NoTouch
            /\ RoomForRequest /\ Searched

\* Steps that leave the blocks alone keep their extents.
LEMMA SpaceStays ==
    ASSUME Sized, Apart, Covered, UNCHANGED <<heap_brk, size>>, All' = All
    PROVE  Sized' /\ Apart' /\ Covered'
  BY DEF Sized, Apart, Covered

\* Steps that leave the list alone keep its order.
LEMMA ListStays ==
    ASSUME Ring, NoTouch, UNCHANGED <<ptr, size, listed>>
    PROVE  Ring' /\ NoTouch'
  BY DEF Ring, NoTouch

\* Headers on the list are numbers.
LEMMA Listed == ASSUME IInv PROVE listed \subseteq Nat
  BY HeadersAre DEF IInv, TypeOK

\* Where the loop of k_malloc stands.
LEMMA SearchPlace ==
    ASSUME IInv, Searching
    PROVE  /\ p \in listed /\ prevp \in listed /\ freep \in listed /\ Base \in listed
           /\ ptr[p] \in listed /\ p = ptr[prevp]
           /\ Follows(prevp, p, listed) /\ Follows(p, ptr[p], listed)
           /\ p \in Header /\ size[p] \in Nat /\ size[Base] = 0
           /\ n_bytes \in Requests /\ Units(n_bytes) \in Nat /\ Units(n_bytes) >= 1
           /\ Chunk(Units(n_bytes)) \in Nat /\ Chunk(Units(n_bytes)) >= 1
           /\ Back = {}
<1>1. /\ p \in listed /\ prevp \in listed /\ freep \in listed /\ Base \in listed
      /\ ptr[p] \in listed /\ p = ptr[prevp]
      /\ Follows(prevp, p, listed) /\ Follows(p, ptr[p], listed)
      /\ size[Base] = 0 /\ n_bytes \in Requests
  BY DEF IInv, Searching, Locals, Listing, Ring
<1>2. p \in Header /\ size[p] \in Nat
  BY <1>1 DEF IInv, TypeOK
<1>3. Back = {}
  BY DEF Back, Searching, Placing
<1>4. /\ Units(n_bytes) \in Nat /\ Units(n_bytes) >= 1
      /\ Chunk(Units(n_bytes)) \in Nat /\ Chunk(Units(n_bytes)) >= 1
  BY <1>1, UnitsAre
<1> QED
  BY <1>1, <1>2, <1>3, <1>4

\* k_malloc begins, and the first call makes the list.
LEMMA MallocKeeps ==
    ASSUME IInv, NEW n \in Requests, Malloc(n)
    PROVE  Rest'
<1> USE DEF IInv
<1>1. /\ pc = "idle" /\ pc' = "search" /\ n_bytes' = n /\ prevp' = freep' /\ p' = ptr'[freep']
      /\ UNCHANGED <<heap_brk, bp, more, held>>
  BY DEF Malloc
<1>2. Back = {} /\ Back' = {} /\ HeldAt' = HeldAt /\ bp' = NULL /\ ~more' /\ ~Placing /\ ~Placing'
  BY <1>1 DEF Back, Placing, HeldAt, Locals
<1>3. CASE freep # NULL
  <2>1. UNCHANGED <<freep, ptr, size, listed>>
    BY <1>3 DEF Malloc
  <2>2. All' = All
    BY <1>2, <2>1 DEF All
  <2>3. Sized' /\ Apart' /\ Covered' /\ Ring' /\ NoTouch' /\ RoomForRequest'
    BY <1>1, <2>1, <2>2, SpaceStays, ListStays DEF RoomForRequest
  <2>4. freep \in listed /\ freep # NULL
    BY <1>3 DEF Listing
  <2>5. Listing' /\ Locals'
    BY <1>1, <1>2, <1>3, <2>1, <2>4 DEF Listing, Locals
  <2>6. Separate'
    BY <1>1, <1>2, <2>1 DEF Separate
  <2>7. Searched'
    <3>1. ptr[freep] \in listed /\ Follows(freep, ptr[freep], listed)
      BY <2>4 DEF Ring
    <3>2. \A f \in listed : ~Passed(f, freep, ptr[freep])
      BY <2>4, <3>1, Listed, NothingPassed
    <3> QED
      BY <1>1, <2>1, <3>2 DEF Searched
  <2> QED
    BY <2>3, <2>5, <2>6, <2>7 DEF Rest
<1>4. CASE freep = NULL
  <2>1. /\ listed = {} /\ held = {} /\ heap_brk = HeapStart
        /\ freep' = Base /\ listed' = {Base}
        /\ ptr' = [ptr EXCEPT ![Base] = Base] /\ size' = [size EXCEPT ![Base] = 0]
    BY <1>4, HeadersAre DEF Malloc, Listing, NULL
  <2>2. ptr'[Base] = Base /\ size'[Base] = 0 /\ Base \in Nat /\ Base # NULL
    BY <2>1, HeadersAre DEF TypeOK
  <2>3. All' = {Base} /\ held' = {} /\ heap_brk' = HeapStart /\ HeapStart \in Nat
    BY <1>1, <1>2, <2>1, HeadersAre DEF All, HeldAt
  <2>4. Sized' /\ Apart'
    BY <2>2, <2>3 DEF Sized, Apart
  <2>5. Covered'
    BY <2>3 DEF Covered
  <2>6. Follows(Base, Base, {Base})
    BY <2>2 DEF Follows
  <2>7. Ring' /\ NoTouch'
    BY <2>1, <2>2, <2>6 DEF Ring, NoTouch
  <2>8. RoomForRequest'
    BY <2>3 DEF RoomForRequest
  <2>9. Separate'
    BY <1>2, <2>3 DEF Separate, HeldAt
  <2>10. Listing' /\ Locals'
    BY <1>1, <1>2, <2>1, <2>2 DEF Listing, Locals
  <2>11. Searched'
    <3>1. \A f \in {Base} : ~Passed(f, Base, Base)
      BY <2>2 DEF Passed
    <3> QED
      BY <1>1, <2>1, <2>2, <3>1 DEF Searched
  <2> QED
    BY <2>4, <2>5, <2>7, <2>8, <2>9, <2>10, <2>11 DEF Rest
<1> QED
  BY <1>3, <1>4

\* The search passes over a block that is too small.
LEMMA SearchNextKeeps ==
    ASSUME IInv, SearchNext
    PROVE  Rest'
<1> USE DEF IInv
<1>0. Searching /\ ~Fits /\ p # freep /\ prevp' = p /\ p' = ptr[p]
      /\ UNCHANGED <<heap_brk, freep, ptr, size, pc, n_bytes, bp, more, held, listed>>
  BY DEF SearchNext
<1>1. /\ p \in listed /\ freep \in listed /\ ptr[p] \in listed /\ Follows(p, ptr[p], listed)
  BY <1>0, SearchPlace
<1>2. All' = All
  BY <1>0 DEF All, HeldAt, Back, Placing
<1>3. Sized' /\ Apart' /\ Covered' /\ Ring' /\ NoTouch' /\ RoomForRequest'
  BY <1>0, <1>2, SpaceStays, ListStays DEF RoomForRequest
<1>4. Listing' /\ Locals'
  BY <1>0, <1>1 DEF Listing, Locals, Searching
<1>5. Separate'
  BY <1>0 DEF Separate, HeldAt, Placing
<1>6. Searched'
  <2>1. size[p] < Units(n_bytes)
    BY <1>0, SearchPlace DEF Fits
  <2>2. \A f \in listed : Passed(f, freep, ptr[p]) => Passed(f, freep, p) \/ f = p
    BY <1>0, <1>1, Listed, OnePassed
  <2> QED
    BY <1>0, <2>1, <2>2 DEF Searched
<1> QED
  BY <1>3, <1>4, <1>5, <1>6 DEF Rest

\* k_free looks further for the place.
LEMMA PlaceNextKeeps ==
    ASSUME IInv, PlaceNext
    PROVE  Rest'
<1> USE DEF IInv
<1>0. /\ pc = "place" /\ p' = ptr[p]
      /\ UNCHANGED <<heap_brk, freep, ptr, size, pc, n_bytes, prevp, bp, more, held, listed>>
  BY DEF PlaceNext, Placing
<1>1. p \in listed /\ ptr[p] \in listed
  BY <1>0 DEF Locals, Ring
<1>2. All' = All
  BY <1>0 DEF All, HeldAt, Back, Placing
<1>3. Sized' /\ Apart' /\ Covered' /\ Ring' /\ NoTouch' /\ RoomForRequest'
  BY <1>0, <1>2, SpaceStays, ListStays DEF RoomForRequest
<1>4. Listing' /\ Locals'
  BY <1>0, <1>1 DEF Listing, Locals
<1>5. Separate'
  BY <1>0 DEF Separate, HeldAt, Placing
<1>6. Searched'
  BY <1>0 DEF Searched, Searching
<1> QED
  BY <1>3, <1>4, <1>5, <1>6 DEF Rest

\* k_malloc gives up.
LEMMA FailKeeps ==
    ASSUME IInv, Fail
    PROVE  Rest'
<1> USE DEF IInv
<1>0. /\ pc = "search" /\ pc' = "idle" /\ bp' = NULL /\ ~more'
      /\ UNCHANGED <<heap_brk, freep, ptr, size, held, listed>>
  BY DEF Fail, Searching, Return
<1>2. All' = All
  BY <1>0 DEF All, HeldAt, Back, Placing
<1>3. Sized' /\ Apart' /\ Covered' /\ Ring' /\ NoTouch' /\ RoomForRequest'
  BY <1>0, <1>2, SpaceStays, ListStays DEF RoomForRequest
<1>4. Listing' /\ Locals'
  BY <1>0 DEF Listing, Locals
<1>5. Separate'
  BY <1>0 DEF Separate, HeldAt, Placing
<1>6. Searched'
  BY <1>0 DEF Searched, Searching
<1> QED
  BY <1>3, <1>4, <1>5, <1>6 DEF Rest

\* k_free begins: a held block is on its way back.
LEMMA FreeKeeps ==
    ASSUME IInv, NEW block \in held, Free(block)
    PROVE  Rest'
<1> USE DEF IInv
<1>0. /\ pc = "idle" /\ pc' = "place" /\ held' = held \ {block} /\ bp' = block.at /\ p' = freep
      /\ UNCHANGED <<heap_brk, freep, ptr, size, n_bytes, prevp, more, listed>>
  BY DEF Free
<1>1. /\ freep # NULL /\ freep \in listed /\ ~more /\ block.at \in Address
      /\ block.at \notin listed
  BY <1>0 DEF Listing, Locals, TypeOK, Block, Separate
<1>2. Back = {} /\ Back' = {block.at} /\ Placing' /\ ~Placing
  BY <1>0 DEF Back, Placing
<1>3. \A b \in held' : b \in held /\ b.at # block.at
  BY <1>0 DEF Separate
<1>4. HeldAt = HeldAt' \union {block.at}
  BY <1>0, <1>3 DEF HeldAt
<1>5. All' = All
  BY <1>0, <1>2, <1>4 DEF All
<1>6. Sized' /\ Apart' /\ Covered' /\ Ring' /\ NoTouch'
  BY <1>0, <1>5, SpaceStays, ListStays
<1>7. RoomForRequest'
  BY <1>0, <1>3 DEF RoomForRequest
<1>8. Listing' /\ Locals'
  BY <1>0, <1>1 DEF Listing, Locals
<1>9. Separate'
  BY <1>0, <1>1, <1>2, <1>3, <1>4 DEF Separate
<1>10. Searched'
  BY <1>0 DEF Searched, Searching
<1> QED
  BY <1>6, <1>7, <1>8, <1>9, <1>10 DEF Rest

-----------------------------------------------------------------------------
(* Steps that change the blocks *)

\* A block leaves the list for the kernel.
LEMMA TakeWholeKeeps ==
    ASSUME IInv, TakeWhole
    PROVE  Rest'
<1> USE DEF IInv
<1> DEFINE new == [at |-> p, bytes |-> n_bytes]
           next == ptr[p]
<1>0. /\ Searching /\ size[p] = Units(n_bytes)
      /\ ptr' = [ptr EXCEPT ![prevp] = next] /\ listed' = listed \ {p} /\ freep' = prevp
      /\ held' = held \union {new}
      /\ pc' = "idle" /\ bp' = NULL /\ ~more' /\ UNCHANGED <<heap_brk, size>>
  BY DEF TakeWhole, Return
<1>1. /\ p \in listed /\ prevp \in listed /\ Base \in listed /\ next \in listed
      /\ Follows(prevp, p, listed) /\ Follows(p, next, listed) /\ size[Base] = 0
      /\ Units(n_bytes) >= 1 /\ n_bytes \in Requests /\ Back = {}
  BY <1>0, SearchPlace
<1>2. p # Base /\ p \in Nat /\ new.at = p /\ new.bytes = n_bytes
  BY <1>0, <1>1, Listed
<1> HIDE DEF new
<1>3. prevp # p /\ next # p
  <2>1. \A f \in listed : f \in Nat
    BY Listed
  <2>2. Base \in Nat /\ (p < Base \/ Base < p)
    BY <1>1, <1>2, <2>1
  <2> QED
    BY <1>1, <1>2, <2>1, <2>2 DEF Follows
<1> HIDE DEF next
<1>4. HeldAt' = HeldAt \union {p} /\ Back' = {} /\ ~Placing'
  BY <1>0, <1>2 DEF HeldAt, Back, Placing
<1>5. All' = All
  BY <1>0, <1>1, <1>4 DEF All
<1>6. Sized' /\ Apart' /\ Covered'
  BY <1>0, <1>5, SpaceStays
<1>7. NoTouch'
  BY <1>0 DEF NoTouch
<1>8. Ring'
  <2>1. Follows(prevp, next, listed \ {p})
    BY <1>1, <1>3, Listed, FollowsRemoved
  <2>2. ptr'[prevp] = next /\ next \in listed'
    BY <1>0, <1>1, <1>3 DEF TypeOK
  <2>3. ASSUME NEW h \in listed', h # prevp
        PROVE  ptr'[h] = ptr[h] /\ ptr[h] \in listed' /\ Follows(h, ptr[h], listed')
    <3>1. h \in listed /\ h # p /\ ptr[h] \in listed /\ Follows(h, ptr[h], listed)
      BY <1>0 DEF Ring
    <3>2. ptr[h] # p
      BY <1>1, <2>3, <3>1, Listed, FollowsOnce
    <3>3. Follows(h, ptr[h], listed \ {p})
      BY <3>1, FollowsSubset
    <3>4. ptr'[h] = ptr[h]
      BY <1>0, <2>3, <3>1 DEF TypeOK
    <3> QED
      BY <1>0, <3>1, <3>2, <3>3, <3>4
  <2>4. Follows(prevp, next, listed')
    BY <1>0, <2>1
  <2> QED
    BY <2>2, <2>3, <2>4 DEF Ring
<1>9. RoomForRequest'
  <2>1. n_bytes <= HeaderSize * (size[p] - 1)
    BY <1>0, <1>1, UnitsAre
  <2> QED
    BY <1>0, <1>2, <2>1 DEF RoomForRequest
<1>10. Listing' /\ Locals'
  <2>1. prevp # NULL
    BY <1>1, HeadersAre DEF TypeOK
  <2> QED
    BY <1>0, <1>1, <1>2, <1>3, <2>1 DEF Listing, Locals
<1>11. Separate'
  BY <1>0, <1>1, <1>2, <1>4 DEF Separate
<1>12. Searched'
  BY <1>0 DEF Searched, Searching
<1> QED
  BY <1>6, <1>7, <1>8, <1>9, <1>10, <1>11, <1>12 DEF Rest

\* A block is split: its head keeps its address, its tail becomes a block.
LEMMA SpaceSplits ==
    ASSUME IInv, NEW b \in All \ {Base}, NEW u \in Nat, u >= 1, size[b] > u,
           heap_brk' = heap_brk, All' = All \union {b + size[b] - u},
           \A c \in All \ {b} : size'[c] = size[c],
           size'[b] = size[b] - u, size'[b + size[b] - u] = u
    PROVE  Sized' /\ Apart' /\ Covered' /\ b + size[b] - u \notin All
<1> DEFINE q == b + size[b] - u
<1>1. /\ b \in Nat /\ size[b] \in Nat /\ \A c \in All : c \in Nat /\ size[c] \in Nat
      /\ heap_brk \in Nat
  BY AllAre
<1>2. b + size[b] <= heap_brk /\ q \in Nat /\ b < q /\ q < b + size[b] /\ b + size'[b] = q
      /\ q + u = b + size[b]
  BY <1>1 DEF IInv, Sized
<1>3. size'[q] = u /\ All' = All \union {q}
  OBVIOUS
<1> HIDE DEF q
<1>4. \A c \in All : c > b => c >= b + size[b]
  BY <1>1 DEF IInv, Apart
<1>5. q \notin All
  BY <1>1, <1>2, <1>4
<1>6. q # Base
  <2>1. Base \in All \/ Base \notin Address
    BY HeadersAre
  <2>2. HeapStart <= b /\ heap_brk <= HeapEnd
    BY AllAre, HeadersAre
  <2> QED
    BY <1>1, <1>2, <2>2, HeadersAre
<1>7. Sized'
  BY <1>1, <1>2, <1>3, <1>5, <1>6 DEF IInv, Sized
<1>8. Apart'
  <2> SUFFICES ASSUME NEW c \in All', NEW d \in All', c < d PROVE c + size'[c] <= d
    BY DEF Apart
  <2>1. CASE c \in All /\ d \in All
    <3>1. c + size[c] <= d
      BY <2>1 DEF IInv, Apart
    <3>2. CASE c = b
      BY <1>1, <1>2, <2>1, <3>1, <3>2
    <3>3. CASE c # b
      BY <2>1, <3>1, <3>3
    <3> QED
      BY <3>2, <3>3
  <2>2. CASE c = q
    <3>1. d \in All /\ d > b
      BY <1>1, <1>2, <1>3, <2>2
    <3> QED
      BY <1>1, <1>2, <1>3, <1>4, <2>2, <3>1
  <2>3. CASE c \in All /\ d = q
    <3>1. CASE c = b
      BY <1>1, <1>2, <2>3, <3>1
    <3>2. CASE c < b
      <4>1. c + size[c] <= b /\ size'[c] = size[c]
        BY <1>1, <2>3, <3>2 DEF IInv, Apart
      <4> QED
        BY <1>1, <1>2, <2>3, <4>1
    <3>3. CASE c > b
      BY <1>1, <1>2, <1>4, <2>3, <3>3
    <3> QED
      BY <1>1, <2>3, <3>1, <3>2, <3>3
  <2> QED
    BY <1>3, <2>1, <2>2, <2>3
<1>9. Covered'
  <2> SUFFICES ASSUME NEW a \in HeapStart .. heap_brk - 1
               PROVE  \E c \in All' : c <= a /\ a < c + size'[c]
    BY DEF Covered
  <2>0. a \in Nat
    BY HeadersAre, <1>1
  <2>1. PICK c \in All : c <= a /\ a < c + size[c]
    BY DEF IInv, Covered
  <2>2. CASE c # b
    BY <1>3, <2>1, <2>2
  <2>3. CASE c = b /\ a < q
    BY <1>1, <1>2, <1>3, <2>0, <2>1, <2>3
  <2>4. CASE c = b /\ ~(a < q)
    BY <1>1, <1>2, <1>3, <2>0, <2>1, <2>4
  <2> QED
    BY <2>2, <2>3, <2>4
<1> QED
  BY <1>5, <1>7, <1>8, <1>9 DEF q

\* The tail of a block goes to the kernel.
LEMMA TakeTailKeeps ==
    ASSUME IInv, TakeTail
    PROVE  Rest'
<1> USE DEF IInv
<1> DEFINE u == Units(n_bytes)
           q == p + size[p] - u
           new == [at |-> q, bytes |-> n_bytes]
<1>1. /\ p \in listed /\ prevp \in listed /\ Base \in listed /\ size[Base] = 0
      /\ u \in Nat /\ u >= 1 /\ n_bytes \in Requests /\ Back = {} /\ size[p] \in Nat
      /\ n_bytes <= HeaderSize * (u - 1)
  BY SearchPlace, UnitsAre DEF TakeTail
<1>2. size[p] > u /\ p # Base /\ p \in Nat /\ p + (size[p] - u) = q
  BY <1>1, Listed DEF TakeTail
<1> HIDE DEF u
<1>3. /\ Searching
      /\ size' = [size EXCEPT ![p] = size[p] - u, ![q] = u]
      /\ held' = held \union {new} /\ freep' = prevp
      /\ pc' = "idle" /\ bp' = NULL /\ ~more' /\ UNCHANGED <<heap_brk, ptr, listed>>
  BY <1>2 DEF TakeTail, Return, u
<1>4. p \in All \ {Base}
  BY <1>1, <1>2 DEF All
<1>5. new.at = q /\ new.bytes = n_bytes
  OBVIOUS
<1>6. q \in Address /\ q # p
  <2>1. p + size[p] <= heap_brk /\ heap_brk <= HeapEnd /\ HeapStart <= p /\ heap_brk \in Nat
    BY <1>4, AllAre, HeadersAre DEF Sized
  <2> QED
    BY <1>1, <1>2, <2>1, HeadersAre DEF Address
<1> HIDE DEF new
<1>7. HeldAt' = HeldAt \union {q} /\ Back' = {} /\ ~Placing'
  BY <1>3, <1>5 DEF HeldAt, Back, Placing
<1>8. All' = All \union {q}
  BY <1>1, <1>3, <1>7 DEF All
<1>9. /\ p \in Header /\ q \in Header
      /\ size'[p] = size[p] - u /\ size'[q] = u
      /\ \A c \in Header : c # p /\ c # q => size'[c] = size[c]
  <2>1. p \in Header /\ q \in Header
    BY <1>1, <1>6, HeadersAre DEF TypeOK
  <2> HIDE DEF q
  <2> QED
    BY <1>3, <1>6, <2>1 DEF TypeOK
<1>10. ASSUME NEW c \in All \ {p} PROVE c # q /\ size'[c] = size[c]
  <2>1. c # q
    <3>1. c \in Nat /\ p \in Nat /\ size[c] \in Nat
      BY AllAre, <1>2
    <3>2. CASE c < p
      BY <1>1, <1>2, <3>1, <3>2
    <3>3. CASE c > p
      <4>1. c >= p + size[p]
        BY <1>4, <3>3 DEF Apart
      <4> QED
        BY <1>1, <1>2, <3>1, <4>1
    <3> QED
      BY <3>1, <3>2, <3>3
  <2> QED
    BY <1>9, <2>1, AllAre
<1>11. Sized' /\ Apart' /\ Covered' /\ q \notin All
  BY <1>1, <1>2, <1>3, <1>4, <1>8, <1>9, <1>10, SpaceSplits
<1> HIDE DEF q
<1>12. \A b \in listed : b \in Header /\ b \in All
  BY DEF TypeOK, All
<1>13. NoTouch'
  <2> SUFFICES ASSUME NEW b \in listed \ {Base} PROVE b + size'[b] \notin listed
    BY <1>3 DEF NoTouch
  <2>1. CASE b = p
    <3>1. p + size'[p] = q
      BY <1>1, <1>2, <1>9
    <3> QED
      BY <1>11, <1>12, <2>1, <3>1
  <2>2. CASE b # p
    BY <1>10, <1>12, <2>2 DEF NoTouch
  <2> QED
    BY <2>1, <2>2
<1>14. Ring'
  BY <1>3 DEF Ring
<1>15. RoomForRequest'
  <2>1. \A block \in held : size'[block.at] = size[block.at]
    <3>1. \A block \in held : block.at \in All /\ block.at \notin listed
      BY DEF All, HeldAt, Separate
    <3> QED
      BY <1>1, <1>10, <3>1
  <2> QED
    BY <1>1, <1>3, <1>5, <1>9, <2>1 DEF RoomForRequest
<1>16. Listing' /\ Locals'
  <2>1. prevp # NULL
    BY <1>1, HeadersAre DEF TypeOK
  <2>2. size'[Base] = 0
    BY <1>1, <1>2, <1>10, <1>12
  <2> QED
    BY <1>1, <1>3, <2>1, <2>2 DEF Listing, Locals
<1>17. Separate'
  <2>1. q \notin listed /\ q \notin HeldAt /\ q # Base
    BY <1>1, <1>11, <1>12 DEF All
  <2>2. \A block \in held : block.at # q
    BY <2>1 DEF HeldAt
  <2> QED
    BY <1>3, <1>5, <1>7, <2>1, <2>2 DEF Separate
<1>18. Searched'
  BY <1>3 DEF Searched, Searching
<1> QED
  BY <1>11, <1>13, <1>14, <1>15, <1>16, <1>17, <1>18 DEF Rest

\* The break moves, and the chunk is on its way to the list.
LEMMA ExtendKeeps ==
    ASSUME IInv, Extend
    PROVE  Rest'
<1> USE DEF IInv
<1> DEFINE k == Chunk(Units(n_bytes))
           top == heap_brk
<1>1. /\ freep \in listed /\ Base \in listed /\ size[Base] = 0
      /\ k \in Nat /\ k >= 1 /\ n_bytes \in Requests /\ Back = {}
  BY SearchPlace DEF Extend
<1>2. NewBreak = top + k
  BY <1>1, NewBreakIs
<1> HIDE DEF k
<1>3. /\ pc = "search" /\ top + k <= HeapEnd /\ heap_brk' = top + k
      /\ size' = [size EXCEPT ![top] = k]
      /\ pc' = "place" /\ bp' = top /\ p' = freep
      /\ UNCHANGED <<freep, ptr, n_bytes, prevp, held, listed>>
  BY <1>2 DEF Extend, k, Searching
<1>4. top \in Nat /\ HeapStart <= top /\ top < HeapEnd /\ top \in Address /\ HeapEnd \in Nat
  BY <1>1, <1>3, AllAre, HeadersAre DEF Address
<1>5. top \in Header /\ top # Base /\ (Base < HeapStart \/ HeapEnd < Base)
  BY <1>4, HeadersAre
<1>6. \A c \in All : /\ c \in Nat /\ size[c] \in Nat /\ c \in Header
                     /\ c # Base => c + size[c] <= top /\ c < top
  BY AllAre DEF Sized
<1> HIDE DEF top
<1>7. top \notin All
  BY <1>4, <1>5, <1>6
<1>8. size'[top] = k /\ \A c \in All : size'[c] = size[c]
  BY <1>3, <1>5, <1>6, <1>7 DEF TypeOK
<1>9. Back' = {top} /\ HeldAt' = HeldAt /\ Placing' /\ ~Placing
  BY <1>3 DEF Back, HeldAt, Placing
<1>10. All' = All \union {top}
  BY <1>1, <1>3, <1>9 DEF All
<1>11. Sized'
  BY <1>1, <1>3, <1>4, <1>6, <1>8, <1>10 DEF Sized
<1>12. Base \in All
  BY <1>1 DEF All
<1>13. Apart'
  <2> SUFFICES ASSUME NEW c \in All', NEW d \in All', c < d PROVE c + size'[c] <= d
    BY DEF Apart
  <2>1. CASE c \in All /\ d \in All
    BY <1>8, <2>1 DEF Apart
  <2>2. CASE c = top /\ d = Base
    BY <1>1, <1>3, <1>4, <1>5, <1>8, <2>2, HeadersAre
  <2>3. CASE c \in All \ {Base} /\ d = top
    BY <1>6, <1>8, <2>3
  <2>4. CASE c = Base /\ d = top
    BY <1>1, <1>4, <1>6, <1>8, <1>12, <2>4
  <2>5. CASE c = top /\ d \in All \ {Base}
    BY <1>4, <1>6, <2>5
  <2>6. CASE c = top /\ d = top
    BY <1>4, <2>6
  <2> QED
    BY <1>10, <2>1, <2>2, <2>3, <2>4, <2>5, <2>6
<1>14. Covered'
  <2> SUFFICES ASSUME NEW a \in HeapStart .. heap_brk' - 1
               PROVE  \E c \in All' : c <= a /\ a < c + size'[c]
    BY DEF Covered
  <2>1. a \in Nat /\ HeapStart \in Nat /\ HeapStart <= a /\ a < top + k
    BY <1>1, <1>3, <1>4, HeadersAre
  <2>2. CASE a < top
    <3>1. a \in HeapStart .. heap_brk - 1
      BY <1>4, <2>1, <2>2 DEF top
    <3>2. PICK c \in All : c <= a /\ a < c + size[c]
      BY <3>1 DEF Covered
    <3> QED
      BY <1>8, <1>10, <3>2
  <2>3. CASE ~(a < top)
    BY <1>1, <1>4, <1>8, <1>10, <2>1, <2>3
  <2> QED
    BY <2>2, <2>3
<1>15. \A b \in listed : b \in All
  BY DEF All
<1>16. Ring' /\ NoTouch'
  BY <1>3, <1>8, <1>15 DEF Ring, NoTouch
<1>17. RoomForRequest'
  <2>1. \A block \in held : block.at \in All
    BY DEF All, HeldAt
  <2> QED
    BY <1>3, <1>8, <2>1 DEF RoomForRequest
<1>18. Listing' /\ Locals'
  BY <1>1, <1>3, <1>4, <1>8, <1>12 DEF Listing, Locals
<1>19. Separate'
  <2>1. \A block \in held : block.at # top
    BY <1>7 DEF All, HeldAt
  <2> QED
    BY <1>3, <1>7, <1>9, <1>15, <2>1 DEF Separate
<1>20. Searched'
  BY <1>3 DEF Searched, Searching
<1> QED
  BY <1>11, <1>13, <1>14, <1>16, <1>17, <1>18, <1>19, <1>20 DEF Rest

-----------------------------------------------------------------------------
(* Blocks that touch are merged *)

\* Line 98: the block ends where the next one on the list begins.
MergesUp == bp + size[bp] = ptr[p]

\* Line 105: the block begins where the one before it ends.
MergesDown == p + size[p] = bp

\* The size of the block with its upper neighbour.
Grown == IF MergesUp THEN size[bp] + size[ptr[p]] ELSE size[bp]

\* What comes next on the list behind the block.
After == IF MergesUp THEN ptr[ptr[p]] ELSE ptr[p]

\* The headers that cease to be blocks of their own.
Gone == (IF MergesUp THEN {ptr[p]} ELSE {}) \union (IF MergesDown THEN {bp} ELSE {})

\* The block everything is merged into.
Merged == IF MergesDown THEN p ELSE bp

\* Where it ends.
End == IF MergesUp THEN ptr[p] + size[ptr[p]] ELSE bp + size[bp]

\* Where the loop of k_free stands when it has found the place.
LEMMA LinkPlace ==
    ASSUME IInv, Link
    PROVE  /\ pc = "place" /\ bp \in Address /\ bp \in Nat /\ bp \notin listed /\ bp \in All
           /\ p \in listed /\ ptr[p] \in listed /\ ptr[ptr[p]] \in listed
           /\ Follows(p, ptr[p], listed) /\ Follows(ptr[p], ptr[ptr[p]], listed)
           /\ Between(bp, p, ptr[p])
           /\ Base \in listed /\ size[Base] = 0 /\ bp # Base
           /\ \A h \in listed : h \in Nat /\ size[h] \in Nat /\ h \in Header /\ h \in All
           /\ size[bp] \in Nat /\ size[bp] >= 1 /\ bp + size[bp] <= heap_brk
<1> USE DEF IInv
<1>1. /\ pc = "place" /\ Placed
  BY DEF Link, Placing
<1>2. bp \in Address /\ p \in listed /\ bp \notin listed
  BY <1>1 DEF Locals, Separate, Placing
<1>3. bp \in Nat /\ bp # Base /\ bp \in All
  BY <1>1, <1>2, HeadersAre DEF All, Back, Placing
<1>4. /\ ptr[p] \in listed /\ ptr[ptr[p]] \in listed
      /\ Follows(p, ptr[p], listed) /\ Follows(ptr[p], ptr[ptr[p]], listed)
  BY <1>2 DEF Ring
<1>5. \A h \in listed : h \in All
  BY DEF All
<1>6. \A h \in listed : h \in Nat /\ size[h] \in Nat /\ h \in Header
  BY <1>5, AllAre
<1>7. Base \in listed /\ size[Base] = 0
  BY <1>1 DEF Listing, Locals
<1>8. size[bp] \in Nat /\ size[bp] >= 1 /\ bp + size[bp] <= heap_brk
  BY <1>3, AllAre DEF Sized
<1>9. Between(bp, p, ptr[p])
  BY <1>1, <1>2, <1>3, <1>4, <1>6 DEF Placed, Between
<1> QED
  BY <1>1, <1>2, <1>3, <1>4, <1>5, <1>6, <1>7, <1>8, <1>9

\* A neighbour that is merged is not base, which no block touches, and lies
\* on the right side.
LEMMA LinkMerges ==
    ASSUME IInv, Link
    PROVE  /\ MergesUp => /\ bp < ptr[p] /\ ptr[p] # Base /\ ptr[p] # p /\ ptr[ptr[p]] # ptr[p]
                          /\ size[ptr[p]] >= 1
           /\ MergesDown => p # Base /\ p < bp /\ size[p] >= 1
<1> DEFINE next == ptr[p]
<1>1. /\ bp \in Address /\ bp \in Nat /\ bp \notin listed
      /\ p \in listed /\ next \in listed /\ ptr[next] \in listed
      /\ Follows(p, next, listed) /\ Follows(next, ptr[next], listed)
      /\ Base \in listed /\ size[Base] = 0 /\ bp # Base
      /\ size[bp] \in Nat /\ size[bp] >= 1 /\ bp + size[bp] <= heap_brk
  BY LinkPlace
<1>2. \A h \in listed : h \in Nat /\ size[h] \in Nat /\ h \in All
  BY LinkPlace
<1>3. \A h \in listed : h # Base => size[h] >= 1
  BY <1>2 DEF IInv, Sized
<1>4. /\ heap_brk \in Nat /\ heap_brk <= HeapEnd /\ HeapStart <= bp /\ HeapStart \in Nat
      /\ HeapEnd \in Nat /\ Base \in Nat /\ (Base < HeapStart \/ HeapEnd < Base)
  BY <1>1, AllAre, HeadersAre
<1> HIDE DEF next
<1>5. ASSUME bp + size[bp] = next PROVE bp < next /\ next # Base
  BY <1>1, <1>2, <1>4, <1>5
<1>6. ASSUME NEW h \in listed, Follows(h, h, listed) PROVE h = Base
  BY <1>1, <1>2, <1>6 DEF Follows
<1>7. ASSUME bp + size[bp] = next PROVE next # p /\ ptr[next] # next /\ size[next] >= 1
  BY <1>1, <1>3, <1>5, <1>6, <1>7
<1>8. ASSUME p + size[p] = bp PROVE p # Base /\ p < bp /\ size[p] >= 1
  <2>1. p # Base
    BY <1>1, <1>4, <1>8
  <2> QED
    BY <1>1, <1>2, <1>3, <1>8, <2>1
<1> QED
  BY <1>5, <1>7, <1>8 DEF MergesUp, MergesDown, next

\* What Link writes, header by header.
LEMMA LinkEffects ==
    ASSUME IInv, Link
    PROVE  /\ size'[Merged] = (IF MergesDown THEN size[p] + Grown ELSE Grown)
           /\ \A h \in Header \ {p, bp} : size'[h] = size[h] /\ ptr'[h] = ptr[h]
           /\ ~MergesDown => size'[p] = size[p] /\ ptr'[p] = bp /\ ptr'[bp] = After
           /\ MergesDown => ptr'[p] = After
           /\ listed' = (listed \union {bp}) \ Gone
           /\ freep' = p /\ heap_brk' = heap_brk /\ held' = held
           /\ \/ pc' = "idle" /\ bp' = NULL /\ ~more'
              \/ /\ pc' = "search" /\ prevp' = p /\ p' = ptr'[p] /\ bp' = NULL /\ ~more'
                 /\ n_bytes' = n_bytes /\ n_bytes \in Requests
<1> USE DEF IInv
<1>1. /\ bp \in Header /\ bp \notin listed /\ p \in listed /\ p \in Header /\ p # bp
      /\ ptr[p] \in listed /\ pc = "place"
  BY LinkPlace, HeadersAre
<1>2. /\ size' = (IF MergesDown
                  THEN [size EXCEPT ![bp] = Grown, ![p] = @ + Grown]
                  ELSE [size EXCEPT ![bp] = Grown])
      /\ ptr' = [ptr EXCEPT ![bp] = After, ![p] = IF MergesDown THEN After ELSE bp]
  BY DEF Link, MergesUp, MergesDown, Grown, After
<1>3. /\ size \in [Header -> Nat] /\ ptr \in [Header -> Header \union {NULL}]
  BY DEF TypeOK
<1>4. /\ size'[Merged] = (IF MergesDown THEN size[p] + Grown ELSE Grown)
      /\ \A h \in Header \ {p, bp} : size'[h] = size[h]
      /\ ~MergesDown => size'[p] = size[p]
  <2>1. CASE MergesDown
    BY <1>1, <1>2, <1>3, <2>1 DEF Merged
  <2>2. CASE ~MergesDown
    BY <1>1, <1>2, <1>3, <2>2 DEF Merged
  <2> QED
    BY <2>1, <2>2
<1>5. /\ \A h \in Header \ {p, bp} : ptr'[h] = ptr[h]
      /\ ptr'[p] = (IF MergesDown THEN After ELSE bp) /\ ptr'[bp] = After
  BY <1>1, <1>2, <1>3
<1>6. listed' = (listed \union {bp}) \ Gone
  <2>1. listed' = (listed \ (IF MergesUp THEN {ptr[p]} ELSE {}))
                     \union (IF MergesDown THEN {} ELSE {bp})
    BY DEF Link, MergesUp, MergesDown
  <2> QED
    BY <1>1, <2>1 DEF Gone
<1>7. freep' = p /\ heap_brk' = heap_brk /\ held' = held
  BY DEF Link
<1>8. \/ pc' = "idle" /\ bp' = NULL /\ ~more'
      \/ /\ pc' = "search" /\ prevp' = p /\ p' = ptr'[p] /\ bp' = NULL /\ ~more'
         /\ n_bytes' = n_bytes /\ n_bytes \in Requests
  BY <1>1 DEF Link, Return, Locals
<1> QED
  BY <1>4, <1>5, <1>6, <1>7, <1>8

\* Blocks that lie in a row become one.
LEMMA SpaceMerges ==
    ASSUME IInv, NEW h \in All \ {Base}, NEW end \in Nat, NEW gone, h \notin gone,
           heap_brk' = heap_brk, All' = All \ gone,
           \A c \in All \ gone : c # h => size'[c] = size[c],
           size'[h] \in Nat, h + size'[h] = end, h + size[h] <= end, end <= heap_brk,
           \A g \in gone : g \in All /\ h <= g /\ g + size[g] <= end,
           \A c \in All \ gone : c > h => end <= c
    PROVE  Sized' /\ Apart' /\ Covered'
<1>1. /\ h \in Nat /\ size[h] \in Nat /\ size[h] >= 1 /\ heap_brk \in Nat
      /\ \A c \in All : c \in Nat /\ size[c] \in Nat
  BY AllAre DEF IInv, Sized
<1>2. Sized'
  <2> SUFFICES ASSUME NEW b \in All' \ {Base}
               PROVE  size'[b] >= 1 /\ b + size'[b] <= heap_brk'
    BY DEF Sized
  <2>1. CASE b = h
    BY <1>1, <2>1
  <2>2. CASE b # h
    BY <2>2 DEF IInv, Sized
  <2> QED
    BY <2>1, <2>2
<1>3. Apart'
  <2> SUFFICES ASSUME NEW b \in All', NEW c \in All', b < c
               PROVE  b + size'[b] <= c
    BY DEF Apart
  <2>1. CASE b = h
    BY <1>1, <2>1
  <2>2. CASE b # h
    BY <2>2 DEF IInv, Apart
  <2> QED
    BY <2>1, <2>2
<1>4. Covered'
  <2> SUFFICES ASSUME NEW a \in HeapStart .. heap_brk' - 1
               PROVE  \E c \in All' : c <= a /\ a < c + size'[c]
    BY DEF Covered
  <2>1. a \in Nat /\ a \in HeapStart .. heap_brk - 1
    BY <1>1, HeadersAre
  <2>2. PICK c \in All : c <= a /\ a < c + size[c]
    BY <2>1 DEF IInv, Covered
  <2>3. CASE c \in gone \/ c = h
    <3>1. h <= a /\ a < end
      BY <1>1, <2>1, <2>2, <2>3
    <3> QED
      BY <3>1
  <2>4. CASE c \notin gone /\ c # h
    BY <2>2, <2>4
  <2> QED
    BY <2>3, <2>4
<1> QED
  BY <1>2, <1>3, <1>4

\* Link keeps the extents: the blocks it merges lie in a row, and nothing is
\* between them.
LEMMA LinkSpace ==
    ASSUME IInv, Link
    PROVE  /\ Sized' /\ Apart' /\ Covered'
           /\ Merged + size'[Merged] = End /\ End \in Nat /\ End > bp
<1> DEFINE next == ptr[p]
<1>1. /\ pc = "place" /\ bp \in Address /\ bp \in Nat /\ bp \notin listed /\ bp \in All
      /\ p \in listed /\ next \in listed /\ Base \in listed /\ bp # Base
      /\ \A h \in listed : h \in Nat /\ size[h] \in Nat /\ h \in Header /\ h \in All
      /\ size[bp] \in Nat /\ size[bp] >= 1 /\ bp + size[bp] <= heap_brk
  BY LinkPlace
<1>2. /\ MergesUp => bp < next /\ next # Base /\ next # p /\ size[next] >= 1
      /\ MergesDown => p # Base /\ p < bp /\ size[p] >= 1
  BY LinkMerges
<1>3. p \in Nat /\ next \in Nat /\ size[p] \in Nat /\ size[next] \in Nat /\ heap_brk \in Nat
  BY <1>1, AllAre
<1>4. /\ MergesUp <=> bp + size[bp] = next
      /\ MergesDown <=> p + size[p] = bp
      /\ End = (IF MergesUp THEN next + size[next] ELSE bp + size[bp])
      /\ Grown = (IF MergesUp THEN size[bp] + size[next] ELSE size[bp])
      /\ Merged = (IF MergesDown THEN p ELSE bp)
      /\ Gone = (IF MergesUp THEN {next} ELSE {}) \union (IF MergesDown THEN {bp} ELSE {})
  BY DEF MergesUp, MergesDown, End, Grown, Merged, Gone
<1>5. size'[Merged] = (IF MergesDown THEN size[p] + Grown ELSE Grown)
  BY LinkEffects
<1>6. /\ \A h \in Header \ {p, bp} : size'[h] = size[h]
      /\ ~MergesDown => size'[p] = size[p]
      /\ listed' = (listed \union {bp}) \ Gone /\ heap_brk' = heap_brk /\ held' = held
  BY LinkEffects
<1> HIDE DEF next
<1>7. Grown \in Nat /\ bp + Grown = End /\ End \in Nat /\ End > bp
  <2>1. CASE MergesUp
    BY <1>1, <1>3, <1>4, <2>1
  <2>2. CASE ~MergesUp
    BY <1>1, <1>3, <1>4, <2>2
  <2> QED
    BY <2>1, <2>2
<1>8. size'[Merged] \in Nat /\ Merged + size'[Merged] = End
  <2>1. CASE MergesDown
    BY <1>1, <1>3, <1>4, <1>5, <1>7, <2>1
  <2>2. CASE ~MergesDown
    BY <1>1, <1>3, <1>4, <1>5, <1>7, <2>2
  <2> QED
    BY <2>1, <2>2
<1>9. bp + size[bp] <= End /\ End <= heap_brk /\ (MergesUp => next + size[next] = End)
  <2>1. CASE MergesUp
    <3>1. next + size[next] <= heap_brk
      BY <1>1, <1>2, <2>1 DEF IInv, Sized
    <3> QED
      BY <1>1, <1>3, <1>4, <2>1, <3>1
  <2>2. CASE ~MergesUp
    BY <1>1, <1>3, <1>4, <2>2
  <2> QED
    BY <2>1, <2>2
<1>10. Merged \in All \ {Base} /\ Merged \notin Gone /\ Merged + size[Merged] <= End
       /\ Merged <= bp
  <2>1. CASE MergesDown
    BY <1>1, <1>2, <1>3, <1>4, <1>9, <2>1
  <2>2. CASE ~MergesDown
    BY <1>1, <1>2, <1>3, <1>4, <1>9, <2>2
  <2> QED
    BY <2>1, <2>2
<1>11. \A g \in Gone : g \in All /\ Merged <= g /\ g + size[g] <= End
  <2> SUFFICES ASSUME NEW g \in Gone PROVE g \in All /\ Merged <= g /\ g + size[g] <= End
    OBVIOUS
  <2>1. CASE g = bp
    BY <1>1, <1>9, <1>10, <2>1
  <2>2. CASE MergesUp /\ g = next
    <3>1. Merged \in Nat /\ Merged <= bp /\ bp < next
      BY <1>1, <1>2, <1>3, <1>4, <1>10, <2>2
    <3> QED
      BY <1>1, <1>3, <1>7, <1>9, <2>2, <3>1
  <2> QED
    BY <1>4, <2>1, <2>2
<1>12. \A c \in All \ Gone : c > Merged => End <= c
  <2> SUFFICES ASSUME NEW c \in All \ Gone, c > Merged PROVE End <= c
    OBVIOUS
  <2>0. c \in Nat /\ \A b \in All : b < c => b + size[b] <= c
    BY AllAre DEF IInv, Apart
  <2>1. c > bp
    <3>1. CASE MergesDown
      <4>1. p + size[p] <= c /\ c # bp
        BY <1>1, <1>3, <1>4, <2>0, <3>1
      <4> QED
        BY <1>1, <1>3, <1>4, <2>0, <3>1, <4>1
    <3>2. CASE ~MergesDown
      BY <1>4, <3>2
    <3> QED
      BY <3>1, <3>2
  <2>2. bp + size[bp] <= c
    BY <1>1, <2>0, <2>1
  <2>3. CASE MergesUp
    <3>1. next < c
      BY <1>1, <1>3, <1>4, <2>0, <2>2, <2>3
    <3> QED
      BY <1>1, <1>9, <2>0, <2>3, <3>1
  <2>4. CASE ~MergesUp
    BY <1>4, <2>2, <2>4
  <2> QED
    BY <2>3, <2>4
<1>13. All' = All \ Gone
  <2>1. ~Placing' /\ Placing
    BY <1>1, LinkEffects DEF Placing
  <2>2. HeldAt' = HeldAt /\ Back = {bp} /\ Back' = {}
    BY <1>6, <2>1 DEF HeldAt, Back
  <2>3. HeldAt \intersect Gone = {}
    <3>1. \A block \in held : block.at \notin listed /\ block.at # bp
      BY <2>1 DEF IInv, Separate
    <3>2. Gone \subseteq listed \union {bp}
      BY <1>1, <1>4
    <3> QED
      BY <3>1, <3>2 DEF HeldAt
  <2> QED
    BY <1>6, <2>2, <2>3 DEF All
<1>14. \A c \in All \ Gone : c # Merged => size'[c] = size[c]
  <2> SUFFICES ASSUME NEW c \in All \ Gone, c # Merged PROVE size'[c] = size[c]
    OBVIOUS
  <2>1. c \in Header
    BY AllAre
  <2>2. CASE MergesDown
    BY <1>4, <1>6, <2>1, <2>2
  <2>3. CASE ~MergesDown
    BY <1>4, <1>6, <2>1, <2>3
  <2> QED
    BY <2>2, <2>3
<1>15. Sized' /\ Apart' /\ Covered'
  BY <1>6, <1>7, <1>8, <1>9, <1>10, <1>11, <1>12, <1>13, <1>14, SpaceMerges
<1> QED
  BY <1>7, <1>8, <1>15

\* Link keeps the order of the list.
LEMMA LinkRing ==
    ASSUME IInv, Link
    PROVE  Ring'
<1> DEFINE next == ptr[p]
           with == listed \union {bp}
<1>1. /\ bp \in Nat /\ bp \notin listed
      /\ p \in listed /\ next \in listed /\ ptr[next] \in listed
      /\ Follows(p, next, listed) /\ Follows(next, ptr[next], listed)
      /\ Between(bp, p, next)
      /\ \A h \in listed : h \in Nat /\ h \in Header
  BY LinkPlace
<1>2. MergesUp => next # p /\ ptr[next] # next
  BY LinkMerges
<1>3. /\ \A h \in Header \ {p, bp} : ptr'[h] = ptr[h]
      /\ ~MergesDown => ptr'[p] = bp /\ ptr'[bp] = After
      /\ MergesDown => ptr'[p] = After
      /\ listed' = with \ Gone
      /\ After = (IF MergesUp THEN ptr[next] ELSE next)
      /\ Gone = (IF MergesUp THEN {next} ELSE {}) \union (IF MergesDown THEN {bp} ELSE {})
  BY LinkEffects DEF After, Gone
<1> HIDE DEF next
<1>4. /\ Follows(p, bp, with) /\ Follows(bp, next, with)
      /\ \A k, m \in listed : k # p /\ Follows(k, m, listed) => Follows(k, m, with)
  BY <1>1, FollowsInserted
<1>5. listed \subseteq Nat /\ with \subseteq Nat
  BY <1>1
<1>6. \A h \in listed : ptr[h] \in listed /\ Follows(h, ptr[h], listed)
  BY DEF IInv, Ring
<1>7. \A h \in listed \ {p} : ptr[h] # next
  BY <1>1, <1>5, <1>6, FollowsOnce
<1> SUFFICES ASSUME NEW h \in listed'
             PROVE  ptr'[h] \in listed' /\ Follows(h, ptr'[h], listed')
  BY DEF Ring
<1>8. CASE h # p /\ h # bp
  <2>1. h \in listed /\ ptr'[h] = ptr[h] /\ ptr[h] \in listed /\ ptr[h] # next
    BY <1>1, <1>3, <1>6, <1>7, <1>8
  <2>2. ptr[h] # bp /\ ptr[h] \in listed'
    BY <1>1, <1>3, <2>1
  <2>3. Follows(h, ptr[h], with)
    BY <1>4, <1>6, <1>8, <2>1
  <2>4. Follows(h, ptr[h], listed')
    BY <1>3, <2>3, FollowsSubset
  <2> QED
    BY <2>1, <2>2, <2>4
<1>9. CASE h = bp
  <2>1. ~MergesDown /\ ptr'[bp] = After
    BY <1>3, <1>9
  <2>2. CASE MergesUp
    <3>1. Follows(next, ptr[next], with)
      BY <1>1, <1>2, <1>4, <2>2
    <3>2. Follows(bp, ptr[next], with \ {next})
      <4>1. bp \in with /\ next \in with /\ ptr[next] \in with /\ bp # next
        BY <1>1
      <4> HIDE DEF with
      <4> QED
        BY <1>4, <1>5, <3>1, <4>1, FollowsRemoved
    <3>3. listed' = with \ {next} /\ ptr[next] \in listed'
      BY <1>1, <1>2, <1>3, <2>1, <2>2
    <3> QED
      BY <1>3, <1>9, <2>1, <2>2, <3>2, <3>3
  <2>3. CASE ~MergesUp
    BY <1>1, <1>3, <1>4, <1>9, <2>1, <2>3
  <2> QED
    BY <2>2, <2>3
<1>10. CASE h = p /\ ~MergesDown
  <2>1. ptr'[p] = bp /\ bp \in listed'
    BY <1>1, <1>3, <1>10
  <2>2. Follows(p, bp, listed')
    BY <1>3, <1>4, FollowsSubset
  <2> QED
    BY <1>10, <2>1, <2>2
<1>11. CASE h = p /\ MergesDown
  <2>1. CASE MergesUp
    <3>1. Follows(p, ptr[next], listed \ {next})
      BY <1>1, <1>2, <1>5, <2>1, FollowsRemoved
    <3>2. listed' = listed \ {next} /\ ptr[next] \in listed' /\ ptr'[p] = ptr[next]
      BY <1>1, <1>2, <1>3, <1>11, <2>1
    <3> QED
      BY <1>11, <3>1, <3>2
  <2>2. CASE ~MergesUp
    <3>1. listed' = listed /\ ptr'[p] = next
      BY <1>1, <1>3, <1>11, <2>2
    <3> QED
      BY <1>1, <1>11, <3>1
  <2> QED
    BY <2>1, <2>2
<1> QED
  BY <1>8, <1>9, <1>10, <1>11

\* After Link no two blocks on the list touch: whatever touches the block is
\* its neighbour on the list.
LEMMA LinkNoTouch ==
    ASSUME IInv, Link
    PROVE  NoTouch'
<1> DEFINE next == ptr[p]
<1>1. /\ bp \in Nat /\ bp \notin listed /\ bp \in All
      /\ p \in listed /\ next \in listed
      /\ Follows(p, next, listed) /\ Between(bp, p, next)
      /\ \A h \in listed : h \in Nat /\ size[h] \in Nat /\ h \in Header /\ h \in All
      /\ size[bp] \in Nat /\ size[bp] >= 1
  BY LinkPlace
<1>2. MergesUp => next # Base
  BY LinkMerges
<1>3. /\ \A h \in Header \ {p, bp} : size'[h] = size[h]
      /\ ~MergesDown => size'[p] = size[p]
      /\ listed' = (listed \union {bp}) \ Gone
  BY LinkEffects
<1>4. Merged + size'[Merged] = End /\ End > bp /\ End \in Nat
  BY LinkSpace
<1>5. /\ MergesUp <=> bp + size[bp] = next
      /\ MergesDown <=> p + size[p] = bp
      /\ End = (IF MergesUp THEN next + size[next] ELSE bp + size[bp])
      /\ Merged = (IF MergesDown THEN p ELSE bp)
      /\ Gone = (IF MergesUp THEN {next} ELSE {}) \union (IF MergesDown THEN {bp} ELSE {})
  BY DEF MergesUp, MergesDown, End, Merged, Gone
<1> HIDE DEF next
<1>6. /\ \A f \in listed : f > bp => bp < next /\ next <= f
      /\ \A f \in listed : f < bp => p < bp /\ f <= p
  BY <1>1, Neighbours
<1>7. \A b, c \in All : b < c => b + size[b] <= c
  BY DEF IInv, Apart
<1>8. \A b \in listed \ {Base} : b + size[b] \notin listed /\ size[b] >= 1
  BY <1>1 DEF IInv, NoTouch, Sized
<1>9. End \notin listed /\ End # bp
  <2>1. CASE MergesUp
    BY <1>1, <1>2, <1>4, <1>5, <1>8, <2>1
  <2>2. CASE ~MergesUp
    <3>1. ASSUME End \in listed PROVE FALSE
      <4>1. End = bp + size[bp] /\ bp < next /\ next <= End
        BY <1>4, <1>5, <1>6, <2>2, <3>1
      <4>2. bp + size[bp] <= next
        BY <1>1, <1>7, <4>1
      <4> QED
        BY <1>1, <1>4, <1>5, <2>2, <4>1, <4>2
    <3> QED
      BY <1>1, <1>4, <3>1
  <2> QED
    BY <2>1, <2>2
<1> SUFFICES ASSUME NEW b \in listed' \ {Base} PROVE b + size'[b] \notin listed'
  BY DEF NoTouch
<1>10. CASE b = Merged
  BY <1>3, <1>4, <1>9, <1>10
<1>11. CASE b # Merged
  <2>1. b \in listed /\ b # bp /\ size'[b] = size[b] /\ size[b] >= 1 /\ b + size[b] \notin listed
    BY <1>1, <1>3, <1>5, <1>8, <1>11
  <2>2. b + size[b] = bp => MergesDown
    <3> SUFFICES ASSUME b + size[b] = bp PROVE MergesDown
      OBVIOUS
    <3>1. b \in Nat /\ p \in Nat /\ size[b] \in Nat
      BY <1>1, <2>1
    <3>2. b < bp /\ p < bp /\ b <= p
      BY <1>1, <1>6, <2>1, <3>1
    <3>3. b = p
      BY <1>1, <1>7, <2>1, <3>1, <3>2
    <3> QED
      BY <1>5, <3>3
  <2>3. MergesDown => bp \notin listed'
    BY <1>3, <1>5
  <2> QED
    BY <1>3, <2>1, <2>2, <2>3
<1> QED
  BY <1>10, <1>11

\* k_free has put the block back; k_malloc goes on, having searched nothing
\* of the new round.
LEMMA LinkKeeps ==
    ASSUME IInv, Link
    PROVE  Rest'
<1> DEFINE next == ptr[p]
<1>1. /\ pc = "place" /\ bp \in Nat /\ bp \notin listed /\ bp # Base
      /\ p \in listed /\ next \in listed /\ Base \in listed /\ size[Base] = 0
      /\ \A h \in listed : h \in Nat /\ h \in Header
      /\ Base \notin HeldAt
  BY LinkPlace DEF IInv, Separate
<1>2. /\ MergesUp => next # Base /\ next # p
      /\ MergesDown => p # Base
  BY LinkMerges
<1>3. /\ \A h \in Header \ {p, bp} : size'[h] = size[h]
      /\ ~MergesDown => size'[p] = size[p]
      /\ listed' = (listed \union {bp}) \ Gone
      /\ Gone = (IF MergesUp THEN {next} ELSE {}) \union (IF MergesDown THEN {bp} ELSE {})
      /\ freep' = p /\ heap_brk' = heap_brk /\ held' = held
  BY LinkEffects DEF Gone
<1>4. \/ pc' = "idle" /\ bp' = NULL /\ ~more'
      \/ /\ pc' = "search" /\ prevp' = p /\ p' = ptr'[p] /\ bp' = NULL /\ ~more'
         /\ n_bytes' = n_bytes /\ n_bytes \in Requests
  BY LinkEffects
<1>5. \A block \in held : /\ block.at \in Header /\ block.at \notin listed /\ block.at # bp
  <2>1. \A block \in held : block.at \in HeldAt
    BY DEF HeldAt
  <2> QED
    BY <1>1, <2>1, AllAre, HeadersAre DEF IInv, Separate, Placing
<1> HIDE DEF next
<1>6. p \in listed' /\ Base \in listed' /\ p # NULL
  <2>1. p # NULL
    BY <1>1 DEF NULL
  <2> QED
    BY <1>1, <1>2, <1>3, <2>1
<1>7. Sized' /\ Apart' /\ Covered' /\ Ring' /\ NoTouch'
  BY LinkSpace, LinkRing, LinkNoTouch
<1>8. RoomForRequest'
  BY <1>1, <1>3, <1>5 DEF IInv, RoomForRequest
<1>9. Listing'
  <2>1. size'[Base] = 0
    BY <1>1, <1>2, <1>3
  <2> QED
    BY <1>3, <1>6, <2>1 DEF Listing
<1>10. Locals'
  <2>1. CASE pc' = "idle" /\ bp' = NULL /\ ~more'
    BY <2>1 DEF Locals
  <2>2. CASE /\ pc' = "search" /\ prevp' = p /\ p' = ptr'[p] /\ bp' = NULL /\ ~more'
             /\ n_bytes' = n_bytes /\ n_bytes \in Requests
    BY <1>3, <1>6, <2>2 DEF Locals
  <2> QED
    BY <1>4, <2>1, <2>2
<1>11. Separate'
  <2>1. ~Placing' /\ HeldAt' = HeldAt
    BY <1>3, <1>4 DEF Placing, HeldAt
  <2>2. \A b, c \in held : b.at = c.at => b = c
    BY DEF IInv, Separate
  <2> QED
    BY <1>1, <1>3, <1>5, <2>1, <2>2 DEF Separate
<1>12. Searched'
  <2>1. SUFFICES ASSUME pc' = "search" PROVE \A h \in listed' : ~Passed(h, p, p')
    BY <1>3 DEF Searched, Searching
  <2>2. p' = ptr'[p]
    BY <1>4, <2>1
  <2>3. ptr'[p] \in listed' /\ Follows(p, ptr'[p], listed')
    BY <1>6, <1>7 DEF Ring
  <2>4. listed' \subseteq Nat
    BY <1>1, <1>3
  <2> QED
    BY <1>6, <2>2, <2>3, <2>4, NothingPassed
<1> QED
  BY <1>7, <1>8, <1>9, <1>10, <1>11, <1>12 DEF Rest

-----------------------------------------------------------------------------
(* The invariant *)

\* The initial states satisfy the invariant.
LEMMA RestStarts == Init => Rest
<1> SUFFICES ASSUME Init PROVE Rest
  OBVIOUS
<1>1. /\ heap_brk = HeapStart /\ freep = NULL /\ pc = "idle" /\ bp = NULL /\ ~more
      /\ held = {} /\ listed = {}
  BY DEF Init
<1>2. All = {} /\ ~Placing
  BY <1>1 DEF All, HeldAt, Back, Placing
<1>3. Listing /\ Locals
  BY <1>1 DEF Listing, Locals
<1>4. Separate
  BY <1>1, <1>2 DEF Separate, HeldAt
<1>5. Sized /\ Apart
  BY <1>2 DEF Sized, Apart
<1>6. Covered
  BY <1>1, HeadersAre DEF Covered
<1>7. Ring /\ NoTouch /\ RoomForRequest /\ Searched
  BY <1>1 DEF Ring, NoTouch, RoomForRequest, Searched, Searching
<1> QED
  BY <1>3, <1>4, <1>5, <1>6, <1>7 DEF Rest

\* Every step keeps the invariant.
LEMMA RestKept ==
    ASSUME IInv, [Next]_vars
    PROVE  Rest'
<1>1. CASE UNCHANGED vars
  <2>1. Rest
    BY DEF IInv, Rest
  <2> QED
    BY <1>1, <2>1 DEF vars, Rest, Listing, Locals, Separate, Sized, Apart, Covered, Ring, NoTouch,
       RoomForRequest, Searched, All, HeldAt, Back, Placing, Searching
<1>2. ASSUME NEW n \in Requests, Malloc(n) PROVE Rest'
  BY <1>2, MallocKeeps
<1>3. ASSUME NEW block \in held, Free(block) PROVE Rest'
  BY <1>3, FreeKeeps
<1>4. CASE TakeWhole
  BY <1>4, TakeWholeKeeps
<1>5. CASE TakeTail
  BY <1>5, TakeTailKeeps
<1>6. CASE SearchNext
  BY <1>6, SearchNextKeeps
<1>7. CASE Extend
  BY <1>7, ExtendKeeps
<1>8. CASE Fail
  BY <1>8, FailKeeps
<1>9. CASE PlaceNext
  BY <1>9, PlaceNextKeeps
<1>10. CASE Link
  BY <1>10, LinkKeeps
<1> QED
  BY <1>1, <1>2, <1>3, <1>4, <1>5, <1>6, <1>7, <1>8, <1>9, <1>10 DEF Next, Step

\* The two parts of the invariant.
LEMMA RestIs == IInv <=> TypeOK /\ Rest
  BY DEF IInv, Rest

\* The invariant holds always.
THEOREM Invariant == Spec => []IInv
<1>1. Init => IInv
  BY TypesStart, RestStarts, RestIs
<1>2. IInv /\ [Next]_vars => IInv'
  <2> SUFFICES ASSUME IInv, [Next]_vars PROVE IInv'
    OBVIOUS
  <2>1. TypeOK' /\ Rest'
    BY TypesKept, RestKept
  <2> QED
    BY <2>1 DEF IInv, Rest
<1> QED
  BY <1>1, <1>2, PTL DEF Spec

-----------------------------------------------------------------------------
(* What follows from it *)

\* TypeOK: type correctness. No break beyond heap_end is among it.
THEOREM Typing == Spec => []TypeOK
<1>1. IInv => TypeOK
  BY DEF IInv
<1> QED
  BY <1>1, Invariant, PTL

\* The invariant gives that the blocks tile the heap.
LEMMA TiledIfInvariant == ASSUME IInv PROVE Tiled
<1>1. Blocks = All \ {Base}
  <2>1. Base \notin HeldAt /\ Base \notin Back
    BY HeadersAre DEF IInv, Separate, Locals, Back, Placing
  <2> QED
    BY <2>1 DEF Blocks, All, HeldAt, Back
<1>2. /\ \A b \in All : b \in Nat /\ size[b] \in Nat /\ (b # Base => b \in Address)
      /\ heap_brk \in Nat /\ HeapStart \in Nat
  BY AllAre, HeadersAre
<1>3. \A b \in All \ {Base} : HeapStart <= b /\ b + size[b] <= heap_brk
  BY <1>2, HeadersAre DEF IInv, Sized
<1>4. UNION {Extent(b) : b \in Blocks} = HeapStart .. heap_brk - 1
  <2>1. ASSUME NEW b \in Blocks, NEW a \in Extent(b) PROVE a \in HeapStart .. heap_brk - 1
    BY <1>1, <1>2, <1>3, <2>1 DEF Extent
  <2>2. ASSUME NEW a \in HeapStart .. heap_brk - 1 PROVE \E b \in Blocks : a \in Extent(b)
    <3>1. PICK b \in All : b <= a /\ a < b + size[b]
      BY DEF IInv, Covered
    <3>2. b # Base
      BY <1>2, <3>1 DEF IInv, Listing, All, Locals, HeldAt, Back, Placing
    <3>3. a \in Extent(b)
      BY <1>2, <3>1 DEF Extent
    <3> QED
      BY <1>1, <3>2, <3>3
  <2> QED
    BY <2>1, <2>2
<1>5. ASSUME NEW b \in Blocks, NEW c \in Blocks, b # c
      PROVE  Extent(b) \intersect Extent(c) = {}
  <2>1. ASSUME NEW a \in Extent(b), a \in Extent(c) PROVE FALSE
    <3>1. /\ b \in All /\ c \in All /\ a \in Nat
          /\ b <= a /\ a < b + size[b] /\ c <= a /\ a < c + size[c]
      BY <1>1, <1>2, <2>1 DEF Extent
    <3> QED
      BY <1>5, <3>1, Disjoint
  <2> QED
    BY <2>1
<1>6. \A b, c \in held : b.at = c.at => b = c
  BY DEF IInv, Separate
<1> QED
  BY <1>4, <1>5, <1>6 DEF Tiled

\* Tiled for a heap of any size and any requests: whatever is split and
\* merged, every address below the break belongs to exactly one block.
THEOREM HeapTiled == Spec => []Tiled
  BY Invariant, TiledIfInvariant, PTL

\* A least element is the one CHOOSE finds.
LEMMA LeastIs ==
    ASSUME NEW S, S \subseteq Nat, NEW g \in S, \A f \in S : g <= f
    PROVE  (CHOOSE x \in S : \A f \in S : x <= f) = g
<1> DEFINE Least(x) == x \in S /\ \A f \in S : x <= f
<1>1. Least(g)
  OBVIOUS
<1>2. \A x : Least(x) => x = g
  BY <1>1
<1>3. Least(CHOOSE x : Least(x))
  <2> HIDE DEF Least
  <2> QED
    BY <1>1
<1>4. (CHOOSE x : Least(x)) = g
  BY <1>2, <1>3
<1> QED
  BY <1>4

\* The invariant gives the order of the list.
LEMMA OrderedIfInvariant == ASSUME IInv PROVE RingInOrder
<1>1. ASSUME NEW h \in listed PROVE ptr[h] = NextListed(h)
  <2> DEFINE above == {g \in listed : g > h}
             from == IF above = {} THEN listed ELSE above
  <2>1. /\ listed \subseteq Nat /\ ptr[h] \in listed /\ Follows(h, ptr[h], listed)
        /\ h \in Nat /\ ptr[h] \in Nat /\ \A f \in listed : f \in Nat
    BY Listed DEF IInv, Ring
  <2>2. ptr[h] \in from /\ \A f \in from : ptr[h] <= f
    <3>1. CASE h < ptr[h]
      <4>1. ptr[h] \in above
        BY <2>1, <3>1
      <4>2. \A f \in above : ptr[h] <= f
        BY <2>1, <3>1 DEF Follows
      <4> QED
        BY <4>1, <4>2
    <3>2. CASE ptr[h] <= h
      <4>1. \A f \in listed : ptr[h] <= f /\ f <= h
        BY <2>1, <3>2 DEF Follows
      <4>2. above = {}
        <5>1. \A g \in listed : ~(g > h)
          BY <2>1, <4>1
        <5> QED
          BY <5>1
      <4> QED
        BY <2>1, <4>1, <4>2
    <3> QED
      BY <2>1, <3>1, <3>2
  <2>3. from \subseteq Nat
    BY <2>1
  <2>4. NextListed(h) = CHOOSE g \in from : \A f \in from : g <= f
    BY DEF NextListed
  <2> HIDE DEF from
  <2> QED
    BY <2>2, <2>3, <2>4, LeastIs
<1> QED
  BY <1>1 DEF RingInOrder, IInv, NoTouch

\* RingInOrder: the free list is one ring in the order of addresses, and
\* neighbours that touch are always merged.
THEOREM FreeListInOrder == Spec => []RingInOrder
  BY Invariant, OrderedIfInvariant, PTL

\* RoomForRequest: a block held has room for the bytes asked for.
THEOREM BlocksLargeEnough == Spec => []RoomForRequest
<1>1. IInv => RoomForRequest
  BY DEF IInv
<1> QED
  BY <1>1, Invariant, PTL

\* A search that ends without a block is a failure, after the whole ring.
LEMMA NullStep ==
    ASSUME IInv, [Next]_vars, Searching, pc' = "idle", held' = held
    PROVE  /\ \A b \in listed : size[b] < Units(n_bytes)
           /\ heap_brk + Chunk(Units(n_bytes)) > HeapEnd
<1>1. ~TakeWhole
  <2> SUFFICES ASSUME TakeWhole PROVE FALSE
    OBVIOUS
  <2>1. [at |-> p, bytes |-> n_bytes] \in held /\ p \in listed
    BY SearchPlace DEF TakeWhole
  <2> QED
    BY <2>1 DEF IInv, Separate
<1>2. ~TakeTail
  <2> SUFFICES ASSUME TakeTail PROVE FALSE
    OBVIOUS
  <2> DEFINE q == p + (size[p] - Units(n_bytes))
  <2>1. [at |-> q, bytes |-> n_bytes] \in held /\ p \in listed
    BY SearchPlace DEF TakeTail
  <2>2. /\ p \in Nat /\ size[p] \in Nat /\ Units(n_bytes) \in Nat /\ Units(n_bytes) >= 1
        /\ size[p] > Units(n_bytes)
    BY SearchPlace, Listed DEF TakeTail
  <2>3. q \in All /\ p \in All
    <3>1. [at |-> q, bytes |-> n_bytes].at = q
      OBVIOUS
    <3> QED
      BY <2>1, <3>1 DEF All, HeldAt
  <2>4. p < q /\ q < p + size[p]
    BY <2>2
  <2>5. p + size[p] <= q
    BY <2>3, <2>4 DEF IInv, Apart
  <2> QED
    BY <2>2, <2>4, <2>5
<1>3. Fail
  <2>1. pc = "search" /\ pc' # pc
    BY DEF Searching
  <2> QED
    BY <1>1, <1>2, <2>1
    DEF Next, Step, Malloc, Free, SearchNext, Extend, PlaceNext, Placing, Link, vars
<1>4. size[p] < Units(n_bytes) /\ p = freep /\ NewBreak > HeapEnd
  BY <1>3, SearchPlace DEF Fail, Fits
<1>5. /\ freep \in listed /\ n_bytes \in Requests
      /\ \A h \in listed : Passed(h, freep, p) => size[h] < Units(n_bytes)
  BY SearchPlace DEF IInv, Searched
<1>6. \A h \in listed : size[h] < Units(n_bytes)
  BY <1>4, <1>5, Listed, AllPassed
<1>7. NewBreak = heap_brk + Chunk(Units(n_bytes))
  BY <1>5, NewBreakIs DEF IInv
<1> QED
  BY <1>4, <1>6, <1>7

\* NullOnlyWhenFull: k_malloc returns NULL only when no block on the list is
\* large enough and no chunk is left.
THEOREM FailsOnlyWhenFull == Spec => NullOnlyWhenFull
<1>1. IInv /\ [Next]_vars =>
         [Searching /\ pc' = "idle" /\ held' = held =>
             /\ \A b \in listed : size[b] < Units(n_bytes)
             /\ heap_brk + Chunk(Units(n_bytes)) > HeapEnd]_vars
  BY NullStep
<1> QED
  BY <1>1, Invariant, PTL DEF Spec, NullOnlyWhenFull
=============================================================================
