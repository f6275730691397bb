------------------------------ MODULE FramePool ------------------------------
(***************************************************************************)
(* What the physical memory manager promises the rest of the kernel: a     *)
(* pool of page frames.  A frame is free, handed out (`allocated'),        *)
(* reserved for good, or in transit in exactly one call.  Each operation   *)
(* is a single step here; kernel/mm/pm.c takes many (FrameAllocator).      *)
(***************************************************************************)
CONSTANTS CPU,       \* the callers
          Frame,     \* the page frames the manager keeps a bit for
          Reserved,  \* the frames pmm_init never gives back
          NoFrame    \* "no frame in transit"

VARIABLES free,      \* the frames a call may claim
          allocated, \* the frames the kernel holds
          transit    \* the frame each CPU's call is carrying, or NoFrame

poolVars == <<free, allocated, transit>>

Init ==
    /\ free = Frame \ Reserved
    /\ allocated = {}
    /\ transit = [c \in CPU |-> NoFrame]

\* A call of get_free_frame claims a free frame: no other call can any more.
Claim(c, f) ==
    /\ transit[c] = NoFrame
    /\ f \in free
    /\ free' = free \ {f}
    /\ transit' = [transit EXCEPT ![c] = f]
    /\ UNCHANGED allocated

\* The call returns the frame it claimed.
Deliver(c) ==
    /\ transit[c] # NoFrame
    /\ allocated' = allocated \union {transit[c]}
    /\ transit' = [transit EXCEPT ![c] = NoFrame]
    /\ UNCHANGED free

\* A frame the kernel holds is given to free_frame ...
Surrender(c, f) ==
    /\ transit[c] = NoFrame
    /\ f \in allocated
    /\ allocated' = allocated \ {f}
    /\ transit' = [transit EXCEPT ![c] = f]
    /\ UNCHANGED free

\* ... which makes it free again.
Recycle(c) ==
    /\ transit[c] # NoFrame
    /\ free' = free \union {transit[c]}
    /\ transit' = [transit EXCEPT ![c] = NoFrame]
    /\ UNCHANGED allocated

Next ==
    \E c \in CPU :
        \/ \E f \in Frame : Claim(c, f) \/ Surrender(c, f)
        \/ Deliver(c)
        \/ Recycle(c)

Spec == Init /\ [][Next]_poolVars
=============================================================================
