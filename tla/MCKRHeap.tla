------------------------------ MODULE MCKRHeap ------------------------------
(* Instances of KRHeap for TLC. *)
EXTENDS KRHeap

\* Nothing, one byte, a whole number of headers, more than a chunk, and more
\* than the heap.
SmallToHuge == {0, 16, 25, 60}
=============================================================================
