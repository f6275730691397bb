------------------------------ MODULE MCPaging ------------------------------
(* An instance of Paging for TLC: the last page boot.S mapped, the directory *)
(* entry of the heap and the one of APIC registers and stacks.              *)
EXTENDS Paging, TLC

CONSTANTS high, heap, low

\* The registers and one stack share a directory entry, so that a table with
\* entries nobody wrote meets a second mapping.
APICAndStack == << << <<high, 1>>, Device>>, << <<high, 2>>, NoFrame>> >>

\* The heap begins in the table of boot.S and goes on in one of its own.
HeapAcrossTables == << <<low, 2>>, <<heap, 1>>, <<heap, 2>> >>

FrameSymmetry == Permutations(Frame)
=============================================================================
