-------------------------- MODULE MCFrameAllocator --------------------------
(* FrameAllocator on small maps: regions of one to three frames. *)
EXTENDS FrameAllocator

\* Two available regions of two frames with an entry shorter than a block
\* in between, which begins in the page where the first region ends.  The
\* first frame is reserved (the page of the IVT).
TwoBases == <<0, 11264, 16384>>
TwoLengths == <<11264, 1024, 8192>>
FirstReserved == {<<1, 0>>}

\* An available region that begins inside a page, three frames long, and a
\* reclaimable one, all of it reserved, with a short entry in between.
TailBases == <<1024, 13312, 16384>>
TailLengths == <<12288, 512, 8192>>
TailReserved == {<<3, 0>>, <<3, 1>>}
=============================================================================
