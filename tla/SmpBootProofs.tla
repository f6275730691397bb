--------------------------- MODULE SmpBootProofs ---------------------------
(***************************************************************************)
(* Proofs about SmpBoot for any number of processors, any amount of memory *)
(* and any speed of the processors: no hypothesis on time is used.         *)
(***************************************************************************)
EXTENDS SmpBoot, TLAPS

\* The loop index is that of a processor inside the body of the loop, and
\* the stack pages are counted with it.
LoopIndex ==
    /\ pc \notin {"test", "done"} => i < NumCpus
    /\ stack_page = i

\* A processor inside gdt_init has a block.
HasBlock ==
    \A a \in Ap :
        at[a] \in {"heap_write", "set_entry", "load_gs"} => block[a] # NULL

Typed == TypeOK /\ LoopIndex /\ HasBlock

USE NumCpusAssumption, HeapAssumption, FramesAssumption, IdsAssumption
    DEF Index, Id, Ap

-----------------------------------------------------------------------------
(* Types *)

\* The initial state has the types.
LEMMA InitTyped == Init => Typed
<1> SUFFICES ASSUME Init PROVE Typed
  OBVIOUS
<1>1. Unset \in Params
  BY DEF Unset, Params
<1>2. /\ pc \in BspLabels
      /\ "off" \in ApLabels
  BY DEF Init, BspLabels, ApLabels
<1>3. i \in 1 .. NumCpus /\ stack_page \in 1 .. NumCpus /\ frames \in Nat
  BY DEF Init
<1>4. heap \in 1 .. HeapBlocks + 1
  BY DEF Init
<1>5. params \in Params /\ got \in [Ap -> Params]
  BY <1>1 DEF Init
<1>6. TypeOK
  BY <1>2, <1>3, <1>4, <1>5 DEF Init, TypeOK
<1>7. LoopIndex
  BY DEF Init, LoopIndex
<1>8. HasBlock
  BY DEF Init, HasBlock
<1> QED
  BY <1>6, <1>7, <1>8 DEF Typed

\* The identifier of the processor the loop is starting.
LEMMA CurrentAp == ASSUME Typed, pc \notin {"test", "done"}
                   PROVE  /\ i \in Index \ {0}
                          /\ i \in 1 .. NumCpus - 1
                          /\ LapicId[i] \in Ap
  BY DEF Typed, LoopIndex, TypeOK

\* A step of the bootstrap processor keeps the types.
LEMMA BspTyped == Typed /\ BspStep => Typed'
<1> SUFFICES ASSUME Typed, BspStep PROVE Typed'
  OBVIOUS
<1> USE DEF Typed, LoopIndex, TypeOK, HasBlock, memory, history
<1>1. CASE Test
  BY <1>1 DEF Test, BspLabels, apVars
<1>2. CASE Alloc
  <2>1. /\ pc = "alloc" /\ pc' \in {"map", "panicked"}
        /\ frames' \in Nat
    BY <1>2 DEF Alloc, Goto
  <2> QED
    BY <1>2, <2>1 DEF Alloc, BspLabels, apVars
<1>3. CASE Map
  <2>1. pc = "map" /\ pc' = "table"
    BY <1>3 DEF Map, Goto
  <2>2. stack_page \in 1 .. NumCpus - 1
    BY <2>1, CurrentAp
  <2>3. /\ frames' \in Nat
        /\ has_table' \in BOOLEAN
        /\ kernel_map' \subseteq 1 .. NumCpus - 1
    <3>1. frames' \in Nat
      BY <1>3 DEF Map
    <3>2. has_table' \in BOOLEAN
      BY <1>3, Zenon DEF Map
    <3>3. kernel_map' \subseteq kernel_map \union {stack_page}
      BY <1>3, Zenon DEF Map
    <3> QED
      BY <2>2, <3>1, <3>2, <3>3
  <2> QED
    BY <1>3, <2>1, <2>3 DEF Map, BspLabels, apVars
<1>4. CASE Table
  BY <1>4, CurrentAp DEF Table, Goto, BspLabels, apVars
<1>5. CASE PutDirectory
  BY <1>5 DEF PutDirectory, Put, Goto, BspLabels, apVars, Params, Directory
<1>6. CASE PutStack
  <2>1. pc = "put_stack" /\ pc' = "put_entry" /\ late' \subseteq Ap
    BY <1>6 DEF PutStack, Put, Goto
  <2>2. params' \in Params
    BY <1>6, <2>1, CurrentAp DEF PutStack, Put, Params
  <2> QED
    BY <1>6, <2>1, <2>2, CurrentAp DEF PutStack, Put, BspLabels, apVars
<1>7. CASE PutEntry
  BY <1>7 DEF PutEntry, Put, Goto, BspLabels, apVars, Params, SmpMain
<1>8. CASE PutId
  BY <1>8, CurrentAp DEF PutId, Put, Goto, BspLabels, apVars, Params
<1>9. CASE InitIpi \/ DeassertIpi \/ StartupIpi
  BY <1>9, CurrentAp
  DEF InitIpi, DeassertIpi, StartupIpi, Send, Goto, BspLabels, apVars
<1>10. CASE PollInit \/ PollDeassert \/ PollStartup
  BY <1>10, CurrentAp
  DEF PollInit, PollDeassert, PollStartup, Poll, Goto, BspLabels, apVars
<1>11. CASE Delay10 \/ Delay1
  BY <1>11 DEF Delay10, Delay1, Delay, Goto, BspLabels, apVars
<1>13. CASE NextCpu
  <2>1. pc = "next" /\ pc' = "test"
    BY <1>13 DEF NextCpu, Goto
  <2>2. i' \in 1 .. NumCpus /\ stack_page' = i'
    BY <1>13, <2>1, CurrentAp DEF NextCpu
  <2> QED
    BY <1>13, <2>1, <2>2 DEF NextCpu, BspLabels, apVars
<1> QED
  BY <1>1, <1>2, <1>3, <1>4, <1>5, <1>6, <1>7, <1>8, <1>9, <1>10, <1>11,
     <1>13 DEF BspStep

\* While an IPI is on its way the loop waits for it.
Waiting ==
    /\ icr = "init" => pc = "poll_init"
    /\ icr = "deassert" => pc = "poll_deassert"
    /\ icr = "startup" => pc \in {"delay_1", "poll_sipi"}

\* So does the step of the local APIC, as its IPI is for a processor of the
\* list.
LEMMA LapicTyped == Typed /\ Waiting /\ LapicStep => Typed'
<1> SUFFICES ASSUME Typed, Waiting, LapicStep PROVE Typed'
  OBVIOUS
<1>1. icr # "idle" => LapicId[i] \in Ap
  BY CurrentAp DEF Typed, TypeOK, Waiting
<1> USE DEF Typed, LoopIndex, TypeOK, HasBlock, memory, history
<1>2. CASE DeliverInit
  BY <1>1, <1>2 DEF DeliverInit, bspVars, ApLabels, Params, Unset
<1>3. CASE DeliverDeassert
  BY <1>3 DEF DeliverDeassert, bspVars, apVars
<1>4. CASE DeliverStartup
  BY <1>1, <1>4 DEF DeliverStartup, bspVars, ApLabels, Reading
<1>5. CASE Lose
  BY <1>1, <1>5 DEF Lose, bspVars, apVars
<1> QED
  BY <1>2, <1>3, <1>4, <1>5 DEF LapicStep

\* The loop sends an IPI only when the last one is gone.
LEMMA WaitingStep == Typed /\ Waiting /\ [Next]_vars => Waiting'
<1> SUFFICES ASSUME Typed, Waiting, [Next]_vars PROVE Waiting'
  OBVIOUS
<1> USE DEF Waiting
<1>1. CASE UNCHANGED vars
  BY <1>1 DEF vars, bspVars
<1>2. CASE LapicStep
  BY <1>2 DEF LapicStep, DeliverInit, DeliverDeassert, DeliverStartup, Lose,
              bspVars
<1>3. ASSUME NEW a \in Ap, ApStep(a) PROVE Waiting'
  BY <1>3 DEF ApStep, GetDirectory, GetStack, GetId, GetEntry, Get, HeapRead,
              HeapWrite, SetEntry, LoadGs, Finish, bspVars
<1>4. CASE BspStep
  <2> USE DEF Goto
  <2>1. CASE Test \/ Alloc \/ Map \/ Table \/ NextCpu
    BY <2>1 DEF Test, Alloc, Map, Table, NextCpu, Typed, TypeOK
  <2>2. CASE PutDirectory \/ PutStack \/ PutEntry \/ PutId
    BY <2>2 DEF PutDirectory, PutStack, PutEntry, PutId, Put, Typed, TypeOK
  <2>3. CASE InitIpi \/ DeassertIpi \/ StartupIpi
    BY <2>3 DEF InitIpi, DeassertIpi, StartupIpi, Send
  <2>4. CASE PollInit \/ PollDeassert \/ PollStartup
    BY <2>4 DEF PollInit, PollDeassert, PollStartup, Poll
  <2>5. CASE Delay10 \/ Delay1
    BY <2>5 DEF Delay10, Delay1, Delay, Typed, TypeOK
  <2> QED
    BY <1>4, <2>1, <2>2, <2>3, <2>4, <2>5 DEF BspStep
<1> QED
  BY <1>1, <1>2, <1>3, <1>4 DEF Next

\* The fields of the parameters read keep their types.
LEMMA GetTyped ==
    ASSUME Typed, NEW a \in Ap, NEW from,
           NEW to \in ApLabels \ {"heap_write", "set_entry", "load_gs"},
           NEW field \in {"dir", "stack", "entry", "id"},
           Get(a, from, to, field)
    PROVE  Typed'
<1>1. got' \in [Ap -> Params]
  BY DEF Typed, TypeOK, Get, Params
<1> QED
  BY <1>1 DEF Typed, TypeOK, LoopIndex, HasBlock, Get, ApGoto, bspVars, memory,
              history

\* The block after one of the heap's.
LEMMA NextBlock ==
    ASSUME NEW n \in 1 .. HeapBlocks PROVE n + 1 \in 1 .. HeapBlocks + 1
  BY HeapAssumption

\* A step of an application processor keeps the types.
LEMMA ApTyped == ASSUME Typed, NEW a \in Ap, ApStep(a) PROVE Typed'
<1>1. CASE GetDirectory(a)
  BY <1>1, GetTyped DEF GetDirectory, ApLabels, Reading
<1>2. CASE GetStack(a)
  BY <1>2, GetTyped DEF GetStack, ApLabels, Reading
<1>3. CASE GetId(a)
  BY <1>3, GetTyped DEF GetId, ApLabels
<1>4. CASE GetEntry(a)
  BY <1>4, GetTyped DEF GetEntry, ApLabels, InKernel
<1> USE DEF Typed, LoopIndex, TypeOK, HasBlock, ApGoto, bspVars, memory, history,
            NULL
<1>5. CASE HeapRead(a)
  <2>1. /\ at[a] = "heap_read"
        /\ UNCHANGED <<bspVars, params, icr, got, heap, seg_base, gs, history>>
        /\ \/ /\ at' = [at EXCEPT ![a] = "panicked"]
              /\ block' = block
           \/ /\ heap \in 1 .. HeapBlocks
              /\ at' = [at EXCEPT ![a] = "heap_write"]
              /\ block' = [block EXCEPT ![a] = heap]
    BY <1>5 DEF HeapRead
  <2>2. {"heap_write", "panicked"} \subseteq ApLabels
    BY DEF ApLabels, InKernel
  <2>3. CASE block' = block /\ at' = [at EXCEPT ![a] = "panicked"]
    BY <2>1, <2>2, <2>3
  <2>4. CASE /\ heap \in 1 .. HeapBlocks
             /\ at' = [at EXCEPT ![a] = "heap_write"]
             /\ block' = [block EXCEPT ![a] = heap]
    <3>1. block' \in [Ap -> {NULL} \union 1 .. HeapBlocks]
      BY <2>4
    <3>2. at' \in [Ap -> ApLabels]
      BY <2>2, <2>4
    <3>3. HasBlock'
      <4>1. heap # NULL
        BY <2>4
      <4> QED
        BY <2>4, <4>1
    <3> QED
      BY <2>1, <3>1, <3>2, <3>3
  <2> QED
    BY <2>1, <2>3, <2>4
<1>6. CASE HeapWrite(a)
  <2>1. block[a] \in 1 .. HeapBlocks
    BY <1>6 DEF HeapWrite
  <2>2. block[a] + 1 \in 1 .. HeapBlocks + 1
    BY <2>1, NextBlock
  <2>3. heap' \in 1 .. HeapBlocks + 1
    BY <1>6, <2>2 DEF HeapWrite
  <2> QED
    BY <1>6, <2>3 DEF HeapWrite, ApLabels, InKernel
<1>7. CASE SetEntry(a)
  <2>1. block[a] \in 1 .. HeapBlocks
    BY <1>7 DEF SetEntry
  <2>2. got[a].id \in {NULL} \union Id
    BY DEF Params
  <2>3. seg_base' \in [1 .. HeapBlocks -> {NULL} \union Id]
    BY <1>7, <2>1, <2>2 DEF SetEntry
  <2> QED
    BY <1>7, <2>3 DEF SetEntry, ApLabels, InKernel
<1>8. CASE LoadGs(a)
  BY <1>8 DEF LoadGs, ApLabels, InKernel
<1>9. CASE Finish(a)
  BY <1>9 DEF Finish, ApLabels, InKernel
<1> QED
  BY <1>1, <1>2, <1>3, <1>4, <1>5, <1>6, <1>7, <1>8, <1>9 DEF ApStep

-----------------------------------------------------------------------------
(* Type correctness *)

\* Type correctness: whatever the relative speed of the processors, every
\* variable keeps its type; in particular the loop never starts a processor
\* beyond the table, and b_malloc's block is one of the heap.
THEOREM TypeCorrect == Spec => []TypeOK
<1>1. Init => Typed /\ Waiting
  BY InitTyped DEF Init, Waiting
<1>2. Typed /\ Waiting /\ [Next]_vars => Typed' /\ Waiting'
  <2>1. CASE Next
    BY <2>1, BspTyped, LapicTyped, ApTyped, WaitingStep DEF Next
  <2>2. CASE UNCHANGED vars
    BY <2>2, WaitingStep DEF Typed, TypeOK, LoopIndex, HasBlock, vars, bspVars,
                             memory, apVars, history
  <2> QED
    BY <2>1, <2>2
<1>3. Typed => TypeOK
  BY DEF Typed
<1> QED
  BY <1>1, <1>2, <1>3, PTL DEF Spec

-----------------------------------------------------------------------------
(* The progress of the loop *)

\* The loop has written the identifier, and the stack, of processor i; it
\* has sent it the INIT, and the startup IPI.
Woken == {"delay_1", "poll_sipi", "next"}
Reset == {"poll_init", "deassert", "poll_deassert", "delay_10", "sipi"}
             \union Woken
IdPut == {"init"} \union Reset
StackPut == {"put_entry", "put_id"} \union IdPut

Passed ==
    /\ pc \in StackPut => params.stack = i
    /\ pc \in IdPut => params.id = LapicId[i]
    /\ pc \notin StackPut /\ i > 1 => params.stack = i - 1
    /\ pc \notin IdPut /\ i > 1 => params.id = LapicId[i - 1]

\* The pages of the processors started so far are mapped.  The kernel
\* directory lacks its table only during the first round, and with the pool
\* empty, so that there is no second one.
Mapped ==
    /\ \A j \in 1 .. NumCpus - 1 : j < i => j \in boot_table
    /\ pc \in StackPut \union {"put_dir", "put_stack"} => i \in boot_table
    /\ has_table => boot_table \subseteq kernel_map
    /\ has_table /\ pc = "table" => i \in kernel_map
    /\ ~has_table =>
          /\ boot_table \subseteq {1}
          /\ i = 1 \/ (i = 2 /\ pc \in {"test", "alloc", "done", "panicked"})
    /\ ~has_table /\ (boot_table # {} \/ pc = "table") => frames = 0

Running(a) == at[a] \notin {"off", "wait_sipi"}

\* Where the processor with index j may be, by the progress of the loop.
\* One that is not late finds its own parameters still in place.
Place(j) ==
    LET a == LapicId[j]
    IN  /\ at[a] # "off" => j < i \/ (j = i /\ pc \in Reset)
        /\ Running(a) => j < i \/ (j = i /\ pc \in Woken)
        /\ at[a] \in Reading /\ a \notin late =>
              j = i \/ (i = j + 1 /\ pc \notin StackPut)

\* What it has read: its own parameters, or those of a later one if it is
\* late.
StackRead(j) ==
    LET a == LapicId[j]
    IN  at[a] = "get_id" \/ OnStack(a) =>
            /\ got[a].stack \in boot_table
            /\ got[a].stack >= j
            /\ a \in late \/ got[a].stack = j

IdFor(j, id) ==
    \/ id = LapicId[j]
    \/ LapicId[j] \in late /\ \E k \in Index : j < k /\ id = LapicId[k]

IdRead(j) == OnStack(LapicId[j]) => IdFor(j, got[LapicId[j]].id)

Started(j) == Place(j) /\ StackRead(j) /\ IdRead(j)

\* The inductive invariant.
InOrder ==
    /\ Typed
    /\ Waiting
    /\ Passed
    /\ Mapped
    /\ \A j \in 1 .. NumCpus - 1 : Started(j)

\* The processors started have identifiers of their own.
LEMMA ApIds ==
    /\ \A j \in 1 .. NumCpus - 1 : LapicId[j] \in Ap
    /\ \A j, k \in 1 .. NumCpus - 1 : LapicId[j] = LapicId[k] => j = k
    /\ \A a \in Ap : \E j \in 1 .. NumCpus - 1 : a = LapicId[j]
  OBVIOUS

\* No processor is started in the initial state.
LEMMA InitInOrder == Init => InOrder
<1> SUFFICES ASSUME Init PROVE InOrder
  OBVIOUS
<1>1. Typed
  BY InitTyped
<1>2. Passed /\ Mapped /\ Waiting
  BY DEF Init, Passed, Mapped, Waiting, StackPut, IdPut, Reset, Woken
<1>3. ASSUME NEW j \in 1 .. NumCpus - 1 PROVE Started(j)
  <2>1. at[LapicId[j]] = "off"
    BY ApIds DEF Init
  <2> QED
    BY <2>1 DEF Started, Place, StackRead, IdRead, Running, OnStack, Reading,
                InKernel
<1> QED
  BY <1>1, <1>2, <1>3 DEF InOrder

\* What a processor has read stays while its own words do, and no page is
\* unmapped.
LEMMA ReadsKept ==
    ASSUME NEW j \in 1 .. NumCpus - 1, StackRead(j), IdRead(j),
           at'[LapicId[j]] = at[LapicId[j]],
           got'[LapicId[j]] = got[LapicId[j]],
           late \subseteq late',
           boot_table \subseteq boot_table'
    PROVE  StackRead(j)' /\ IdRead(j)'
<1>1. StackRead(j)'
  BY DEF StackRead, OnStack
<1>2. IdRead(j)'
  BY DEF IdRead, IdFor, OnStack
<1> QED
  BY <1>1, <1>2

\* A step of the loop that goes on inside a round, and writes no stack,
\* leaves every processor where it may be.
LEMMA QuietStep ==
    ASSUME NEW j \in 1 .. NumCpus - 1, Started(j),
           at'[LapicId[j]] = at[LapicId[j]],
           got'[LapicId[j]] = got[LapicId[j]],
           UNCHANGED <<i, late>>,
           boot_table \subseteq boot_table',
           pc \in Reset => pc' \in Reset,
           pc \in Woken => pc' \in Woken,
           pc' \in StackPut => pc \in StackPut
    PROVE  Started(j)'
<1>1. Place(j)'
  BY DEF Started, Place, Running
<1> QED
  BY <1>1, ReadsKept DEF Started

\* The parameters written, and the pages mapped, step by step.
LEMMA BspPassed == InOrder /\ BspStep => Passed'
<1> SUFFICES ASSUME InOrder, BspStep PROVE Passed'
  OBVIOUS
<1>i. i \in Nat /\ i >= 1 /\ stack_page = i /\ params \in Params
  BY DEF InOrder, Typed, TypeOK, LoopIndex
<1> USE DEF InOrder, Passed, StackPut, IdPut, Reset, Woken, Goto, memory
<1>1. CASE Test \/ Alloc \/ Map \/ Table
  BY <1>1 DEF Test, Alloc, Map, Table
<1>2. CASE PutDirectory
  BY <1>2, <1>i DEF PutDirectory, Put, Params
<1>3. CASE PutStack
  BY <1>3, <1>i DEF PutStack, Put, Params
<1>4. CASE PutEntry
  BY <1>4, <1>i DEF PutEntry, Put, Params
<1>5. CASE PutId
  BY <1>5, <1>i DEF PutId, Put, Params
<1>6. CASE InitIpi \/ DeassertIpi \/ StartupIpi
  BY <1>6 DEF InitIpi, DeassertIpi, StartupIpi, Send
<1>7. CASE PollInit \/ PollDeassert \/ PollStartup
  BY <1>7 DEF PollInit, PollDeassert, PollStartup, Poll
<1>8. CASE Delay10 \/ Delay1
  BY <1>8 DEF Delay10, Delay1, Delay
<1>9. CASE NextCpu
  BY <1>9, <1>i DEF NextCpu
<1> QED
  BY <1>1, <1>2, <1>3, <1>4, <1>5, <1>6, <1>7, <1>8, <1>9 DEF BspStep

LEMMA BspMapped == InOrder /\ BspStep => Mapped'
<1> SUFFICES ASSUME InOrder, BspStep PROVE Mapped'
  OBVIOUS
<1>i. /\ i \in Nat /\ i >= 1 /\ stack_page = i /\ frames \in Nat
      /\ has_table \in BOOLEAN
  BY DEF InOrder, Typed, TypeOK, LoopIndex
<1> USE DEF InOrder, Mapped, StackPut, IdPut, Reset, Woken, Goto, memory
<1>1. CASE Test
  BY <1>1 DEF Test
<1>2. CASE Alloc
  <2>1. /\ pc = "alloc" /\ UNCHANGED <<i, boot_table, kernel_map, has_table>>
        /\ \/ frames = 0 /\ frames' = 0 /\ pc' = "panicked"
           \/ frames > 0 /\ pc' = "map"
    BY <1>2 DEF Alloc
  <2>2. Mapped
    OBVIOUS
  <2>3. 1 \in 1 .. NumCpus - 1
    <3>1. Typed /\ pc = "alloc"
      BY <2>1
    <3>2. i \in 1 .. NumCpus - 1
      BY <3>1, CurrentAp
    <3> QED
      BY <1>i, <3>2
  <2> HIDE DEF InOrder
  <2>4. frames > 0 /\ ~has_table => i = 1 /\ boot_table = {}
    <3>1. 1 < i => 1 \in boot_table
      BY <2>2, <2>3
    <3>2. frames > 0 /\ ~has_table => boot_table = {}
      BY <1>i, <2>2
    <3> QED
      BY <1>i, <3>1, <3>2
  <2>5. CASE frames = 0
    BY <1>i, <2>1, <2>2, <2>5
  <2>6. CASE frames > 0
    BY <1>i, <2>1, <2>2, <2>4, <2>6
  <2> QED
    BY <1>i, <2>5, <2>6
<1>3. CASE Map
  <2>1. /\ pc = "map" /\ pc' = "table" /\ UNCHANGED <<i, boot_table>>
        /\ \/ /\ has_table /\ has_table'
              /\ kernel_map' = kernel_map \union {i}
           \/ /\ ~has_table /\ frames > 0 /\ has_table'
              /\ kernel_map' = kernel_map \union {i}
           \/ /\ ~has_table /\ frames = 0
              /\ frames' = 0 /\ has_table' = has_table
    BY <1>3, <1>i DEF Map
  <2> QED
    BY <1>i, <2>1
<1>4. CASE Table
  BY <1>4, <1>i DEF Table
<1>5. CASE PutDirectory \/ PutStack \/ PutEntry \/ PutId
  BY <1>5 DEF PutDirectory, PutStack, PutEntry, PutId, Put
<1>6. CASE InitIpi \/ DeassertIpi \/ StartupIpi
  BY <1>6 DEF InitIpi, DeassertIpi, StartupIpi, Send
<1>7. CASE PollInit \/ PollDeassert \/ PollStartup
  BY <1>7 DEF PollInit, PollDeassert, PollStartup, Poll
<1>8. CASE Delay10 \/ Delay1
  BY <1>8 DEF Delay10, Delay1, Delay
<1>9. CASE NextCpu
  BY <1>9, <1>i DEF NextCpu
<1> QED
  BY <1>1, <1>2, <1>3, <1>4, <1>5, <1>6, <1>7, <1>8, <1>9 DEF BspStep

\* The loop leaves a processor behind with its parameters still in place,
\* and knows as late who has not read them when it overwrites them.
LEMMA BspStarted ==
    ASSUME InOrder, BspStep, NEW j \in 1 .. NumCpus - 1
    PROVE  Started(j)'
<1>i. i \in Nat
  BY DEF InOrder, Typed, TypeOK
<1>s. Started(j)
  BY DEF InOrder
<1>q. ASSUME UNCHANGED <<i, at, got, late>>,
             boot_table \subseteq boot_table',
             pc \in Reset => pc' \in Reset,
             pc \in Woken => pc' \in Woken,
             pc' \in StackPut => pc \in StackPut
      PROVE  Started(j)'
  BY <1>q, <1>s, QuietStep
<1> USE DEF Goto, StackPut, IdPut, Reset, Woken, memory, apVars, history
<1>1. CASE Test \/ Alloc \/ Map \/ Table
  BY <1>1, <1>q DEF Test, Alloc, Map, Table
<1>2. CASE PutDirectory \/ PutEntry \/ PutId
  BY <1>2, <1>q DEF PutDirectory, PutEntry, PutId, Put
<1>3. CASE PutStack
  <2>1. /\ pc = "put_stack" /\ pc' = "put_entry"
        /\ UNCHANGED <<i, at, got, boot_table>>
        /\ late' = late \union {a \in Ap : at[a] \in Reading}
    BY <1>3 DEF PutStack, Put
  <2>2. at[LapicId[j]] \in Reading => LapicId[j] \in late'
    BY <2>1, ApIds
  <2>3. Place(j)'
    BY <1>s, <2>1, <2>2 DEF Started, Place, Running
  <2> QED
    BY <1>s, <2>1, <2>3, ReadsKept DEF Started
<1>4. CASE InitIpi \/ DeassertIpi \/ StartupIpi
  BY <1>4, <1>q DEF InitIpi, DeassertIpi, StartupIpi, Send
<1>5. CASE PollInit \/ PollDeassert \/ PollStartup
  BY <1>5, <1>q DEF PollInit, PollDeassert, PollStartup, Poll
<1>6. CASE Delay10 \/ Delay1
  BY <1>6, <1>q DEF Delay10, Delay1, Delay
<1>7. CASE NextCpu
  <2>1. /\ pc = "next" /\ pc' = "test" /\ i' = i + 1
        /\ UNCHANGED <<at, got, late, boot_table>>
    BY <1>7 DEF NextCpu
  <2>2. Place(j)'
    BY <1>i, <1>s, <2>1 DEF Started, Place, Running
  <2> QED
    BY <1>s, <2>1, <2>2, ReadsKept DEF Started
<1> QED
  BY <1>1, <1>2, <1>3, <1>4, <1>5, <1>6, <1>7 DEF BspStep

\* The steps of the local APIC are those of the processor of the loop.
LEMMA LapicInOrder == InOrder /\ LapicStep => InOrder'
<1> SUFFICES ASSUME InOrder, LapicStep PROVE InOrder'
  OBVIOUS
<1>t. Typed' /\ Waiting'
  BY LapicTyped, WaitingStep DEF InOrder, Next
<1>u. UNCHANGED <<bspVars, params, late>>
  BY DEF LapicStep, DeliverInit, DeliverDeassert, DeliverStartup, Lose, history
<1>p. Passed' /\ Mapped'
  BY <1>u DEF InOrder, Passed, Mapped, bspVars, memory
<1>s. ASSUME NEW j \in 1 .. NumCpus - 1 PROVE Started(j)'
  <2>1. Started(j) /\ at \in [Ap -> ApLabels] /\ got \in [Ap -> Params]
    BY DEF InOrder, Typed, TypeOK
  <2>2. ASSUME UNCHANGED <<at, got>> PROVE Started(j)'
    BY <1>u, <2>1, <2>2, QuietStep DEF bspVars, memory
  <2>3. icr # "idle" => i \in 1 .. NumCpus - 1
    BY CurrentAp DEF InOrder, Waiting, Typed, TypeOK
  <2>4. CASE DeliverInit
    <3>1. pc = "poll_init" /\ i \in 1 .. NumCpus - 1
      BY <2>3, <2>4 DEF DeliverInit, InOrder, Waiting
    <3>2. CASE j = i
      <4>1. at'[LapicId[j]] = "wait_sipi"
        BY <2>1, <2>4, <3>2, ApIds DEF DeliverInit
      <4> QED
        BY <1>u, <3>1, <3>2, <4>1
        DEF Started, Place, StackRead, IdRead, Running, OnStack, Reading,
            InKernel, Reset, bspVars, memory
    <3>3. CASE j # i
      <4>1. at'[LapicId[j]] = at[LapicId[j]] /\ got'[LapicId[j]] = got[LapicId[j]]
        BY <2>1, <2>4, <3>1, <3>3, ApIds DEF DeliverInit
      <4> QED
        BY <1>u, <2>1, <4>1, QuietStep DEF bspVars, memory
    <3> QED
      BY <3>2, <3>3
  <2>5. CASE DeliverStartup
    <3>1. pc \in Woken /\ i \in 1 .. NumCpus - 1
      BY <2>3, <2>5 DEF DeliverStartup, InOrder, Waiting, Woken
    <3>2. CASE j = i /\ at[LapicId[j]] = "wait_sipi"
      <4>1. at'[LapicId[j]] = "get_dir"
        BY <2>1, <2>5, <3>2, ApIds DEF DeliverStartup
      <4> QED
        BY <1>u, <3>1, <3>2, <4>1
        DEF Started, Place, StackRead, IdRead, Running, OnStack, Reading,
            InKernel, Reset, bspVars, memory
    <3>3. CASE ~(j = i /\ at[LapicId[j]] = "wait_sipi")
      <4>1. at'[LapicId[j]] = at[LapicId[j]] /\ got' = got
        BY <2>1, <2>5, <3>1, <3>3, ApIds DEF DeliverStartup
      <4> QED
        BY <1>u, <2>1, <4>1, QuietStep DEF bspVars, memory
    <3> QED
      BY <3>2, <3>3
  <2>6. CASE DeliverDeassert \/ Lose
    BY <2>2, <2>6 DEF DeliverDeassert, Lose, apVars
  <2> QED
    BY <2>4, <2>5, <2>6 DEF LapicStep
<1> QED
  BY <1>t, <1>p, <1>s DEF InOrder

\* What a processor finds while it has words to read: the parameters of a
\* processor not before it, and its own if it is not late.
LEMMA WhileReading ==
    ASSUME InOrder, NEW j \in 1 .. NumCpus - 1, at[LapicId[j]] \in Reading
    PROVE  /\ params.stack \in boot_table
           /\ params.stack >= j
           /\ LapicId[j] \in late \/ params.stack = j
           /\ IdFor(j, params.id)
<1>1. i \in 1 .. NumCpus /\ Started(j) /\ Passed /\ Mapped
  BY DEF InOrder, Typed, TypeOK
<1>2. /\ j < i \/ (j = i /\ pc \in Woken)
      /\ LapicId[j] \in late \/ j = i \/ (i = j + 1 /\ pc \notin StackPut)
  BY <1>1 DEF Started, Place, Running, Reading
<1>3. pc \in Woken => pc \in IdPut /\ pc \in StackPut
  BY DEF Woken, Reset, IdPut, StackPut
<1>4. pc \in IdPut => pc \in StackPut
  BY DEF StackPut
<1>5. pc \in StackPut => i < NumCpus
  BY DEF InOrder, Typed, LoopIndex, StackPut, IdPut, Reset, Woken
<1>6. j \in Nat /\ i \in Nat /\ (j = i => pc \in StackPut)
  BY <1>1, <1>2, <1>3
<1>7. CASE pc \in StackPut
  <2>1. params.stack = i /\ i \in boot_table
    BY <1>1, <1>7 DEF Passed, Mapped
  <2>2. j = i \/ (j < i /\ LapicId[j] \in late)
    BY <1>2, <1>6, <1>7
  <2>3. IdFor(j, params.id)
    <3>1. CASE pc \in IdPut
      <4>1. params.id = LapicId[i] /\ i \in Index
        BY <1>1, <1>5, <1>7, <3>1 DEF Passed
      <4> QED
        BY <2>2, <4>1 DEF IdFor
    <3>2. CASE pc \notin IdPut
      <4>1. j < i
        BY <1>2, <1>3, <3>2
      <4>2. params.id = LapicId[i - 1] /\ i - 1 \in Index
        BY <1>1, <1>6, <3>2, <4>1 DEF Passed
      <4>3. i - 1 = j \/ j < i - 1
        BY <1>6, <4>1
      <4>4. CASE i - 1 = j
        BY <4>2, <4>4 DEF IdFor
      <4>5. CASE j < i - 1
        <5>1. LapicId[j] \in late
          BY <1>6, <2>2, <4>1
        <5>2. \E k \in Index : j < k /\ params.id = LapicId[k]
          BY <4>2, <4>5
        <5> QED
          BY <5>1, <5>2 DEF IdFor
      <4> QED
        BY <4>3, <4>4, <4>5
    <3> QED
      BY <3>1, <3>2
  <2> QED
    BY <1>6, <2>1, <2>2, <2>3
<1>8. CASE pc \notin StackPut
  <2>1. j < i
    BY <1>2, <1>3, <1>8
  <2>2. params.stack = i - 1 /\ params.id = LapicId[i - 1]
    BY <1>1, <1>4, <1>6, <1>8, <2>1 DEF Passed
  <2>3. i - 1 \in Index /\ i - 1 \in boot_table
    BY <1>1, <2>1 DEF Mapped
  <2>4. i - 1 = j \/ (j < i - 1 /\ LapicId[j] \in late)
    BY <1>2, <1>6, <2>1
  <2>5. IdFor(j, params.id)
    <3>1. CASE i - 1 = j
      BY <2>2, <3>1 DEF IdFor
    <3>2. CASE i - 1 # j
      <4>1. \E k \in Index : j < k /\ params.id = LapicId[k]
        <5>1. i - 1 \in Index /\ j < i - 1 /\ params.id = LapicId[i - 1]
          BY <2>2, <2>3, <2>4, <3>2
        <5> QED
          BY <5>1
      <4> QED
        BY <2>4, <3>2, <4>1 DEF IdFor
    <3> QED
      BY <3>1, <3>2
  <2> QED
    BY <1>6, <2>2, <2>3, <2>4, <2>5
<1> QED
  BY <1>7, <1>8

\* A processor that loads a parameter.
LEMMA GetInOrder ==
    ASSUME InOrder, NEW j \in 1 .. NumCpus - 1, NEW from, NEW to, NEW field,
           Get(LapicId[j], from, to, field),
           <<from, to, field>> \in
               {<<"get_dir", "get_stack", "dir">>,
                <<"get_stack", "get_id", "stack">>,
                <<"get_id", "get_entry", "id">>,
                <<"get_entry", "heap_read", "entry">>}
    PROVE  \A k \in 1 .. NumCpus - 1 : Started(k)'
<1> DEFINE a == LapicId[j]
<1>1. /\ a \in Ap
      /\ at \in [Ap -> ApLabels]
      /\ got \in [Ap -> Params]
      /\ at[a] = from
      /\ at' = [at EXCEPT ![a] = to]
      /\ got' = [got EXCEPT ![a][field] = params[field]]
      /\ UNCHANGED <<pc, i, boot_table, late>>
  BY ApIds DEF Get, ApGoto, bspVars, memory, history, InOrder, Typed, TypeOK
<1>2. ASSUME NEW k \in 1 .. NumCpus - 1, k # j PROVE Started(k)'
  <2>1. at'[LapicId[k]] = at[LapicId[k]] /\ got'[LapicId[k]] = got[LapicId[k]]
    BY <1>1, <1>2, ApIds
  <2>2. Started(k)
    BY DEF InOrder
  <2> QED
    BY <1>1, <2>1, <2>2, QuietStep
<1>3. Started(j)'
  <2>1. Started(j) /\ at'[a] = to
    BY <1>1 DEF InOrder
  <2>2. /\ got'[a].stack = IF field = "stack" THEN params.stack ELSE got[a].stack
        /\ got'[a].id = IF field = "id" THEN params.id ELSE got[a].id
    <3>1. got[a] \in Params /\ got'[a] = [got[a] EXCEPT ![field] = params[field]]
      BY <1>1
    <3>2. field \in {"dir", "stack", "id", "entry"}
      OBVIOUS
    <3> QED
      BY <3>1, <3>2 DEF Params
  <2> USE DEF Started, Place, StackRead, IdRead, Running, OnStack, Reading,
              InKernel
  <2>3. CASE from = "get_dir"
    BY <1>1, <2>1, <2>2, <2>3
  <2>4. CASE from = "get_stack"
    <3>1. /\ params.stack \in boot_table
          /\ params.stack >= j
          /\ a \in late \/ params.stack = j
      BY <1>1, <2>4, WhileReading
    <3> QED
      BY <1>1, <2>1, <2>2, <2>4, <3>1
  <2>5. CASE from = "get_id"
    <3>1. IdFor(j, params.id)
      BY <1>1, <2>5, WhileReading
    <3>2. IdFor(j, got[a].id)'
      BY <1>1, <2>2, <2>5, <3>1 DEF IdFor
    <3> QED
      BY <1>1, <2>1, <2>2, <2>5, <3>2
  <2>6. CASE from = "get_entry"
    <3>1. IdRead(j)'
      BY <1>1, <2>1, <2>2, <2>6 DEF IdFor
    <3> QED
      BY <1>1, <2>1, <2>2, <2>6, <3>1
  <2> QED
    BY <2>3, <2>4, <2>5, <2>6
<1> QED
  BY <1>2, <1>3

\* A step of a processor in the kernel.
LEMMA KernelStep ==
    ASSUME InOrder, NEW j \in 1 .. NumCpus - 1,
           NEW to \in InKernel,
           at[LapicId[j]] \in InKernel,
           at' = [at EXCEPT ![LapicId[j]] = to],
           UNCHANGED <<pc, i, boot_table, late, got>>
    PROVE  \A k \in 1 .. NumCpus - 1 : Started(k)'
<1>1. LapicId[j] \in Ap /\ at \in [Ap -> ApLabels]
  BY ApIds DEF InOrder, Typed, TypeOK
<1>2. at'[LapicId[j]] = to
  BY <1>1
<1>3. ASSUME NEW k \in 1 .. NumCpus - 1 PROVE Started(k)'
  <2>1. Started(k)
    BY DEF InOrder
  <2>2. CASE k = j
    <3>1. Place(k)' /\ StackRead(k)'
      BY <1>2, <2>1, <2>2
      DEF Started, Place, StackRead, Running, OnStack, Reading, InKernel
    <3>2. IdRead(k)'
      BY <1>2, <2>1, <2>2 DEF Started, IdRead, IdFor, OnStack
    <3> QED
      BY <3>1, <3>2 DEF Started
  <2>3. CASE k # j
    <3>1. at'[LapicId[k]] = at[LapicId[k]]
      BY <1>1, <2>3, ApIds
    <3> QED
      BY <2>1, <3>1, QuietStep
  <2> QED
    BY <2>2, <2>3
<1> QED
  BY <1>3

\* The processors leave the loop's variables alone.
LEMMA ApInOrder == ASSUME InOrder, NEW a \in Ap, ApStep(a) PROVE InOrder'
<1>t. Typed' /\ Waiting'
  BY ApTyped, WaitingStep DEF InOrder, Next
<1>u. UNCHANGED <<bspVars, params, history>>
  BY DEF ApStep, GetDirectory, GetStack, GetId, GetEntry, Get, HeapRead,
         HeapWrite, SetEntry, LoadGs, Finish
<1>p. Passed' /\ Mapped'
  BY <1>u DEF InOrder, Passed, Mapped, bspVars, memory
<1> PICK j \in 1 .. NumCpus - 1 : a = LapicId[j]
  BY ApIds
<1>s. \A k \in 1 .. NumCpus - 1 : Started(k)'
  <2>1. CASE GetDirectory(a)
    BY <2>1, GetInOrder DEF GetDirectory
  <2>2. CASE GetStack(a)
    BY <2>2, GetInOrder DEF GetStack
  <2>3. CASE GetId(a)
    BY <2>3, GetInOrder DEF GetId
  <2>4. CASE GetEntry(a)
    BY <2>4, GetInOrder DEF GetEntry
  <2> USE DEF ApGoto, InKernel, bspVars, memory, history
  <2>5. CASE HeapRead(a)
    BY <1>u, <2>5, KernelStep DEF HeapRead
  <2>6. CASE HeapWrite(a)
    BY <1>u, <2>6, KernelStep DEF HeapWrite
  <2>7. CASE SetEntry(a)
    BY <1>u, <2>7, KernelStep DEF SetEntry
  <2>8. CASE LoadGs(a)
    BY <1>u, <2>8, KernelStep DEF LoadGs
  <2>9. CASE Finish(a)
    BY <1>u, <2>9, KernelStep DEF Finish
  <2> QED
    BY <2>1, <2>2, <2>3, <2>4, <2>5, <2>6, <2>7, <2>8, <2>9 DEF ApStep
<1> QED
  BY <1>t, <1>p, <1>s DEF InOrder

-----------------------------------------------------------------------------
(* The theorems *)

\* However the speeds of the processors compare, the order is kept.
THEOREM Invariance == Spec => []InOrder
<1>1. Init => InOrder
  BY InitInOrder
<1>2. InOrder /\ [Next]_vars => InOrder'
  <2>1. CASE BspStep
    <3>1. InOrder => Typed' /\ Waiting'
      BY <2>1, BspTyped, WaitingStep DEF InOrder, Next
    <3> QED
      BY <2>1, <3>1, BspPassed, BspMapped, BspStarted DEF InOrder
  <2>2. CASE UNCHANGED vars
    <3> USE <2>2 DEF vars, bspVars, memory, apVars, history
    <3>1. Typed /\ Waiting /\ Passed /\ Mapped
              => Typed' /\ Waiting' /\ Passed' /\ Mapped'
      <4>1. TypeOK => TypeOK'
        BY DEF TypeOK
      <4>2. /\ LoopIndex /\ HasBlock => LoopIndex' /\ HasBlock'
            /\ Waiting => Waiting'
        BY DEF LoopIndex, HasBlock, Waiting
      <4>3. Passed /\ Mapped => Passed' /\ Mapped'
        BY DEF Passed, Mapped
      <4> QED
        BY <4>1, <4>2, <4>3 DEF Typed
    <3>2. ASSUME NEW j \in 1 .. NumCpus - 1, Started(j) PROVE Started(j)'
      BY <3>2, QuietStep
    <3>3. InOrder => \A j \in 1 .. NumCpus - 1 : Started(j)'
      BY <3>2 DEF InOrder
    <3> HIDE <2>2
    <3> QED
      BY <3>1, <3>3 DEF InOrder
  <2> QED
    BY <2>1, <2>2, LapicInOrder, ApInOrder DEF Next
<1> QED
  BY <1>1, <1>2, PTL DEF Spec

\* Every stack in use is mapped, and two processors share one only if the
\* one started first was late.
THEOREM Stacks == Spec => []OwnStack
<1>1. InOrder => OwnStack
  <2> SUFFICES ASSUME InOrder PROVE OwnStack
    OBVIOUS
  <2>1. ASSUME NEW a \in Ap, OnStack(a) PROVE got[a].stack \in boot_table
    <3> PICK j \in 1 .. NumCpus - 1 : a = LapicId[j]
      BY ApIds
    <3> QED
      BY <2>1 DEF InOrder, Started, StackRead
  <2>2. ASSUME NEW j \in Index \ {0}, NEW k \in Index \ {0}, j < k,
               OnStack(LapicId[j]), OnStack(LapicId[k]),
               got[LapicId[j]].stack = got[LapicId[k]].stack
        PROVE  LapicId[j] \in late
    <3>1. Started(j) /\ Started(k)
      BY DEF InOrder
    <3>2. got[LapicId[k]].stack >= k
      BY <2>2, <3>1 DEF Started, StackRead
    <3>3. LapicId[j] \in late \/ got[LapicId[j]].stack = j
      BY <2>2, <3>1 DEF Started, StackRead
    <3> QED
      BY <2>2, <3>2, <3>3
  <2> QED
    BY <2>1, <2>2 DEF OwnStack
<1> QED
  BY <1>1, Invariance, PTL

\* Every processor runs under its own identifier, or is late and runs under
\* that of a later one.
THEOREM Numbers == Spec => []OwnNumber
<1>1. InOrder => OwnNumber
  BY DEF InOrder, Started, IdRead, IdFor, OwnNumber
<1> QED
  BY <1>1, Invariance, PTL

\* A stack in use is missing from the kernel directory only if it is the
\* first and the pool is empty.
THEOREM KernelMapping == Spec => []MappedForKernel
<1>1. InOrder => MappedForKernel
  <2> SUFFICES ASSUME InOrder, NEW a \in Ap, OnStack(a),
                      got[a].stack \notin kernel_map
               PROVE  frames = 0 /\ boot_table = {1}
    BY DEF MappedForKernel
  <2> PICK j \in 1 .. NumCpus - 1 : a = LapicId[j]
    BY ApIds
  <2>1. got[a].stack \in boot_table
    BY DEF InOrder, Started, StackRead
  <2>2. Mapped
    BY DEF InOrder
  <2> QED
    BY <2>1, <2>2 DEF Mapped
<1> QED
  BY <1>1, Invariance, PTL
=============================================================================
