------------------------------ MODULE SmpBoot ------------------------------
(***************************************************************************)
(* The start of the application processors: the loop of arch_main          *)
(* (arch_main.c:609-652) on the bootstrap processor, the trampoline        *)
(* boot_ap.S, and smp_main with gdt_init on each application processor.    *)
(*                                                                         *)
(* The parameters of the trampoline are four words at the end of page 0,   *)
(* the same for every processor, and nothing tells the bootstrap processor *)
(* that they have been read: it waits for delay(1) after the startup IPI,  *)
(* and then overwrites them for the next one.  How far a processor is by   *)
(* then is a matter of time, so here it may be anywhere; `late' remembers  *)
(* the ones that had not read them.  Stacks are numbered as their pages,   *)
(* the first one being page 1 of the table ap_boot_page_table_1.           *)
(*                                                                         *)
(* Two processors on one stack overwrite each other's return addresses:    *)
(* what they do then is not known, and the model ends (Clash).             *)
(***************************************************************************)
EXTENDS Integers, FiniteSets

CONSTANTS NumCpus,     \* num_cpus, the entries of cpu_data
          LapicId,     \* cpu_data[i].lapic_id, for i in 0 .. NumCpus - 1
          HeapBlocks,  \* how many GDTs the boot heap has room for
          FreeFrames   \* how many frames the pool may have at the start

Index == 0 .. NumCpus - 1
Id == {LapicId[i] : i \in Index}
Ap == {LapicId[i] : i \in Index \ {0}}

ASSUME NumCpusAssumption == NumCpus \in Nat \ {0}
ASSUME HeapAssumption == HeapBlocks \in Nat
ASSUME FramesAssumption == FreeFrames \subseteq Nat
\* No two processors have one identifier, and an identifier is an index of
\* cpu_data: gdt_init uses it as one without a check.
ASSUME IdsAssumption ==
    /\ LapicId \in [Index -> Index]
    /\ \A i, j \in Index : LapicId[i] = LapicId[j] => i = j

VARIABLES
    pc,         \* where the bootstrap processor is
    i,          \* its loop index
    stack_page, \* the page of ap_stack_virtual
    frames,     \* free frames of the pool
    boot_table, \* the pages present in ap_boot_page_table_1
    kernel_map, \* the stack pages mapped in kernel_directory
    has_table,  \* kernel_directory has a page table for them
    params,     \* the trampoline's parameters in page 0
    icr,        \* the IPI the local APIC has still to deliver, or "idle";
                \* it is for the processor of the loop, which polls
    at,         \* where each application processor is
    got,        \* the parameters each one has read
    heap,       \* the next block b_malloc hands out
    block,      \* the block that holds the GDT of each one
    seg_base,   \* what each GDT says: an index of cpu_data
    gs,         \* the base loaded in gs of each one: an index of cpu_data
    late,       \* history: who had parameters to read when they changed
    lost        \* history: whose INIT or startup IPI has not arrived

memory == <<i, stack_page, frames, boot_table, kernel_map, has_table>>
bspVars == <<pc, memory>>
apVars == <<at, got, heap, block, seg_base, gs>>
history == <<late, lost>>
vars == <<bspVars, params, icr, apVars, history>>

NULL == -1          \* what page 0 holds before, and an index not loaded
Unset == [dir |-> NULL, stack |-> NULL, entry |-> NULL, id |-> NULL]
Directory == 1      \* ap_boot_page_directory, the same for all
SmpMain == 1        \* the address of smp_main

Init ==
    /\ pc = "test"
    /\ i = 1
    /\ stack_page = 1
    /\ frames \in FreeFrames
    /\ boot_table = {}
    /\ kernel_map = {}
    /\ has_table = FALSE
    /\ params = Unset
    /\ at = [a \in Ap |-> "off"]
    /\ got = [a \in Ap |-> Unset]
    /\ heap = 1
    /\ block = [a \in Ap |-> NULL]
    /\ seg_base = [b \in 1 .. HeapBlocks |-> NULL]
    /\ gs = [a \in Ap |-> NULL]
    /\ icr = "idle"
    /\ late = {}
    /\ lost = {}

Goto(from, to) == pc = from /\ pc' = to

ApGoto(a, from, to) ==
    /\ at[a] = from
    /\ at' = [at EXCEPT ![a] = to]

-----------------------------------------------------------------------------
(* Mistakes the properties are tested against; none is part of Next. *)

\* The entry of the page before is set.
TableBefore ==
    /\ Goto("table", "put_dir")
    /\ boot_table' = boot_table \union {i - 1}
    /\ UNCHANGED <<i, stack_page, frames, kernel_map, has_table, params, icr,
                   apVars, history>>

\* The address is taken for the top of the stack.
MapTop ==
    /\ Goto("map", "table")
    /\ \/ has_table /\ UNCHANGED <<frames, has_table>>
       \/ ~has_table /\ frames > 0 /\ frames' = frames - 1 /\ has_table' = TRUE
       \/ ~has_table /\ frames = 0 /\ UNCHANGED <<frames, has_table>>
    /\ kernel_map' = kernel_map \union {stack_page - 1}
    /\ UNCHANGED <<i, stack_page, boot_table, params, icr, apVars, history>>

\* The next processor is given the same stack.
NextSameStack ==
    /\ Goto("next", "test")
    /\ i' = i + 1
    /\ UNCHANGED <<stack_page, frames, boot_table, kernel_map, has_table,
                   params, icr, apVars, history>>

\* The index is passed in the place of the identifier.
PutIndex ==
    /\ Goto("put_id", "init")
    /\ params' = [params EXCEPT !.id = i]
    /\ UNCHANGED <<memory, icr, apVars, history>>

\* The INIT IPI is left out.
NoInitIpi ==
    /\ Goto("init", "poll_init")
    /\ UNCHANGED <<memory, params, icr, apVars, history>>

-----------------------------------------------------------------------------
(* The loop of the bootstrap processor *)

Test ==
    /\ pc = "test"
    /\ pc' = IF i < NumCpus THEN "alloc" ELSE "done"
    /\ UNCHANGED <<memory, params, icr, apVars, history>>

Alloc ==
    /\ \/ /\ frames = 0
          /\ Goto("alloc", "panicked")
          /\ UNCHANGED frames
       \/ /\ frames > 0
          /\ Goto("alloc", "map")
          /\ frames' = frames - 1
    /\ UNCHANGED <<i, stack_page, boot_table, kernel_map, has_table, params,
                   icr, apVars, history>>

\* map_page, whose result is not looked at: the first call needs a frame
\* for the page table.
Map ==
    /\ Goto("map", "table")
    /\ \/ /\ has_table
          /\ kernel_map' = kernel_map \union {stack_page}
          /\ UNCHANGED <<frames, has_table>>
       \/ /\ ~has_table /\ frames > 0
          /\ kernel_map' = kernel_map \union {stack_page}
          /\ frames' = frames - 1
          /\ has_table' = TRUE
       \/ /\ ~has_table /\ frames = 0
          /\ UNCHANGED <<kernel_map, frames, has_table>>
    /\ UNCHANGED <<i, stack_page, boot_table, params, icr, apVars, history>>

Table ==
    /\ Goto("table", "put_dir")
    /\ boot_table' = boot_table \union {i}
    /\ UNCHANGED <<i, stack_page, frames, kernel_map, has_table, params, icr,
                   apVars, history>>

\* The loads of the trampoline whose words differ from one processor to the
\* next are still to come.
Reading == {"get_dir", "get_stack", "get_id"}

\* One store of lines 626-629.
Put(from, to, field, value) ==
    /\ Goto(from, to)
    /\ params' = [params EXCEPT ![field] = value]
    /\ UNCHANGED <<memory, icr, apVars, lost>>

PutDirectory ==
    Put("put_dir", "put_stack", "dir", Directory) /\ UNCHANGED late

\* The first store that changes a word: who has not read it is late.
PutStack ==
    /\ Put("put_stack", "put_entry", "stack", stack_page)
    /\ late' = late \union {a \in Ap : at[a] \in Reading}

PutEntry == Put("put_entry", "put_id", "entry", SmpMain) /\ UNCHANGED late
PutId == Put("put_id", "init", "id", LapicId[i]) /\ UNCHANGED late

\* lapic_send_ipi to the processor of the loop, and the wait until the local
\* APIC has delivered it.
Send(from, to, kind) ==
    /\ Goto(from, to)
    /\ icr' = kind
    /\ UNCHANGED <<memory, params, apVars, history>>

Poll(from, to) ==
    /\ Goto(from, to)
    /\ icr = "idle"
    /\ UNCHANGED <<memory, params, icr, apVars, history>>

\* A delay: how far the processor is at its end is not the code's to say.
Delay(from, to) ==
    /\ Goto(from, to)
    /\ UNCHANGED <<memory, params, icr, apVars, history>>

InitIpi == Send("init", "poll_init", "init")
PollInit == Poll("poll_init", "deassert")
DeassertIpi == Send("deassert", "poll_deassert", "deassert")
PollDeassert == Poll("poll_deassert", "delay_10")
Delay10 == Delay("delay_10", "sipi")
StartupIpi == Send("sipi", "delay_1", "startup")
Delay1 == Delay("delay_1", "poll_sipi")
PollStartup == Poll("poll_sipi", "next")

NextCpu ==
    /\ Goto("next", "test")
    /\ i' = i + 1
    /\ stack_page' = stack_page + 1
    /\ UNCHANGED <<frames, boot_table, kernel_map, has_table, params, icr,
                   apVars, history>>

-----------------------------------------------------------------------------
(* The local APIC *)

\* INIT resets the processor, wherever it is.
DeliverInit ==
    /\ icr = "init"
    /\ icr' = "idle"
    /\ at' = [at EXCEPT ![LapicId[i]] = "wait_sipi"]
    /\ got' = [got EXCEPT ![LapicId[i]] = Unset]
    /\ UNCHANGED <<bspVars, params, heap, block, seg_base, gs, history>>

\* A de-assertion only synchronises the APICs.
DeliverDeassert ==
    /\ icr = "deassert"
    /\ icr' = "idle"
    /\ UNCHANGED <<bspVars, params, apVars, history>>

\* A processor that is not waiting for it ignores the startup IPI.
DeliverStartup ==
    /\ icr = "startup"
    /\ icr' = "idle"
    /\ at' = IF at[LapicId[i]] = "wait_sipi"
             THEN [at EXCEPT ![LapicId[i]] = "get_dir"] ELSE at
    /\ UNCHANGED <<bspVars, params, got, heap, block, seg_base, gs, history>>

\* An IPI nobody accepts: the status is idle again all the same.
Lose ==
    /\ icr \in {"init", "startup"}
    /\ icr' = "idle"
    /\ lost' = lost \union {LapicId[i]}
    /\ UNCHANGED <<bspVars, params, apVars, late>>

-----------------------------------------------------------------------------
(* An application processor *)

\* One load of boot_ap.S, in the order of the code.
Get(a, from, to, field) ==
    /\ ApGoto(a, from, to)
    /\ got' = [got EXCEPT ![a][field] = params[field]]
    /\ UNCHANGED <<bspVars, params, icr, heap, block, seg_base, gs, history>>

GetDirectory(a) == Get(a, "get_dir", "get_stack", "dir")
GetStack(a) == Get(a, "get_stack", "get_id", "stack")
GetId(a) == Get(a, "get_id", "get_entry", "id")
GetEntry(a) == Get(a, "get_entry", "heap_read", "entry")

\* b_malloc without a lock: it finds the block and then takes it.  The two
\* allocations of gdt_init, table and descriptor, are one block here; when
\* there is none the processor panics.
HeapRead(a) ==
    /\ \/ /\ heap > HeapBlocks
          /\ ApGoto(a, "heap_read", "panicked")
          /\ UNCHANGED block
       \/ /\ heap <= HeapBlocks
          /\ ApGoto(a, "heap_read", "heap_write")
          /\ block' = [block EXCEPT ![a] = heap]
    /\ UNCHANGED <<bspVars, params, icr, got, heap, seg_base, gs, history>>

HeapWrite(a) ==
    /\ ApGoto(a, "heap_write", "set_entry")
    /\ heap' = block[a] + 1
    /\ UNCHANGED <<bspVars, params, icr, got, block, seg_base, gs, history>>

\* gdt[5] describes the cpu_data entry of the identifier passed.
SetEntry(a) ==
    /\ ApGoto(a, "set_entry", "load_gs")
    /\ seg_base' = [seg_base EXCEPT ![block[a]] = got[a].id]
    /\ UNCHANGED <<bspVars, params, icr, got, heap, block, gs, history>>

LoadGs(a) ==
    /\ ApGoto(a, "load_gs", "initialized")
    /\ gs' = [gs EXCEPT ![a] = seg_base[block[a]]]
    /\ UNCHANGED <<bspVars, params, icr, got, heap, block, seg_base, history>>

\* The end of smp_main: processor 3 divides by zero, the others halt.
Finish(a) ==
    /\ ApGoto(a, "initialized", IF got[a].id = 3 THEN "faulted" ELSE "halted")
    /\ UNCHANGED <<bspVars, params, icr, got, heap, block, seg_base, gs, history>>

-----------------------------------------------------------------------------
\* A processor is on its stack from the push of its identifier on.
InKernel ==
    {"heap_read", "heap_write", "set_entry", "load_gs", "initialized",
     "halted", "faulted", "panicked"}
OnStack(a) == at[a] \in {"get_entry"} \union InKernel

Clash == \E a, b \in Ap :
    a # b /\ OnStack(a) /\ OnStack(b) /\ got[a].stack = got[b].stack

BspStep ==
    /\ ~Clash
    /\ \/ Test \/ Alloc \/ Map \/ Table
       \/ PutDirectory \/ PutStack \/ PutEntry \/ PutId
       \/ InitIpi \/ PollInit \/ DeassertIpi \/ PollDeassert \/ Delay10
       \/ StartupIpi \/ Delay1 \/ PollStartup \/ NextCpu

LapicStep ==
    /\ ~Clash
    /\ DeliverInit \/ DeliverDeassert \/ DeliverStartup \/ Lose

ApStep(a) ==
    /\ ~Clash
    /\ \/ GetDirectory(a) \/ GetStack(a) \/ GetId(a) \/ GetEntry(a)
       \/ HeapRead(a) \/ HeapWrite(a) \/ SetEntry(a) \/ LoadGs(a) \/ Finish(a)

Next == BspStep \/ LapicStep \/ \E a \in Ap : ApStep(a)

Spec == Init /\ [][Next]_vars

\* Every processor that runs executes its next instruction; the local APIC
\* gets done with an IPI; the delays end because the timer keeps
\* interrupting.
FairSpec ==
    /\ Spec
    /\ WF_vars(BspStep)
    /\ WF_vars(LapicStep)
    /\ \A a \in Ap : WF_vars(ApStep(a))

-----------------------------------------------------------------------------
(* Properties *)

BspLabels ==
    {"test", "alloc", "map", "table", "put_dir", "put_stack", "put_entry",
     "put_id", "init", "poll_init", "deassert", "poll_deassert", "delay_10",
     "sipi", "delay_1", "poll_sipi", "next", "done", "panicked"}
ApLabels == {"off", "wait_sipi", "get_entry"} \union Reading \union InKernel

Params ==
    [dir : {NULL, Directory}, stack : {NULL} \union 1 .. NumCpus - 1,
     entry : {NULL, SmpMain}, id : {NULL} \union Id]

\* Type invariant.
TypeOK ==
    /\ pc \in BspLabels
    /\ i \in 1 .. NumCpus
    /\ stack_page \in 1 .. NumCpus
    /\ frames \in Nat
    /\ boot_table \subseteq 1 .. NumCpus - 1
    /\ kernel_map \subseteq 1 .. NumCpus - 1
    /\ has_table \in BOOLEAN
    /\ params \in Params
    /\ icr \in {"idle", "init", "deassert", "startup"}
    /\ at \in [Ap -> ApLabels]
    /\ got \in [Ap -> Params]
    /\ heap \in 1 .. HeapBlocks + 1
    /\ block \in [Ap -> {NULL} \union 1 .. HeapBlocks]
    /\ seg_base \in [1 .. HeapBlocks -> {NULL} \union Id]
    /\ gs \in [Ap -> {NULL} \union Id]
    /\ late \subseteq Ap
    /\ lost \subseteq Ap

\* Comment at boot_ap.S:18: the second parameter "is the allocated stack for
\* this CPU".  A processor's stack is mapped in its directory, whatever it
\* has read; and of two processors on one stack, the one the loop started
\* first had still to read its parameters when they were overwritten.  So a
\* processor that is not late never runs on the stack of one after it.
OwnStack ==
    /\ \A a \in Ap : OnStack(a) => got[a].stack \in boot_table
    /\ \A j, k \in Index \ {0} :
          /\ j < k
          /\ OnStack(LapicId[j]) /\ OnStack(LapicId[k])
          /\ got[LapicId[j]].stack = got[LapicId[k]].stack
          => LapicId[j] \in late

\* A processor goes by its own identifier, or it is late and goes by that of
\* one the loop started after it.
OwnNumber ==
    \A j \in Index \ {0} :
        LET a == LapicId[j]
        IN  OnStack(a) =>
                \/ got[a].id = a
                \/ /\ a \in late
                   /\ \E k \in Index : j < k /\ got[a].id = LapicId[k]

\* Comment at arch_main.c:616: the stack that is passed to a processor is
\* mapped in the kernel directory as well.  The result of map_page is not
\* looked at, so this can fail, but only for the first stack, when the pool
\* has no frame left for the page table, and then no other processor is
\* started.
MappedForKernel ==
    \A a \in Ap :
        OnStack(a) /\ got[a].stack \notin kernel_map =>
            frames = 0 /\ boot_table = {1}

\* The loop goes through the whole list, and every processor on it reaches
\* the end of smp_main or panics for want of memory, except one whose IPI
\* was lost: there is no retry (arch_main.c:640).  The bootstrap processor
\* may run out of frames, and nothing is promised once a processor was late.
Ended == {"halted", "faulted", "panicked"}
AllStarted ==
    <>(\/ pc = "panicked" \/ late # {}
       \/ pc = "done" /\ \A a \in Ap : a \in lost \/ at[a] \in Ended)

\* Comment at gdt.c:13: the entries "support per cpu variables [...] in smp
\* systems": the per-CPU segment of a processor is the one of the identifier
\* it was given.
PerCpuPrivate ==
    \A a \in Ap :
        at[a] \in {"initialized", "halted", "faulted"} => gs[a] = got[a].id
=============================================================================
