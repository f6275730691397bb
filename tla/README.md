# yauos in TLA+

yauos is a small i386 kernel (about 6,500 lines of C and assembly, no tests).
This directory holds TLA+ modules translated from its source, the TLC
configurations that check them on small instances, and TLAPS proofs. Line
numbers refer to the repository; `PROJECT.json` maps every definition to the
lines it stands for.

## 1. The system

| Part | Source | State | Operations |
|---|---|---|---|
| Spinlock | `kernel/spinlock.c`, `arch/i386/cpu/xchg.S` | one word per lock, the CPU's interrupt flag | `lock`, `unlock` (spin on an exchange when `smp`, `cli`/`sti` otherwise) |
| Physical memory manager | `kernel/mm/pm.c`, `lib/bitmap/bitmap.c` | ring of regions, each with a bitmap and counters; a search hint | `pmm_init`, `get_free_frame`, `free_frame` |
| Virtual memory | `arch/i386/kernel/mm/vm.c` | the page directory and its tables (through a recursive mapping), the TLB | `map_page`, `unmap_page` |
| Kernel heap | `kernel/mm/kmalloc.c` | break, ring of free blocks | `k_malloc_init`, `k_malloc`, `k_zmalloc`, `k_free` |
| Boot heap | `arch/i386/bootmem/bootmem.c` | the same, over a static array | `b_malloc`, `b_zmalloc`, `b_free` |
| Console and panic | `kernel/printk/printk.c` | `console_lock` | `printk`, `panic` |
| Boot consoles | `arch/i386/bootconsole/*.c`, `platform/pc/vga_text_mode` | ring of 4096 characters, selected device, cursor | write, flush, select |
| Interrupts | `arch/i386/cpu/interrupt/*`, `platform/pc/pic/pic.c`, `pit`, `lapic` | handler table, the two 8259 (IMR, IRR, ISR, selected register) | register, unregister, the common handler, masking |
| Exceptions | `arch/i386/cpu/exception/*` | the nesting counter | the common handler |
| Boot processor | `arch/i386/arch_main.c`, `boot.S` | the boot order | `arch_main`, `parse_cmdline`, `parse_memory_map`, `boot_console_init` |
| SMP | `arch/i386/cpu/smp.c`, `boot_ap.S`, `arch_main.c:559-653` | CPU table, the parameters of the trampoline | `smp_init`, the start of every application processor, `smp_main` |
| Descriptor tables | `arch/i386/cpu/gdt`, `idt` | GDT and IDT of each CPU | `gdt_init`, `idt_init` |
| Library | `lib/string` | none | memory and string routines |
| Build files, headers of constants, linker script | | none | |

How the parts interact: `pmm_init` takes its list cells from the boot heap and
marks in the bitmaps what the kernel occupies; `map_page` takes frames from the
memory manager for page tables and `unmap_page` gives frames back;
`k_malloc_init` fills the kernel heap's address range with frames through
`map_page`, and `k_malloc` only moves inside that range. Every lock is
`spinlock.c`, whose mode depends on `smp`, which `smp_init` sets in the middle
of the boot. `printk` is called from everywhere, also from interrupt and
exception handlers, and takes `console_lock`. The boot processor starts the
others one by one, passing parameters through fixed addresses of page 0.

### What makes each part correct

* **Memory manager**: no frame has two owners or is given out while reserved;
  the counters that are read without the lock follow the bitmaps; a legal free
  never panics; a call fails only when there is nothing to give.
* **Spinlock, console**: mutual exclusion in both modes; interrupts stay off
  where the caller turned them off; no CPU waits for a lock it holds; `panic`
  does not return.
* **Heaps**: allocated blocks never overlap each other or the free list; the
  ring stays sorted and merged; allocated plus free is what the break has given.
* **Virtual memory**: a mapping is created only where there was none; a frame
  that is back in the pool is reachable through no mapping of any TLB; a page
  table is freed only when empty.
* **SMP start**: every application processor runs with its own stack and its
  own CPU number, once.
* **Interrupts**: every interrupt in service is acknowledged to the chips that
  latched it, once; a line that is masked delivers nothing; handlers are
  registered only where the comment allows.
* **Boot**: what the boot loader says reaches the kernel as it said it; no text
  is lost between the consoles; the processors and the memory found are what
  the later parts take for granted; a supported machine boots.

## 2. Modules and code

Control is kept line by line (every guard, early return and store to shared
state, in the order of the code); data is reduced to what the properties tell
apart. `pc`-like variables name the next line; a local variable that later
steps read is a variable of the module, and is forgotten when its call returns.
Each module has a section of mistakes (`LockByStore`, `FlushForgotten`, ...):
variants of a step that the properties are tested against. They are no part of
any `Next`; `PROJECT.json` pairs each with the property that catches it.

| Module | Models | Instance | Proofs |
|---|---|---|---|
| `FramePool` | what the memory manager promises | | |
| `FrameAllocator` | `get_free_frame`, `free_frame`, the lock | `MCFrameAllocator` | `FrameAllocatorProofs` |
| `Console` | spinlock, `printk`, `panic`, exceptions | `MCConsole` | `ConsoleProofs` |
| `SmpBoot` | the start of the application processors | `MCSmpBoot` | `SmpBootProofs` |
| `KRHeap` | `k_malloc`, `k_free` (and `b_malloc`, `b_free`) | `MCKRHeap` | `KRHeapProofs` |
| `Paging` | `map_page`, `unmap_page`, `k_malloc_init`, the TLB | `MCPaging` | `PagingProofs` |
| `Interrupts` | the 8259, handlers, timer, `delay` | `MCInterrupts` | `InterruptsProofs` |
| `Boot` | `arch_main` up to `kernel_main` | `MCBoot` | `BootProofs` |
| `PmmInit` | `pmm_init`, as operators used by `Boot` | | `PmmInitProofs` |
| `CommandLine`, `BootConsole`, `MpTable` | the other computations of the boot, as operators used by `Boot` | | |

The modules meet where the code does. `FrameAllocator` and `Paging` both have
their frames in a `FramePool`, `FrameAllocator` as its implementation and
`Paging` as its user. `Boot` ends where the others begin: `PoolReady` is what
`FrameAllocator` starts from, `IdsFitTheStart` the assumption on identifiers of
`SmpBoot`, `HeapBehindBitmaps` the range of `k_malloc_init` in `Paging`. The
delays of `SmpBoot` end at any moment: what `Interrupts` shows of `delay` says
nothing of how far another processor is. The state of the whole kernel is in no
module: the parts run one after the other, or share only what the module of the
shared part has.

### `FramePool`, `FrameAllocator`: the memory manager

`FramePool` is the promise: a frame is free, allocated, reserved, or carried by
one call, and each call changes that in two atomic steps (claim and deliver,
surrender and recycle). `FrameAllocator` is `pm.c:336-399`: one action per
access to shared state. `bitmap` is the set of frames whose bit is set, over all
regions; `used_blocks`, `total_used_blocks`, `last_with_free_blocks` and
`pmm_lock` are the variables of those names. `GetFreeFrame` to `Advance` are
`get_free_frame`, `FreeFrame` to `FreeUnlock` are `free_frame`. The lock is the
exchange loop of `spinlock.c` (`smp` set); `bitmap_first_unset` is the first
clear bit of the region. The constants `Base` and `Length` are the entries of the
memory map the regions come from, with any byte as a beginning and an end; the
number of blocks and the first and last page follow from them as in `pmm_init`
(`PmmInit`), whose bits are the constant `Reserved`. A caller has the address of
a frame only. `FreeFrame` finds the region and the bit again (`addr_to_bitmap`,
`BitOf`), and panics for an address behind all regions. `OrderAssumption` is what
that search silently needs of the map. `allocated` is a history variable: the
bits whose addresses the kernel got and has not freed; only such addresses are
freed.

### `Console`: lock, printk, panic, exceptions, the boot that decides the mode

`stack[c]` holds the activations of a CPU, one record per `_printk` call or
exception. `TakeLock`/`Unlock` are `lock`/`unlock` in the two modes of
`spinlock.c`; `Printed` to `PanicHlt` the two ways out of `_printk`; `Raise`,
`CountRead` to `Iret` the stub and `exception_common_handler`, with
`++nested_counter` as a load and a store. `SmpInit`, `IdtInit`, `Sti`, `StartAp`
are the points of the boot these depend on. `Interrupt` ends a `hlt`. An
exception or an interrupt on a CPU without an IDT is a triple fault and resets
the machine (`Reset`); what follows a reset is the initial state again, so the
model stops there.

### `SmpBoot`: the start of the application processors

`Test` to `NextCpu` are the loop of `arch_main.c:609-652`; the four stores into
page 0 and the loads of `boot_ap.S` are steps of their own. `icr` is the IPI the
local APIC has still to deliver, `PollInit`, `PollDeassert` and `PollStartup` the
loops that wait for it. An INIT resets the processor wherever it is, a startup
IPI starts one that waits, and either may be lost (`Lose`). The delays may end at
any time, and nothing tells the loop that the parameters in page 0 have been
read: an application processor may be anywhere when they change. `late` remembers
the ones that had some to read then, `lost` the ones an IPI did not reach. Two
processors on one stack overwrite each other's return addresses, and the model
ends (`Clash`). `gdt_init` allocates from the boot heap, which has no lock:
`HeapRead` and `HeapWrite` are the search and the store of the new head,
`SetEntry` and `LoadGs` make the per-CPU segment.

### `KRHeap`: the allocator of the heaps

`kmalloc.c` after `k_malloc_init`, in units of a header. `ptr` and `size` are
the fields of the header at each address; `Malloc`, `TakeWhole`, `TakeTail`,
`SearchNext`, `Extend` and `Fail` are `k_malloc` with `k_morecore` and
`k_sbrk`; `Free`, `PlaceNext` and `Link` are `k_free`. An iteration of a loop is
a step. Sizes wrap at the word as in the code. `held` and `listed` are history
variables; the fields of `listed` headers must agree with them (`RingInOrder`).
`bootmem.c` is the same code with `MoreCore` = 128 and a heap of 512 units.

### `Paging`: page tables, the TLB and the range of the heap

`dir` is `kernel_directory`, `mem` the frames seen as page tables. A frame that
becomes a table keeps what it had (`NewTable` chooses any content, `Junk` being
a present entry nobody wrote), since `map_page` does not clear it. A table is
reached through the recursive entry of the directory, so its own address is
translated: `win` caches those translations, `tlb` those of pages, and
`Fill` and `Evict` let the processor cache and forget at any moment. `UseTable`
to `Flush` are `map_page`, `ClearEntry` to `FreeTable` are `unmap_page`;
`free_frame` of something that was not handed out is the panic of `pm.c`. The
callers are `arch_main` (APIC registers and stacks, with results ignored) and
`k_malloc_init` with its way back (`Undo`). One processor calls them, and no
lock is taken. `LayoutAssumption` is the layout of the address space:
registers at their physical addresses, stacks from 0xD0001000 on and the heap
behind the kernel have pages of their own. The table of `boot.S` maps the
first 2 MB only; `KernelSlot` stands for the entries of the kernel image, the
other entries of that table are taken by the heap.

### `Interrupts`: 8259, handlers, timer

`imr`, `irr` and `isr` are the registers of the two chips over lines 0 to 15,
in fully nested mode with the slave at line 2. `Accept` and `Spurious` deliver;
`contexts` is the stack of interrupts in service, the running one last, and
`Begin` to `Iret` are the stub, `interrupt_common_handler` and the return.
`DriverPrints` is the effect of a `printk` in a handler on a machine with one
processor: the `unlock` turns interrupts on. `PicInit`, `StartTimer` and
`ArchInitDone` are the boot, `Delay` and `DelayStep` the loop of `delay` with
its test and its `hlt` as two steps, and afterwards any call of `interrupt.h`
and `pic.h` may come. Code takes no time; time passes in fractions of a tick
while the processor halts, or for up to a millisecond between two delays
(`Elapse`, `Tick`). `found`, `line`, `cascaded`, `took` and `refused` are ghosts.

### `Boot` and its operators

A machine (command line, serial port, CPU features, memory map, MP structures,
size of the kernel, the call in which the boot heap is used up) is chosen in
`Init` from the constant `Machines`. Each call of `arch_main` is an action; its
computation is an operator: `parse_cmdline` (a recursive function on the number
of tokens read, which keeps the running text, as the code keeps its two sizes), `TryArg` (an
iteration of `boot_console_init`, with its four ways out), `parse_memory_map`,
`smp_init` (the search in both areas, the walks over the bytes of the table
with `sizeof` of the structures in `smp.h`), and `pmm_init` in three parts:
the regions, the search for the place of their bitmaps, and one action per
`reserve_region`. A text on the console is the number of its `printk`; a bitmap
is the set of its bits. Panics end the boot after printing; a copy outside its
allocation ends it as `corrupt`. A missing command line is a page fault inside
the last `printk` (`PageFault`): with several processors the panic waits for the
`console_lock` its own processor holds, and the boot ends as `stuck`.

## 3. The runs

| Run | Instance | Shows | States |
|---|---|---|---|
| `frame_allocator` | 3 CPUs, regions of 2, 0 and 2 frames, entries that end inside a page, the first frame reserved | ownership, counters, no panic of a legal free, calls that give up do so when all is taken, refinement of `FramePool`, the lock always released, calls that return | 197,204 |
| `frame_allocator_gives_up` | 1 CPU, a reserved last region | **violation**: a call fails although frames are free | |
| `console` | 3 CPUs of which the boot finds one or several; alone, the driver may fault, up to 9 activations deep | one printer, exact nesting counter, printing masked, panics that halt and stay halted, the lock always released | 193,769 |
| `console_panic_returns` | 1 CPU | **violation**: `panic` returns | |
| `smp_boot` | 4 processors, identifiers out of order, 1, 2 or 4 frames, 2 GDTs; IPIs may be lost, processors are anywhere when the parameters change | a processor that read in time has its own stack and number, a late one those of a later one; stacks mapped; all started but for lost IPIs | 388,490 |
| `smp_boot_heap` | 3 processors | **violation**: two processors share a GDT | |
| `kernel_heap` | 7 units, chunks of 3, requests of 0 to 60 bytes | blocks tile the heap, a sorted merged ring, NULL only without room, calls return | 557,899 |
| `paging` | 3 directory entries, tables of 2, any set of 6 frames free; an APIC page, a stack and 3 heap pages over two tables | one owner per frame, no stale translation, all-or-nothing heap, other mappings untouched, `FramePool` used by its rules | 55,828 |
| `interrupts` | lines 0, 3 and 9, one or several processors, 2 nested handlers, 1 spurious interrupt, delays of 2 and 1 ms in halves of a tick | lines acknowledged once and by their own handler, delays that last from the next tick on and end, the firmware's masks restored | 148,280 |
| `interrupts_register` | the same with number 48 | **violation**: a number the comment allows is refused | |
| `boot` | 426 machines | the boot information, the console, the processors and the memory are what the rest needs; supported machines boot | 4,029 |
| `boot_reserved` | the 60 memory maps and kernel sizes | **violation**: part of the kernel or of a bitmap is in a frame that is handed out | |

Some properties are conjunctions of named parts that concern one hazard:
`OneCpuInOrder` = `NestedExact` (the counter is the depth) and
`MaskedWhilePrinting`; `ConsoleGoesOn` = `ConsoleReleased` and `AllPanicsHalt`;
`FramesOwned` = `TypeOK`, `OneOwner`, `Accounted`; `AccessesReachTheirFrame` =
`NoStaleTranslation`, `WindowReachesTable`; `HandlersInOrder` = `TypeOK`,
`InServiceIsHandled`, `NestsOnlyWhenPrinting`; `TimeGoesOn` = `DelayEnds`,
`TimerServed`; `BootInfoKept` = `TypeOK`, `LeadingAssignmentsTaken`,
`MapOnlyFromLoader`, `MapComplete`; `ConsoleKeepsAll` = `NothingLost`,
`PanicIsShown`; `CpusFit` = `CpusAsListed`, `IdsFitTheStart`; `MemoryFit` =
`PoolReady`, `MemoryInUseIsReserved`, `WholePagesReserved`, `FramesAreMemory`,
`BitmapsApart`, `HeapBehindBitmaps`; `Boots` = `BootEnds`, `SupportedBoots`.

Some properties hold only under a condition, stated in them, and the condition
is the boundary of what the code supports: `InServiceIsHandled` ends with the
first interrupt of the slave, `CpusAsListed` needs local interrupt entries that
leave the polarity to the bus, `PoolReady` and `BitmapsApart` need room beside
the kernel and a full low region, `FramesAreMemory` regions that start at a
page, `HeapBehindBitmaps` a kernel that ends at a page. `MemoryInUseIsReserved`
is about whole frames of the kernel, and of each bitmap about its first frame and
one more for each whole frame of its size: the frame the kernel ends in and up to
two at the end of a bitmap may be handed out, as `boot_reserved` shows. Only where
the kernel ends at a page and the bitmaps fit in one is nothing in use free
(`WholePagesReserved`). In `frame_allocator` the entries before a region that has
frames end before it (`OrderAssumption`), and no entry crosses 4 GiB; in `boot`
none that is taken reaches the last page below. `OwnStack` and `OwnNumber` let a
processor that was late run on the stack and under the number of a later one, and
`AllStarted` promises nothing then. Section 4 says what happens outside.

**Why the bounds are enough.**

* *Frame allocator*: a race needs two CPUs, a third one lets a free happen
  between their steps; an empty region, two others and the ring around them are
  what the hint and the counters distinguish; two frames make a region partly
  full. The first two entries end inside a page, so that the end of one region
  and the beginning of the next share it and the search by address meets its
  boundary. Every state of the regions, from empty to full, is reached. The
  violation needs the reserved last region.
* *Console*: three CPUs are one that panics, one that waits and one that prints;
  nine activations are four handlers with their calls, one more than the three
  after which the handler gives up.
* *SmpBoot*: the loop treats all processors alike, so two application processors
  show every interference of neighbours; the third lets an earlier one be
  anywhere in `smp_main`. One frame panics at the second processor, two leave
  none for the page table, four are enough; two GDTs for three processors
  exhaust the boot heap. Each IPI may be lost, and a processor may be behind by
  any number of rounds.
* *Heap*: two chunks and a remainder a chunk does not fit in; requests of one
  unit, of exactly a chunk, of more than a chunk and of more than the heap.
* *Paging*: three tables are the one of `boot.S`, one made for a stack and one
  made for the heap, which also crosses a boundary; two entries make a table
  empty, partly used and full. Six frames are what the stack, the heap pages
  and the two tables take; any subset of them may be free at the start, so every
  call can be the one that finds no frame. Frames are symmetric: no frame is
  named, and no property is a liveness property.
* *Interrupts*: a line above and one below the cascade input and the timer, a
  spurious number with and without a request of its own, two contexts for one
  nested handler. Half ticks let a delay begin at a tick or between two.
* *Boot*: each of the four sets varies one part of a machine. Command lines are
  all those of up to three words out of five; maps have one to five entries and
  include a reserved first entry, none, gaps, an entry above 4 GiB in and out of
  order, and regions too short or not at a page; kernels end at a page, just
  behind and just before one; one machine has two processors and no command
  line; tables have one to three processors, disabled
  ones, any of them first, and the bootstrap one not first. The ring holds 8
  texts (`BUF_SIZE`), more than are printed before a device is chosen, as the
  4096 characters of the code are.

**Deadlock** is checked for the allocator and the heap. The others stop legally
(all CPUs halted or the machine reset, all processors started, the heap made or
refused, the real mode configuration restored, the boot ended), so
`CHECK_DEADLOCK FALSE` is set there, and the liveness properties say what must
have happened.

**Fairness.** Weak fairness of each CPU's own steps: a processor that is not
halted executes its next instruction. Nothing is assumed about who wins an
exchange, so no property says that a particular waiter gets a lock, only that
the lock is released (`LockReleased`, `ConsoleReleased`) and that a call whose
CPU does not wait for the lock returns. New calls, exceptions and interrupts
are never required. In `SmpBoot` the local APIC gets done with an IPI, delivered or
lost (weak fairness of `LapicStep`), and weak fairness of `BspStep` contains that
a delay ends, since the timer goes on interrupting; in `Interrupts` that is shown from below: time passes and
the timer ticks (weak fairness of `Elapse` and `Tick`), the processor executes
(`Delay`, `DelayStep`, `Handling`), and strong fairness of `Delivery` says that
it takes a pending request if interrupts are on again and again, which a
processor does at the first instruction boundary. The heap has weak fairness of
the call in progress; the boot of its only thread. `Paging` states no fairness
and no liveness.

## 4. What disagrees with the documentation

Five are runs that expect a violation, with the comment they refute quoted in
`PROJECT.json`.

* `pm.c:378`: the search for a frame starts at a hint and never comes back to
  the head of the ring, so `get_free_frame` fails while frames are free.
* `printk.c:365`: with one CPU `panic` returns at the next interrupt.
* `gdt.c:37`: two processors can be given one GDT by the boot heap.
* `interrupt_high.c:26`: a disjunction in place of a range test refuses every
  number after the boot on a machine with several processors.
* `pm.c:80`: `reserve_region` rounds down, so the last, partial frame of the
  kernel or of a bitmap is not reserved.

Others were met while translating. They have no run of their own; they are
behaviours of the models, and most are the conditions mentioned in section 3.

* `spinlock.c:16`: `unlock` turns interrupts on during the boot, long before
  there is an IDT, against `boot.S:56`.
* `exception_high.c:29`: the nesting counter is shared by all CPUs and never
  goes down after a panic: on several CPUs the third exception of the machine is
  reported as a nested one.
* `arch_main.c:646`: the parameters of a processor are overwritten after a fixed
  delay whether they were read or not. A processor that is late takes the stack
  or the number of a later one, which `OwnStack` and `OwnNumber` allow for, against
  `boot_ap.S:18` ("the allocated stack for this CPU"). The startup IPI is not sent
  again (`arch_main.c:640` leaves that for later): a lost one leaves the processor
  out, unnoticed.
* `arch_main.c:461-466`: `delay` counts ticks. It can end almost a millisecond
  early, and `delay(1)` at once, against "a specified amount of milliseconds"
  (line 459) and "Delaying more than the 200 micro seconds specified in the spec"
  (line 644). `DelayLastsFromNextTick` states what remains.
* `arch_main.c:258-262`: the comment promises a fallback from the serial port to
  the text mode. Only `bootconsole=serial` has it, and a further argument undoes
  it; an unknown console or another first argument panics on the broken port.
* `arch_main.c:208`: an entry above 4 GiB followed by one below it makes the copy
  of the memory map leave its allocation.
* `kernel_main.c:8`: a missing command line is printed through a null pointer at
  the end of the boot. The page fault is raised inside `printk`; with one processor
  the kernel panics, with several the panic waits for ever for the lock its own
  `printk` holds, and shows nothing.
* `pm.c:57`: `addr_to_bitmap` "checks which bitmap manages a given address", but
  takes the first region that does not end before it: with entries out of order or
  overlapping a frame is freed in another region's bitmap, if not with a panic,
  and no region is found for an address inside the last page of the last one.
  `last_addr` is truncated to 32 bits (line 134), so a region that crosses 4 GiB
  seems to end at a low address. `free_frame` and `pmm_init` depend on it.
* `pm.c:190`: the kernel is taken to start in every region that ends behind its
  start, so the bitmaps can be placed in a region that was not tested. No room
  is marked with -1 and looked for as `NULL`.
* `pm.c:134`: a region that does not start at a page gets a frame too many.
* `pm.c:164`: `kernel_virtual_end` leaves out the gap before the bitmaps, so the
  heap can begin inside them if the kernel does not end at a page.
* The reservation of the BIOS area up to 0x9F000 sets bits behind the bitmap of
  a smaller low region.
* `smp.h`: a local interrupt entry is read as 7 bytes of its 8.
* `interrupt_high.c:48`: the tests for spurious interrupts are a conjunction with
  the constant 0 and never succeed. Numbers 40 to 46 acknowledge the slave only.
* `pic.c:143`: enabling a line of the slave enables nothing.
* `vm.c`: a new page table is not cleared, so `map_page` can refuse a page that
  was never mapped; `arch_main` ignores the refusal.

## 5. What is proved

For every value of the constants, under the named assumptions beside them.

**`FrameAllocatorProofs`** (any number of CPUs, any map whose entries are in
order in the sense of `OrderAssumption` and end within 4 GiB). That the
region and the bit found from an address are those it came from is a lemma
about the map (`OwnBit`), the only place where the order is used. The inductive
invariant `IInv` has four layers. `Typed` gives every program counter the
values its locals have there (`TypeOK` alone does not: a carried frame must be
a frame of the region the call looks at). `LockMutex` then needs only `Typed`.
`Ownership`, which adds to `NoDoubleAllocation` that a searching call carries a
clear bit, needs both: the lock is what keeps the bit clear between the search
and the store. `Counters` needs all three, because a set changes by exactly
one frame only if that frame was not in it. From `IInv`: `TypeOK` with the
counters never below zero, `NoPanic`, `FullWhenGivingUp` (at the unlocked test of
line 346, also in the middle of another call, the only frame that may be free is
one whose bit that call has cleared and not yet counted) and `PoolSpec`: initial states map
to initial states and every step to a step of `FramePool` or a stutter.

**`SmpBootProofs`** (any number of processors, whatever their speeds). Nothing is
assumed about time. The invariant `InOrder` says of each processor where it may be
by the progress of the loop (`Place`): one that has parameters to read and is not
late is the one being started, or the one before it while the words are still its
own (`Passed`). What it has read is then its own, and what a late one has read is
that of a processor started later or its own (`StackRead`, `IdRead`): stacks and
identifiers are only ever replaced by those of a later round. `OwnStack`,
`OwnNumber` and `MappedForKernel` follow.

**`ConsoleProofs`** (any set of CPUs, any depth, drivers that fault or not).
`OnePrinter` is not inductive. The word of the lock and the calls inside it
agree only while the mode of the lock does not change under a caller, and who
may be inside depends on every level of every stack. `IInv` therefore has
`StacksOK`, which says of each activation what may lie on top of it: with
several CPUs a panic that halted is the last one for good (`Final`), with one
the interrupts are off above a printing call (`Masked`), and handlers and their
calls alternate (`Nested`). `Modes` ties the stage of the boot to `smp` and to
the CPUs that run: the mode changes only while one CPU runs and no call is in
progress. On these `Mutex` (the word of the lock counts the printers) and
`Exact` (the nesting counter counts the handlers past their increment and not
yet past their decrement, with one CPU) are inductive. Theorems: `TypeCorrect`,
`OneCallPrints`, `OneCpuNests` and `PanicIsFinal` (the action property
`HaltIsFinalSmp`, from the same invariant).

**`KRHeapProofs`** (any size of heap, chunk and word, any requests; with the
constants of `bootmem.c` the theorems are about the boot heap). Neither
property is inductive alone. The list stays sorted only if the block that is
put back overlaps none of its neighbours, and the blocks tile the heap only if
the list says which of them touch. `IInv` joins the two: `Ring` (each header
points to the next one, the last one to the first), `NoTouch` (free
neighbours have been merged) and `Follows` for the block that the loop of
`k_free` is placing, with `Sized`, `Apart` and `Covered` (blocks have a size,
do not overlap and fill what the break has given). Theorems: `HeapTiled`,
`FreeListInOrder`, `BlocksLargeEnough` and the action property
`FailsOnlyWhenFull`.

**`PagingProofs`** (any directory, frames and pages under `LayoutAssumption`).
`FramesOwned` is not inductive: that a frame enters no second page needs to
know which pages are mapped at each point of the boot (`Progress`), that a
table is freed with no mapping in it needs the place of the call in
progress (`Control`), and that the table of `boot.S` is never freed needs the
kernel image it maps (`Tables`). `Losses` says what `arch_main` gave up by
ignoring a result, `Cached` what the TLB may hold. Theorems: `FramesAreOwned`,
`AccessesReach`, `HeapAllOrNothing`, and the action properties
`OtherPagesUntouched` and `UsesThePool` (every step is one of `FramePool` or
leaves its variables alone).

**`InterruptsProofs`** (any lines, numbers and delays, any depth of nesting).
The chips know lines in service and the kernel a stack of handlers; the
invariant says that the lines in service, from the lowest, are those of the
stack from its top, so that the unspecific end of interrupt takes the line of
the handler that runs. It needs `Stages`, what each stage of the boot has
done to the chips. The clock of `delay` is a second part, which rests on every
tick being let through while a delay runs. Theorems: `HandlersStayInOrder`,
`NoSpuriousCalls`, `FirmwareRestored` and the action properties
`AcknowledgesOwn` and `DelaysLast`.

**`BootProofs`** (any machines, command lines, memory maps and MP tables of any
length, under `MachinesAssumption`, which gives these their types). The boot is one sequence of calls, and the work is
in what each computes. The loops of the code are recursive functions; the
prover has no rule that such a function exists, so `Recursion` builds it from
its finite beginnings and `UpTo` is the induction over its arguments. On these
rest the lemmas about the operators: a token does one of five things to the
parser (`TakeIs`), the four tokens of an assignment fill the next entry
(`TakeAssignment`), no two entries get one key (`ParsedKeysDiffer`), every
request of `pmm_init` keeps the form of the regions (`ReserveTyped`). In `IInv`,
`FromLoader` says which calls come after the test of the magic number, `Parsed`
and `Copied` what the parsers have left, and `OnConsole` that the texts printed
so far are all in the ring or all on the one device chosen. `OnConsole` needs
that keys differ: only because the second argument cannot be `bootconsole` again
is the text mode not initialised twice. Theorems: `BootInfoKeptHolds` and
`ConsoleKeepsAllHolds`.

The last section of the module is about the processors. `init_cpu_data` walks
over the bytes of an MP table, and its structure for a local interrupt entry is
a byte short (7 of 8, `smp.h:181`), so from the first such entry on it reads
out of step: the input number of one entry as the type of the next, the polarity
of that one as the flags of a processor. What it finds then is by chance what
the table says or not. `ReadInStep` is where it is what the table says:

* local interrupt entries are the last ones of the table, and at most two, as
  in a PC: where the walk goes on behind the second one depends on a size it
  looks up with the wrong byte;
* they leave the polarity to the bus: an odd byte there, behind an input number
  of 0, is taken for a processor that may be used;
* with hyperthreading no processor has identifier 255: the one of its second
  thread is one more, in a byte.

`CpusFound` says that no step after `smp_init` touches `cpu_data`; it is
inductive as it stands. The rest is about one call: where each entry lies in the
bytes (`FlattenIs`, `TableIs`), that an entry which is no local interrupt entry
leaves the walk in step (`StaysInStep`: at the first byte of the next entry, with
the processors listed so far), that the two entries at the end add none
(`WalkIs`), and that `smp_init` walks over a table the firmware left
(`SmpFrom`). Theorems, for tables of any length and any areas searched:
`CpusAsListedHolds` has the processors of a machine that is `ReadInStep`, in
order, each with its second thread and no other; `CpusFitHolds` has the whole of
`CpusFit` if besides the first usable processor of a table is the bootstrap
processor (`BootstrapFirst`). Of the 426 machines of `boot`, 71 have tables; 51 of
these are `ReadInStep`, and 47 are both. In the other 20 the polarity is not left to
the bus, and `CpusAsListed` is about these only through its own condition.

**`PmmInitProofs`** (any memory maps and kernel sizes, under
`MachinesAssumption`, which says that the kernel is linked at 1 MB, as
`KERNEL_PHYSICAL_BASE` does, and is not empty, and that entries not above 4 GiB end
before their last page, where 32 bits suffice for `pm.c:133-134`). `MemoryFit` speaks of the end of
`pmm_init`; what holds on the way is the invariant `MInv`: the memory map stays
as it was copied, and at the n-th call of `reserve_region` the bits that are set are those
of the n - 1 requests before it, no more and no fewer, in the region each was
found to be in, and are counted there (`Marked`). The lemmas below it are about
the operators: what `ToReserve` asks for (`WantedIs`), what one request does to
the bits and the counter of its region (`DoneNext`), and where the requests and
the bitmaps lie (`BitsInside`, `BitmapsFit`).

`MemoryInvariant` is that invariant. `FramesAndHeapFit` has `FramesAreMemory` and
`HeapBehindBitmaps` of every machine. `MemoryFitHolds` has the whole of
`MemoryFit` of every machine that is `Orderly`, which is what the code
silently relies on:

* the regions of the pool come in order and do not overlap: two regions may have
  a bit for one frame, and a request sets it in the first that ends behind its
  address;
* only the first one begins below the kernel: a BIOS area is one request, met in
  one region, and `LowMemory` says of the first that it holds them all;
* entries that may be taken back start at a page and have at least one: a
  request sets the bit of the page of its first byte, and one bit at least, also
  where the bitmap has none for it;
* the kernel's own region has room behind it for the bitmaps, and for a page
  more: `addr_to_bitmap` (`pm.c:57`) does not find addresses inside the last page
  of a region, and a bitmap there is reserved in the next region or the boot
  panics.

`MemoryFit` does not say that nothing in use is free, and in an `Orderly` machine
something may be: `MemoryInUseIsReserved` leaves out what the rounding of the sizes
(`pm.c:80`) leaves out, the frame the kernel ends in and the last ones of a bitmap.
`WholePagesReserved` is the case in which it leaves out nothing: a kernel that ends
at a page and bitmaps that fit in one.

Of the 60 machines of `boot` that vary the memory map, 36 are `Orderly`; in the
others the kernel is in no entry of the map or fills its own, and `RoomByTheKernel`
inside `PoolReady` and `BitmapsApart` is about these.

Every invariant and every action property of the passing runs is the subject of
a theorem, for some under the hypotheses named above. Only model-checked is liveness: the prover has no rules for fairness
and `ENABLED`.

## 6. What is not modelled

* Registering a handler from within an interrupt; interrupts that arrive through
  the firmware's vectors before `pic_init` has run.
* The registers of the serial port and the cursor of the text mode: a device
  shows a text or does not. (The tabulator of `vga_text_mode.c:68` is one of the
  details below that line.)
* The byte behind a key or value in which `parse_cmdline` stores its
  terminator; memory after a copy that left its allocation.
* The wrap of `elapsed_milliseconds`, after 49 days that are not spent booting.
* Formatting, the encoding of descriptors, the stack trace, the string routines,
  debug printing: no property depends on more than what they do.
* Memory ordering: the exchange is a full barrier on this processor and plain
  stores are seen in order, so interleavings of steps are what can happen.
* The contents of allocated memory.

## 7. Plan

All modules planned are written, in this order: the frame allocator, the
console, the start of the processors, the heap, paging, interrupts, the boot.
What is left, by worth:

1. The text mode's cursor as an operator, against a reference of the screen.
