-------------------------------- MODULE Boot --------------------------------
(***************************************************************************)
(* The boot of the bootstrap processor: arch_main from the first console   *)
(* to kernel_main, up to the start of the kernel heap.  Each call of       *)
(* arch_main is a step; what it computes is in CommandLine, BootConsole,   *)
(* MpTable and PmmInit.                                                    *)
(*                                                                         *)
(* The machine, with what its firmware and the boot loader left in memory, *)
(* is chosen at the start from Machines.  Interrupts are Interrupts, the   *)
(* start of the other processors is SmpBoot, the heap is Paging.           *)
(***************************************************************************)
EXTENDS BootConsole, CommandLine, MpTable, PmmInit

CONSTANT Machines
(* Records:
     magic      the loader follows the multiboot2 protocol
     words      the command line: words, an assignment being <<key, value>>
                and another word <<word>>; NoLine if the loader left none
     serial     the serial port works
     missing    what the processor does not have, a member of Features, or None
     map        the memory map
     firmware   where MP structures are looked for
     hyperthreading
     kernel     [start, end], the physical extent of the kernel
     fails      the call during which the boot heap is used up, or None *)

None == "none"
NoLine == <<<<None>>>>
Features == {"cpuid", "sse2", "fxsr", "fpu"}

\* The calls that use b_malloc.
Allocates == {"start", "parse_cmdline", "boot_console_init", "parse_memory_map",
              "smp_init", "gdt_init", "pmm_init"}

MapEntry == [base : Nat, length : Nat, type : Nat, above : BOOLEAN]

\* Where the kernel is linked to be loaded.
KERNEL_PHYSICAL_BASE == 1048576

\* What is said in a word is none of the tokens that stand for something else.
\* An entry that is not above 4 GiB ends below its last page, so that no
\* address is truncated: pm.c:133-134 does so with an entry that reaches it.
ASSUME MachinesAssumption ==
    \A m \in Machines :
        /\ m.magic \in BOOLEAN /\ m.serial \in BOOLEAN
        /\ m.words \in Seq(Seq(STRING))
        /\ \A n \in DOMAIN m.words :
              /\ Len(m.words[n]) \in {1, 2}
              /\ \A i \in DOMAIN m.words[n] : m.words[n][i] \notin {"=", Space, NUL, "NULL"}
        /\ m.map \in Seq(MapEntry)
        /\ \A n \in DOMAIN m.map : \/ m.map[n].above
              \/ (m.map[n].base + m.map[n].length) \div PAGE_SIZE < 1048575
        /\ m.kernel \in [start : Nat, end : Nat]
        /\ m.kernel.start = KERNEL_PHYSICAL_BASE /\ m.kernel.start < m.kernel.end
        /\ m.firmware \in [ebda : Seq(MpStructure), rom : Seq(MpStructure)]
        /\ m.hyperthreading \in BOOLEAN
        /\ m.fails \in Allocates \union {None}

VARIABLES
    machine,
    stage,      \* the call arch_main is about to make
    kargs,      \* boot_info: arguments and memory map
    memory,
    con,        \* the boot console
    at,         \* the index of the loop that runs, from 1
    cpus,       \* what smp_init leaves
    regions     \* what pmm_init leaves

info == <<kargs, memory>>
vars == <<machine, stage, info, con, at, cpus, regions>>

Ended == {"running", "panic", "corrupt", "stuck"}

Init ==
    /\ machine \in Machines
    /\ stage = "start"
    /\ kargs = <<>> /\ memory = <<>>
    /\ con = bootconsole_mem_init
    /\ at = 0
    /\ cpus = OneCpu
    /\ regions = <<>>

\* The calls in their order, as long as the boot heap lasts; a panic is
\* printed and is the end.
Goto(from, to) == stage = from /\ machine.fails # from /\ stage' = to
Prints == con' = printk(con, machine.serial)
Panic(from) ==
    /\ stage = from /\ stage' = "panic"
    /\ Prints
    /\ UNCHANGED <<machine, info, at, cpus, regions>>

-----------------------------------------------------------------------------
(* The steps *)

NoMemory == Panic(machine.fails)

BootInfo ==
    /\ Goto("start", "parse_cmdline")
    /\ UNCHANGED <<machine, info, con, at, cpus, regions>>

\* The line the boot loader left: the words separated by a space.
Word(w) == IF Len(w) = 2 THEN <<w[1], "=", w[2]>> ELSE w
Line(words) ==
    LET upto[n \in 0 .. Len(words)] ==
            IF n = 0 THEN <<>>
            ELSE upto[n - 1] \o Word(words[n]) \o IF n < Len(words) THEN <<Space>> ELSE <<>>
    IN  upto[Len(words)] \o <<NUL>>

\* The tags are walked before anything is known about who left them.  With
\* another loader they are whatever is there; the model takes the words of
\* the machine for it.
ParseCmdline ==
    LET p == IF machine.words = NoLine THEN Begin(0)
             ELSE parse_cmdline(Line(machine.words))
    IN  IF p.twice THEN Panic("parse_cmdline")
        ELSE /\ Goto("parse_cmdline", "boot_console_init")
             /\ kargs' = p.kargs
             /\ at' = 1
             /\ UNCHANGED <<machine, memory, con, cpus, regions>>

\* An iteration of the loop; a line without arguments has one as well.
BootConsoleInit ==
    LET karg == IF kargs = <<>> THEN NoArg ELSE kargs[at]
        tried == TryArg(con, karg, machine.serial)
        to == CASE tried.result = "failed" -> "console failed"
                [] tried.result = "next" /\ at < Len(kargs) -> "boot_console_init"
                [] OTHER -> "check_cpu"
    IN  /\ Goto("boot_console_init", to)
        /\ con' = tried.con
        /\ at' = at + 1
        /\ UNCHANGED <<machine, info, cpus, regions>>

ConsoleFailed == Panic("console failed")

\* check_cpuid to check_fpu, and init_fpu.
CheckCpu ==
    IF machine.missing # None THEN Panic("check_cpu")
    ELSE /\ Goto("check_cpu", "magic")
         /\ UNCHANGED <<machine, info, con, at, cpus, regions>>

CheckMagic ==
    IF ~machine.magic THEN Panic("magic")
    ELSE /\ Goto("magic", "parse_memory_map")
         /\ UNCHANGED <<machine, info, con, at, cpus, regions>>

\* What happens after a copy outside the allocation is not modelled.
ParseMemoryMap ==
    /\ Goto("parse_memory_map",
            IF CopyOverflows(machine.map) THEN "corrupt" ELSE "smp_init")
    /\ memory' = parse_memory_map(machine.map)
    /\ UNCHANGED <<machine, kargs, con, at, cpus, regions>>

SmpInit ==
    /\ Goto("smp_init", "gdt_init")
    /\ cpus' = smp_init(machine.firmware, machine.hyperthreading)
    /\ UNCHANGED <<machine, info, con, at, regions>>

\* gdt_init(0), idt_init and pic_init.  From here an exception is reported,
\* and the report ends in a panic.
Tables ==
    /\ Goto("gdt_init", "pmm_init")
    /\ UNCHANGED <<machine, info, con, at, cpus, regions>>

\* pmm_init: the list of the regions, the place of their bitmaps, and the
\* memory that is in use, one call of reserve_region a step.
PmmRegions ==
    IF memory = <<>> \/ ListHasNoHead(memory) THEN Panic("pmm_init")
    ELSE /\ Goto("pmm_init", "bitmaps")
         /\ regions' = Regions(memory)
         /\ UNCHANGED <<machine, info, con, at, cpus>>

PmmBitmaps ==
    \E start \in {StartAvailableMemory(memory, machine.kernel, AllBitmapsSize(regions))} :
        IF ~HasRoom(start, regions) THEN Panic("bitmaps")
        ELSE /\ Goto("bitmaps", "reserve")
             /\ regions' = Placed(regions, start)
             /\ at' = 1
             /\ UNCHANGED <<machine, info, con, cpus>>

PmmReserve ==
    /\ stage = "reserve"
    /\ \E requests \in {ToReserve(memory, machine.kernel, cpus.smp, regions)} :
          LET q == requests[at]
              last == at = Len(requests)
          IN  IF addr_to_bitmap(regions, q.start) = 0 THEN Panic("reserve")
              ELSE /\ Goto("reserve", IF last THEN "kernel_main" ELSE "reserve")
                   /\ regions' = reserve_region(regions, q.start, q.size)
                   /\ at' = at + 1
                   /\ IF last THEN Prints ELSE UNCHANGED con
                   /\ UNCHANGED <<machine, info, cpus>>

\* Without a command line the string printed is at NULL: what precedes it is
\* printed, and reading it is a page fault.
KernelMain ==
    /\ Goto("kernel_main", IF machine.words = NoLine THEN "page_fault" ELSE "running")
    /\ Prints
    /\ UNCHANGED <<machine, info, at, cpus, regions>>

\* do_page_fault panics.  printk still holds console_lock: with several
\* processors the panic waits for it, and for ever.  With one the lock is the
\* interrupt flag.
PageFault ==
    IF cpus.smp THEN /\ Goto("page_fault", "stuck")
                     /\ UNCHANGED <<machine, info, con, at, cpus, regions>>
    ELSE Panic("page_fault")

Next ==
    \/ NoMemory \/ BootInfo \/ ParseCmdline \/ BootConsoleInit \/ ConsoleFailed
    \/ CheckCpu \/ CheckMagic \/ ParseMemoryMap \/ SmpInit \/ Tables
    \/ PmmRegions \/ PmmBitmaps \/ PmmReserve \/ KernelMain \/ PageFault

\* Nothing else runs on the processor, and no call of the boot waits.
Spec == Init /\ [][Next]_vars /\ WF_vars(Next)

-----------------------------------------------------------------------------
(* Properties *)

Stages == Allocates \union Ended
          \union {"console failed", "check_cpu", "magic", "bitmaps", "reserve",
                  "kernel_main", "page_fault"}

\* Type invariant.
TypeOK ==
    /\ machine \in Machines /\ stage \in Stages
    /\ \A i \in DOMAIN kargs : DOMAIN kargs[i] = {"key", "value"}
    /\ \A i \in DOMAIN memory : InPool(memory[i]) \/ memory[i].type = "reserved"
    /\ con.device \in Devices /\ con.index \in 0 .. BUF_SIZE - 1
    /\ cpus.smp \in BOOLEAN
    /\ \A i \in DOMAIN regions : regions[i].bits \subseteq Int

\* Every assignment before the first plain word is found in the table in its
\* place, with its key and its value.
LeadingAssignmentsTaken ==
    stage = "boot_console_init" /\ machine.words # NoLine =>
        \A n \in DOMAIN machine.words :
            (\A i \in 1 .. n : Len(machine.words[i]) = 2) =>
                kargs[n] = [key |-> <<machine.words[n][1]>>,
                            value |-> <<machine.words[n][2]>>]

\* Where a text has been shown.
Seen == ToSet(con.shown.serial) \union ToSet(con.shown.vga)
Chosen == stage \notin {"start", "parse_cmdline", "boot_console_init",
                        "console failed", "panic"}

\* Once a console is chosen, whatever was printed before and since has been
\* shown, on each device in the order it was printed and once.
NothingLost ==
    Chosen =>
        /\ Seen = 1 .. con.printed
        /\ \A d \in {"serial", "vga"} : \A i \in 1 .. Len(con.shown[d]) - 1 :
               con.shown[d][i] < con.shown[d][i + 1]

\* Comment at arch_main.c:491-492: the console comes first to have output in
\* case of boot failure.  A panic is shown if it comes after the first look
\* for a device and a device works; before, it stays in the ring.
PanicIsShown ==
    stage = "panic" =>
        \/ con.printed \in Seen
        \/ at \in {0, 1}
        \/ con.device = "serial" /\ ~machine.serial

\* No text is lost on the way from one console to the next.
ConsoleKeepsAll == NothingLost /\ PanicIsShown

\* No memory map is used that another loader left.
MapOnlyFromLoader == memory # <<>> => machine.magic

\* Every entry below 4 GiB of a map in order is found in the kernel's, and
\* what the firmware says may be used or taken back is in the pool.
MapComplete ==
    stage = "smp_init" =>
        \A i \in DOMAIN machine.map :
            LET e == machine.map[i]
            IN  ~e.above =>
                  /\ memory[i].base = e.base /\ memory[i].length = e.length
                  /\ InPool(memory[i]) <=> e.type \in {1, 3}

\* What the boot loader says reaches the kernel as it said it.
BootInfoKept ==
    TypeOK /\ LeadingAssignmentsTaken /\ MapOnlyFromLoader /\ MapComplete

\* The tables smp_init may take, and the processors of one, as the firmware
\* lists them.
Acceptable(mp) == mp.sound /\ mp.feature = 0 /\ mp.config.sound
Structures(firmware) ==
    {mp \in ToSet(firmware.ebda \o firmware.rom) : Acceptable(mp)}
TablesOf(m) == {mp.config.entries : mp \in Structures(m.firmware)}
MayRun(e) == e.kind = "processor" /\ e.flags % 2 = 1
Listed(entries) ==
    LET upto[n \in 0 .. Len(entries)] ==
            IF n = 0 THEN <<>>
            ELSE upto[n - 1] \o IF MayRun(entries[n]) THEN <<entries[n]>> ELSE <<>>
    IN  upto[Len(entries)]

\* Every usable processor of a table is in cpu_data, in the order of the
\* table, with hyperthreading followed by its second thread, and nothing else
\* is: given that the local interrupt entries come last and leave the
\* polarity to the bus, for the walk misreads what is behind the first one.
CpusAsListed ==
    cpus.smp =>
        \E entries \in TablesOf(machine) :
            (\A i \in DOMAIN entries :
                entries[i].kind = "local interrupt" => entries[i].flags % 2 = 0) =>
            LET threads == IF machine.hyperthreading THEN 2 ELSE 1
                listed == Listed(entries)
            IN  /\ Len(cpus.cpus) = threads * Len(listed)
                /\ \A i \in DOMAIN cpus.cpus :
                      cpus.cpus[i].lapic_id =
                          listed[((i - 1) \div threads) + 1].id + ((i - 1) % threads)

\* What the start of the processors takes for granted (IdsAssumption of
\* SmpBoot): distinct identifiers below their number, the first one's being
\* that of the bootstrap processor.  It needs a table that numbers them that
\* way, one per core with hyperthreading.
NumberedInOrder(m) ==
    \A entries \in TablesOf(m) :
        LET listed == Listed(entries)
        IN  /\ \A i \in DOMAIN listed :
                  listed[i].id = (i - 1) * (IF m.hyperthreading THEN 2 ELSE 1)
            /\ \A i \in DOMAIN entries :
                  entries[i].kind = "local interrupt" => entries[i].flags % 2 = 0

IdsFitTheStart ==
    cpus.smp /\ NumberedInOrder(machine) =>
        /\ \A i \in DOMAIN cpus.cpus : cpus.cpus[i].lapic_id = i - 1
        /\ cpus.cpus[1].bsp

\* The processors found are those of the table, as SmpBoot needs them.
CpusFit == CpusAsListed /\ IdsFitTheStart

\* A table that is read as it is written: the local interrupt entries are at
\* most two, as in a PC, behind all others, and leave the polarity to the bus;
\* and the identifier of a second thread fits in its byte.
TableInStep(entries, hyperthreading) ==
    \A i \in DOMAIN entries :
        /\ entries[i].kind = "processor" /\ hyperthreading => entries[i].id < 255
        /\ entries[i].kind = "local interrupt" =>
              /\ i >= Len(entries) - 1
              /\ entries[Len(entries)].kind = "local interrupt"
              /\ entries[i].flags % 2 = 0

ReadInStep(m) ==
    \A entries \in TablesOf(m) : TableInStep(entries, m.hyperthreading)

\* The first processor a table lists is marked as the bootstrap processor.
BootstrapFirst(m) ==
    \A entries \in TablesOf(m) :
        Listed(entries) # <<>> /\ IsBsp(Listed(entries)[1].flags)

-----------------------------------------------------------------------------
(* Properties of the memory left to the frame allocator *)

Ready == stage \in {"kernel_main", "running"}

\* The region the kernel begins has room for the bitmaps behind it, or a
\* region before it has.  Otherwise the search goes on to the regions behind
\* and takes the kernel to be in those too: it finds the room in a region and
\* returns the place behind the kernel, in another one.
RoomByTheKernel ==
    \E m \in ToSet(memory) :
        /\ m.base <= machine.kernel.start
        /\ RoomIn(m, machine.kernel, AllBitmapsSize(regions)) # NoRoom

FrameStart(r, b) == r.first + b * BLOCK_SIZE

\* The memory frame b of a region holds in common with [from, to).
Holds(r, b, from, to) == FrameStart(r, b) < to /\ from < FrameStart(r, b) + BLOCK_SIZE

\* The fixed reservations end at the frame before 0x9F000, however much low
\* memory there is: with less the bits behind the bitmap are set and counted.
LowMemory == regions[1].first = 0 /\ regions[1].total_blocks >= 159

\* What FrameAllocator starts from: the bits set lie inside the bitmap, and
\* the counters say how many there are.
PoolReady ==
    Ready /\ RoomByTheKernel /\ LowMemory => \A i \in DOMAIN regions :
        /\ regions[i].bits \subseteq 0 .. regions[i].total_blocks - 1
        /\ regions[i].reserved_blocks = Cardinality(regions[i].bits)

\* The whole frames of [from, to) that a region has are reserved.
WholeFramesReserved(r, from, to) ==
    \A b \in (RoundUp(from) - r.first) \div BLOCK_SIZE
             .. (RoundDown(to) - r.first) \div BLOCK_SIZE - 1 :
        b \in 0 .. r.total_blocks - 1 => b \in r.bits

\* The frame from lies in is reserved, and those behind it, as many in all as
\* there are whole ones in the size of [from, to).
LeadingFramesReserved(r, from, to) ==
    LET first == (RoundDown(from) - r.first) \div BLOCK_SIZE
    IN  \A b \in {first} \union first .. first + (to - from) \div BLOCK_SIZE - 1 :
            b \in 0 .. r.total_blocks - 1 => b \in r.bits

\* The whole frames of the BIOS data, of the trampoline and its parameters, of
\* the kernel and of what only the firmware may give back are never handed
\* out, nor is the first frame of a bitmap, nor a further one for each whole
\* frame in its size.  What this leaves out may be handed out, as the size is
\* rounded down (pm.c:80): the frame the kernel ends in, and up to two at the
\* end of a bitmap.
MemoryInUseIsReserved ==
    Ready => \A i \in DOMAIN regions :
        LET r == regions[i]
        IN  /\ WholeFramesReserved(r, 0, IF cpus.smp THEN 12288 ELSE 4096)
            /\ WholeFramesReserved(r, 524288, 651264)
            /\ WholeFramesReserved(r, machine.kernel.start, machine.kernel.end)
            /\ \A m \in ToSet(memory) : m.type = "reclaimable" =>
                  WholeFramesReserved(r, m.base, m.base + m.length)
            /\ \A j \in DOMAIN regions :
                  LeadingFramesReserved(r, regions[j].bitmap,
                                        regions[j].bitmap + regions[j].bitmap_size)

\* Every frame that holds a byte of the kernel or of a bitmap is reserved.
NothingInUseIsFree ==
    \A i \in DOMAIN regions : \A j \in DOMAIN regions :
        \A b \in (machine.kernel.start - regions[i].first) \div BLOCK_SIZE
                 .. (regions[j].bitmap + regions[j].bitmap_size
                     - regions[i].first) \div BLOCK_SIZE :
            /\ b \in 0 .. regions[i].total_blocks - 1
            /\ \/ Holds(regions[i], b, machine.kernel.start, machine.kernel.end)
               \/ Holds(regions[i], b, regions[j].bitmap,
                        regions[j].bitmap + regions[j].bitmap_size)
            => b \in regions[i].bits

\* The rounding leaves nothing out if the kernel ends at a page and the
\* bitmaps fit in one: then no frame in use is handed out.
WholePagesReserved ==
    Ready /\ machine.kernel.end % PAGE_SIZE = 0 /\ AllBitmapsSize(regions) <= PAGE_SIZE =>
        NothingInUseIsFree

\* No two bitmaps overlap, none overlaps the kernel, and each lies in memory
\* that is available.
BitmapsApart ==
    Ready /\ RoomByTheKernel => \A i \in DOMAIN regions :
        LET from == regions[i].bitmap
            to == from + regions[i].bitmap_size
        IN  /\ to <= machine.kernel.start \/ machine.kernel.end <= from
            /\ \A j \in DOMAIN regions \ {i} :
                  \/ to <= regions[j].bitmap
                  \/ regions[j].bitmap + regions[j].bitmap_size <= from
            /\ \E m \in ToSet(memory) :
                  m.type = "available" /\ m.base <= from /\ to <= m.base + m.length

\* A frame of the pool is memory of one entry of the map, for the entries
\* that start at a page (comment at pm.c:131).
FramesAreMemory ==
    Ready => \A i \in DOMAIN regions :
        LET r == regions[i]
            m == OfType(memory, Pool)[i]
        IN  r.total_blocks = 0 \/ m.base % PAGE_SIZE # 0
            \/ FrameStart(r, r.total_blocks) <= m.base + m.length

\* The heap starts behind the bitmaps, if the kernel ends at a page: the
\* bitmaps are placed at a page, and kernel_virtual_end leaves out the gap.
HeapBehindBitmaps ==
    Ready /\ machine.kernel.end % PAGE_SIZE = 0 =>
        \A i \in DOMAIN regions :
            regions[i].bitmap >= machine.kernel.end =>
                regions[i].bitmap + regions[i].bitmap_size
                    <= HeapStart(machine.kernel, regions)

\* The frame allocator and the heap start from what they need: bits and
\* counters that agree, frames that are memory, bitmaps and a heap that lie
\* apart, and what is in use reserved, but for the ends the rounding leaves.
MemoryFit ==
    /\ PoolReady /\ MemoryInUseIsReserved /\ WholePagesReserved
    /\ FramesAreMemory /\ BitmapsApart /\ HeapBehindBitmaps

\* A map the memory manager is made for: the regions of the pool come in
\* order and do not overlap, only the first one begins below the kernel, what
\* may be taken back are whole pages, and the kernel's own region has room
\* for the bitmaps behind it and a page more: addr_to_bitmap does not find
\* the addresses inside the last page of a region.
Orderly(m) ==
    LET mem == parse_memory_map(m.map)
        used == OfType(mem, Pool)
        bitmaps == AllBitmapsSize(Regions(mem))
    IN  /\ \A i, j \in DOMAIN used : i < j =>
              /\ used[i].base + used[i].length <= used[j].base
              /\ used[j].base >= m.kernel.start
        /\ \A i \in DOMAIN used : used[i].type = "reclaimable" =>
              used[i].base % PAGE_SIZE = 0 /\ used[i].length >= PAGE_SIZE
        /\ \E i \in DOMAIN used :
              /\ used[i].type = "available" /\ used[i].base = m.kernel.start
              /\ RoundUp(m.kernel.end) + bitmaps + PAGE_SIZE
                    <= used[i].base + used[i].length

\* The boot comes to an end: in kernel_main, in a panic, or where the model
\* leaves it, with memory overwritten or waiting for its own lock.
BootEnds == <>(stage \in Ended)

\* Without a serial port the kernel boots only if the first argument asks for
\* the text mode, or the only one for the port: the fallback to the text mode
\* is tried for bootconsole=serial, and undone by a further argument.
ConsoleWorks(m) ==
    \/ m.serial
    \/ m.words # <<>> /\ m.words[1] = <<"bootconsole", "vga">>
    \/ m.words = <<<<"bootconsole", "serial">>>>

\* What the kernel asks of a machine: its loader, a console, the features,
\* different keys, memory that begins available, in order, and 256 KB of it
\* behind the kernel, within what boot.S maps.
Supported(m) ==
    /\ m.magic /\ m.missing = None /\ m.fails = None
    /\ m.words # NoLine /\ ConsoleWorks(m)
    /\ \A i, j \in DOMAIN m.words : i # j => m.words[i][1] # m.words[j][1]
    /\ ~CopyOverflows(m.map) /\ m.map # <<>> /\ Kind(m.map[1].type) = "available"
    /\ m.kernel.end + 262144 <= BOOT_MAPPED
    /\ \E e \in ToSet(m.map) :
          /\ e.type = 1 /\ ~e.above /\ e.base = m.kernel.start
          /\ m.kernel.end + 262144 <= e.base + e.length

\* A supported machine boots.
SupportedBoots == Supported(machine) ~> stage = "running"

\* The boot comes to its end, in a supported machine to the right one.
Boots == BootEnds /\ SupportedBoots

\* Comment at pm.c:101-102: "Finally it reserves the memory used by the kernel
\* image and the memory used by each of the bitmap", the last frames too.
AllReserved == Ready => NothingInUseIsFree
=============================================================================
