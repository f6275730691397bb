------------------------------ MODULE MpTable ------------------------------
(***************************************************************************)
(* smp_init of smp.c as operators: the search for the MP floating pointer  *)
(* structure and the walks of init_cpu_data over the entries of the        *)
(* configuration table.                                                    *)
(*                                                                         *)
(* The walks advance by the sizes of the structures of smp.h, so the table *)
(* is a sequence of bytes, of which only the fields that are looked at     *)
(* have a value.                                                           *)
(***************************************************************************)
EXTENDS Integers, Sequences, SequencesExt

\* What the firmware leaves.  The other fields of an entry are not looked at.
TableEntry ==
    [kind : {"processor", "bus", "io apic", "io interrupt", "local interrupt"},
     id : 0 .. 255, flags : 0 .. 255]
ConfigTable ==
    [sound : BOOLEAN, local_apic_address : Nat, entries : Seq(TableEntry)]
MpStructure == [sound : BOOLEAN, feature : 0 .. 255, config : ConfigTable]

\* The entries as the specification of Intel lays them out, in 20 bytes and
\* in 8.  Fields: the kind, the identifier, the flags, and for a local
\* interrupt entry the input it is about.
EntryBytes(e) ==
    CASE e.kind = "processor" ->
            <<0, e.id, 0, e.flags>> \o [i \in 1 .. 16 |-> 0]
      [] e.kind = "bus" -> <<1, e.id, 0, 0, 0, 0, 0, 0>>
      [] e.kind = "io apic" -> <<2, e.id, 0, e.flags, 0, 0, 0, 0>>
      [] e.kind = "io interrupt" -> <<3, 0, e.flags, 0, 0, 0, 0, 0>>
      [] e.kind = "local interrupt" -> <<4, 3, e.flags, 0, 0, 0, 255, e.id>>

TableBytes(entries) == FlattenSeq([i \in DOMAIN entries |-> EntryBytes(entries[i])])

\* What follows the table in memory.
ByteAt(bytes, i) == IF i \in DOMAIN bytes THEN bytes[i] ELSE 0

Usable(flags) == flags % 2 = 1
IsBsp(flags) == (flags \div 2) % 2 = 1

\* sizeof of the structures.  The flags of a local interrupt entry have one
\* byte of their two, so an entry behind it is read one byte early.
EntrySize(type) ==
    CASE type = 0 -> 20
      [] type \in {1, 2, 3} -> 8
      [] type = 4 -> 7
      [] OTHER -> 0

\* What an entry of a usable processor adds to cpu_data.
Processors(id, flags, hyperthreading) ==
    <<[lapic_id |-> id, bsp |-> IsBsp(flags)]>>
    \o (IF hyperthreading
        THEN <<[lapic_id |-> (id + 1) % 256, bsp |-> FALSE]>> ELSE <<>>)

\* A mistake to test against: processors that may not be used are taken.
StepTakesAll(bytes, hyperthreading, w) ==
    LET type == ByteAt(bytes, w.at)
        id == ByteAt(bytes, w.at + 1)
        flags == ByteAt(bytes, w.at + 3)
        found == type = 0
    IN  [at |-> w.at + EntrySize(type),
         cores |-> IF found THEN w.cores + 1 ELSE w.cores,
         cpus |-> IF found THEN w.cpus \o Processors(id, flags, hyperthreading)
                  ELSE w.cpus,
         io_apic_address |-> w.io_apic_address]

\* One entry of the two walks, which look at the same ones: the first counts
\* the cores, the second fills the table allocated for them.
Step(bytes, hyperthreading, w) ==
    LET type == ByteAt(bytes, w.at)
        id == ByteAt(bytes, w.at + 1)
        flags == ByteAt(bytes, w.at + 3)
        found == type = 0 /\ Usable(flags)
    IN  [at |-> w.at + EntrySize(type),
         cores |-> IF found THEN w.cores + 1 ELSE w.cores,
         cpus |-> IF found THEN w.cpus \o Processors(id, flags, hyperthreading)
                  ELSE w.cpus,
         io_apic_address |-> IF type = 2 /\ Usable(flags) THEN id
                             ELSE w.io_apic_address]

\* The walks after n entries, kept as in parsed of CommandLine.
Walked(entries, hyperthreading) ==
    LET bytes == TableBytes(entries)
        after[n \in 0 .. Len(entries)] ==
            IF n = 0 THEN [at |-> 1, cores |-> 0, cpus |-> <<>>, io_apic_address |-> 0]
            ELSE CHOOSE q \in {Step(bytes, hyperthreading, w) : w \in {after[n - 1]}} : TRUE
    IN  after[Len(entries)]

\* Not an MP system: one processor, with what the heap had as identifier.
OneCpu == [smp |-> FALSE, cpus |-> <<[lapic_id |-> 0, bsp |-> TRUE]>>,
           io_apic_address |-> 0, local_apic_address |-> 0]

\* A single core counts as no MP system, also with two threads.
init_cpu_data(config, hyperthreading) ==
    LET w == Walked(config.entries, hyperthreading)
    IN  IF w.cores = 1 THEN OneCpu
        ELSE [smp |-> TRUE, cpus |-> w.cpus, io_apic_address |-> w.io_apic_address,
              local_apic_address |-> config.local_apic_address]

\* The last structure in an area whose bytes add up to 0, if any.
Search(area) == SelectLastInSeq(area, LAMBDA mp : mp.sound)

\* The extended area of the BIOS first, then its ROM.  The base address of
\* the area is tested after its translation, so it is never 0.
smp_init(firmware, hyperthreading) ==
    LET area == IF Search(firmware.ebda) # 0 THEN firmware.ebda ELSE firmware.rom
        mp == area[Search(area)]
    IN  IF Search(area) # 0 /\ mp.feature = 0 /\ mp.config.sound
        THEN init_cpu_data(mp.config, hyperthreading)
        ELSE OneCpu
=============================================================================
