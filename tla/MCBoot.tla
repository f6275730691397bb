------------------------------- MODULE MCBoot -------------------------------
(* Instances of Boot for TLC: each set of machines varies one part of a    *)
(* machine that is otherwise the one below.                                *)
EXTENDS Boot

Entry(base, length, type) ==
    [base |-> base, length |-> length, type |-> type, above |-> FALSE]
Above(type) == [base |-> 0, length |-> 0, type |-> type, above |-> TRUE]

KB == 1024
MB == 1048576
Low == Entry(0, 639 * KB, 1)
Bios == Entry(960 * KB, 64 * KB, 2)

Proc(id, flags) == [kind |-> "processor", id |-> id, flags |-> flags]
Other(kind, id, flags) == [kind |-> kind, id |-> id, flags |-> flags]
NoMp == [ebda |-> <<>>, rom |-> <<>>]
Mp(entries) == [sound |-> TRUE, feature |-> 0,
                config |-> [sound |-> TRUE, entries |-> entries,
                            local_apic_address |-> 1]]

TwoCpus == [ebda |-> <<Mp(<<Proc(0, 3), Proc(1, 1)>>)>>, rom |-> <<>>]

Plain == [magic |-> TRUE, words |-> <<>>, serial |-> TRUE, missing |-> None,
          map |-> <<Low, Bios, Entry(MB, 31 * MB, 1)>>, firmware |-> NoMp,
          hyperthreading |-> FALSE,
          kernel |-> [start |-> MB, end |-> MB + 200 * KB], fails |-> None]

\* Command lines of up to three words, a key coming twice in some.
Words == {<<"bootconsole", "serial">>, <<"bootconsole", "vga">>,
          <<"bootconsole", "other">>, <<"root", "x">>, <<"quiet">>}
Consoles == {[Plain EXCEPT !.words = w, !.serial = s] :
                w \in UNION {[1 .. n -> Words] : n \in 0 .. 3}, s \in BOOLEAN}
            \union {[Plain EXCEPT !.words = NoLine, !.firmware = f] : f \in {NoMp, TwoCpus}}

Panics == {[Plain EXCEPT !.missing = f] : f \in Features}
          \union {[Plain EXCEPT !.magic = FALSE]}
          \union {[Plain EXCEPT !.fails = s] : s \in Allocates}

\* Maps: 32 MB and 256 MB, with memory to give back, with a last page cut,
\* with memory above 4 GiB in order and not, a region that does not start at
\* a page, with little low memory, one whose second region is filled by the
\* kernel, one that begins reserved, one without room, and none.
Acpi == Entry(32 * MB, 64 * KB, 3)
Maps == {<<Low, Bios, Entry(MB, 31 * MB, 1), Acpi>>,
         <<Low, Bios, Entry(MB, 255 * MB, 1), Above(1)>>,
         <<Low, Entry(MB, 31 * MB - 1 * KB, 1), Above(2), Acpi>>,
         <<Low, Bios, Entry(MB, 15 * MB, 1), Entry(16 * MB + KB, 8 * MB, 1),
           Entry(25 * MB, 64 * KB, 2)>>,
         <<Entry(0, 628 * KB, 1), Bios, Entry(MB, 31 * MB, 1)>>,
         <<Low, Entry(MB, 204 * KB, 1), Entry(16 * MB, 8 * MB, 1)>>,
         <<Bios, Low, Entry(MB, 31 * MB, 1)>>,
         <<Low>>, <<Bios>>, <<>>}

\* Tables: one core to three, one of them not usable, the local interrupt
\* entries of a PC behind them, with the polarity left to the bus or high.
Cores == {<<Proc(0, 3)>>, <<Proc(0, 3), Proc(1, 1)>>, <<Proc(0, 3), Proc(2, 1)>>,
          <<Proc(0, 3), Proc(1, 0), Proc(2, 1)>>, <<Proc(1, 1), Proc(0, 3)>>}
Locals == {<<Other("local interrupt", 0, p), Other("local interrupt", 1, p)>> :
              p \in {0, 5}}
Tables_ == {c \o <<Other("bus", 0, 0), Other("io apic", 4, 1),
                   Other("io interrupt", 0, 0)>> \o l : c \in Cores, l \in Locals}
Unsound == [sound |-> FALSE, feature |-> 0, config |-> Mp(<<>>).config]
Firmwares == {[ebda |-> <<Mp(t)>>, rom |-> <<>>] : t \in Tables_}
             \union {[ebda |-> <<Unsound>>, rom |-> <<Mp(t), Unsound>>] : t \in Tables_}

Sizes == {MB + 200 * KB, MB + 200 * KB + 64, MB + 200 * KB + 4000}

Memories ==
    {[Plain EXCEPT !.map = m, !.kernel.end = e, !.firmware = f] :
        m \in Maps, e \in Sizes,
        f \in {NoMp, TwoCpus}}

Processors_ == {[Plain EXCEPT !.firmware = f, !.hyperthreading = h] :
                   f \in Firmwares, h \in BOOLEAN}

AllMachines == Consoles \union Panics \union Memories \union Processors_
=============================================================================
