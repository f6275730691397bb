---------------------------- MODULE BootConsole ----------------------------
(***************************************************************************)
(* The boot console: bootconsole.c, the ring of bootconsole_mem.c, and the *)
(* choice of a device in boot_console_init of arch_main.c.                 *)
(*                                                                         *)
(* A text is the number of the call of printk that printed it.  A console  *)
(* is a record: the device in use, the ring, what each device has shown,   *)
(* and the number of the last text.                                        *)
(***************************************************************************)
EXTENDS Integers, Sequences

CONSTANT BUF_SIZE       \* bound: how many texts the ring holds
\* The 4096 characters of the code hold more than the two texts of a boot
\* that has not chosen a device yet.
ASSUME BufAssumption == BUF_SIZE \in Nat /\ BUF_SIZE > 2

Devices == {"mem", "serial", "vga"}

\* bootconsole_mem_init empties the ring the first time only.
bootconsole_mem_init ==
    [device |-> "mem",
     ring |-> [i \in 0 .. BUF_SIZE - 1 |-> 0],
     index |-> 0,       \* cur_index: the next place and the fill
     shown |-> [d \in {"serial", "vga"} |-> <<>>],
     printed |-> 0]

\* The serial port may be absent or broken; the other devices never fail.
bootconsole_init(device, serial) == IF device = "serial" /\ ~serial THEN -1 ELSE 0

bootconsole_mem_put(con, t) ==
    [con EXCEPT !.ring[con.index] = t, !.index = (@ + 1) % BUF_SIZE]

\* What is written to a serial port that does not work is lost.
bootconsole_put_string(con, t, serial) ==
    CASE con.device = "mem" -> bootconsole_mem_put(con, t)
      [] con.device = "serial" /\ ~serial -> con
      [] OTHER -> [con EXCEPT !.shown[con.device] = Append(@, t)]

bootconsole_mem_flush_buffer(con) == [i \in 1 .. con.index |-> con.ring[i - 1]]

printk(con, serial) ==
    bootconsole_put_string([con EXCEPT !.printed = @ + 1], con.printed + 1, serial)

-----------------------------------------------------------------------------
(* Mistakes the properties are tested against. *)

\* The device is initialized and never selected.
SwitchToKeepsRing(con, device, serial) ==
    IF bootconsole_init(device, serial) = -1 THEN con ELSE printk(con, serial)

-----------------------------------------------------------------------------
\* Announce the switch, copy the ring, select the device, and if that works
\* show it what it has missed.
SwitchTo(con, device, serial) ==
    LET said == printk(con, serial)
        buf == bootconsole_mem_flush_buffer(said)
        on == [said EXCEPT !.device = device]
    IN  IF bootconsole_init(device, serial) = -1 THEN on
        ELSE printk([on EXCEPT !.shown[device] = @ \o buf], serial)

\* An iteration of the loop over the arguments.  It ends the loop ("done"),
\* the boot ("failed"), or, only after bootconsole=serial has fallen back to
\* the text mode, goes on with the next argument.
TryArg(con, karg, serial) ==
    LET asked == IF karg.key = <<"bootconsole">> THEN karg.value ELSE <<>>
        onSerial == SwitchTo(con, "serial", serial)
    IN  CASE asked = <<"vga">> ->
               [con |-> SwitchTo(con, "vga", serial), result |-> "done"]
          [] asked # <<"vga">> /\ bootconsole_init("serial", serial) = 0 ->
               [con |-> onSerial, result |-> "done"]
          [] asked = <<"serial">> /\ bootconsole_init("serial", serial) = -1 ->
               [con |-> SwitchTo([onSerial EXCEPT !.device = "mem"], "vga", serial),
                result |-> "next"]
          [] OTHER -> [con |-> onSerial, result |-> "failed"]
=============================================================================
