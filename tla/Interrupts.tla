----------------------------- MODULE Interrupts -----------------------------
(***************************************************************************)
(* External interrupts of the bootstrap processor: the two 8259 chips and  *)
(* their driver (pic.c, pic.h), the gates and stubs of the numbers above   *)
(* 31, interrupt_common_handler and the handler table (interrupt_high.c),  *)
(* the timer (pit.c, timer_callback, delay) and the order in which         *)
(* arch_main uses them.                                                    *)
(*                                                                         *)
(* The chips are the sets imr, irr, isr of lines 0..15; line 2 of the      *)
(* master is the slave.  contexts are the interrupts being handled, the    *)
(* running one last.  After the boot any caller of interrupt.h and pic.h   *)
(* may come.  Code takes no time: time passes, in fractions of a tick,     *)
(* while the processor halts in delay or works between two delays.         *)
(***************************************************************************)
EXTENDS Integers, Sequences, FiniteSetsExt

CONSTANTS Lines,        \* the lines with a device, the timer on line 0
          Numbers,      \* the interrupt numbers callers register
          Delays,       \* the delays of arch_main, in milliseconds
          Fractions,    \* how finely a tick is divided
          MaxContexts,  \* bound: interrupts handled at once
          MaxSpurious   \* bound: spurious interrupts

ASSUME LinesAssumption == Lines \subseteq (0 .. 15) \ {2} /\ 0 \in Lines
ASSUME NumbersAssumption == Numbers \subseteq 0 .. 255 /\ 32 \in Numbers
ASSUME DelaysAssumption == Delays \in Seq(Nat)
ASSUME BoundAssumption ==
    {Fractions, MaxContexts, MaxSpurious} \subseteq Nat \ {0}

VARIABLES
    smp,        \* set by smp_init, before the model starts
    phase,      \* where the boot is
    intr,       \* the interrupt flag
    imr,        \* masked lines of both chips
    irr,        \* requests
    isr,        \* in service
    offsets,    \* the first vector of each chip
    found,      \* ghost: the masks of the firmware
    saved,      \* {master,slave}_real_mode_interrupt_mask
    interrupt_handler_table,
    refused,    \* ghost: the number of a registration refused just now
    cascaded,   \* ghost: a line of the slave has been in service
    contexts,
    elapsed_milliseconds,
    divisor,    \* of the timer; 0 stands for 65536
    todo,       \* the delays still to come
    wait,       \* the delay in progress; due is a ghost: how long after its
                \* beginning the next tick comes, in fractions
    took,       \* ghost: how long it has lasted, in fractions
    age,        \* fractions since the last tick
    spurious    \* spurious interrupts so far

driver == <<found, saved>>
service == <<isr, cascaded>>
chips == <<imr, irr, service, offsets, driver>>
table == <<interrupt_handler_table, refused>>
clock == <<elapsed_milliseconds, divisor>>
main == <<todo, wait, took>>
vars == <<smp, phase, intr, chips, table, contexts, clock, main, age, spurious>>

Master == 0 .. 7
Slave == 8 .. 15
Firmware == [master |-> 8, slave |-> 112]
NULL == "NULL"
None == -1      \* no number, or no line: a spurious interrupt

NoDelay == [at |-> "no", ms |-> 0, end |-> 0, due |-> 0]

\* arch_init is cleared at the end of arch_main.
arch_init == phase # "running"

Init ==
    /\ smp \in BOOLEAN
    /\ phase = "firmware"
    /\ intr = TRUE          \* unlock turned them on: smp is set later
    /\ imr = Slave
    /\ irr = {} /\ isr = {} /\ cascaded = FALSE
    /\ offsets = Firmware
    /\ found = imr /\ saved = {}
    /\ interrupt_handler_table = [n \in Numbers |-> NULL]
    /\ refused = None
    /\ contexts = <<>>
    /\ elapsed_milliseconds = 0 /\ divisor = 0
    /\ todo = IF smp THEN Delays ELSE <<>>
    /\ wait = NoDelay
    /\ took = 0 /\ age = Fractions
    /\ spurious = 0

-----------------------------------------------------------------------------
(* The chips *)

OnMaster(l) == IF l \in Master THEN l ELSE 2

\* Fully nested mode: a request waits for equal and higher lines in service.
Deliverable(l) ==
    /\ l \in irr \ imr
    /\ \A k \in isr \intersect Master : OnMaster(l) < k
    /\ l \in Slave => 2 \notin imr /\ \A k \in isr \intersect Slave : l < k

Before(k, l) ==
    \/ OnMaster(k) < OnMaster(l)
    \/ OnMaster(k) = OnMaster(l) /\ k < l

Vector(l) == IF l \in Master THEN offsets.master + l ELSE offsets.slave + l - 8

\* The lines of a chip in service after a non-specific end of interrupt.
AfterEoi(chip, lines) ==
    IF lines \intersect chip = {} THEN lines
    ELSE lines \ {Min(lines \intersect chip)}

\* ICW1 to ICW4 to both chips, then OCW1.  ICW1 clears requests and service.
Programmed(first, masks) ==
    /\ offsets' = first
    /\ irr' = {} /\ isr' = {}
    /\ UNCHANGED cascaded
    /\ imr' = masks

\* pic_read_register: the first read selects the ISR and nothing else is
\* ever selected, so the cached OCW3 is always right.
ReadISR(chip) == isr \intersect chip

\* ISR_IRQ7_NOT_IN_SERVICE and ISR_IRQ15_NOT_IN_SERVICE are 0.
NotInServiceMask == {}

-----------------------------------------------------------------------------
(* Mistakes the properties are tested against; none is part of Next. *)

\* The spurious numbers are left open.
RefusesExceptionsOnly(n) == n <= 31

\* Every gate is a trap gate.
MasksNothing(n) == FALSE

\* The chips are masked before their masks are saved.
PicInitMasksFirst ==
    /\ phase = "firmware"
    /\ Programmed([master |-> 32, slave |-> 40], 0 .. 15)
    /\ saved' = 0 .. 15
    /\ phase' = "pic"
    /\ UNCHANGED <<smp, intr, found, table, contexts, clock, main, age, spurious>>

\* The test for the master begins one too high.
AckFrom33(number) ==
    IF number >= 40 THEN AfterEoi(Slave, isr)
    ELSE IF number > 32 THEN AfterEoi(Master, isr)
    ELSE isr

\* The loop of delay counts one millisecond less.
StillWaitsLess(w) == elapsed_milliseconds + 1 < w.end

\* A driver's handler acknowledges its interrupt itself.
DriverAcknowledges ==
    /\ contexts # <<>> /\ contexts[Len(contexts)].at = "driver"
    /\ contexts' = [contexts EXCEPT ![Len(contexts)].at = "eoi"]
    /\ isr' = AfterEoi(0 .. 7, isr)
    /\ UNCHANGED <<smp, phase, intr, imr, irr, cascaded, offsets, driver, table,
                   clock, main, age, spurious>>

-----------------------------------------------------------------------------
(* Gates and stubs *)

\* idt_init: trap gates for the exceptions, interrupt gates for the rest.
MasksInterrupts(n) == n > 31

\* A stub pushes its own number.  "line" is a ghost: who raised it.
Stub(n, line) == [number |-> n, line |-> line, at |-> "enter"]

\* Who registers what: these numbers are refused.
Refuses(n) ==
    \/ n <= 31
    \/ ~smp /\ n \in {39, 47}
    \/ smp /\ ~arch_init /\ (n >= 32 \/ n <= 47 \/ n = 255)

-----------------------------------------------------------------------------
(* The boot *)

PicInit ==
    /\ phase = "firmware"
    /\ Programmed([master |-> 32, slave |-> 40], 0 .. 15)
    /\ saved' = imr
    /\ phase' = "pic"
    /\ UNCHANGED <<smp, intr, found, table, contexts, clock, main, age, spurious>>

\* lapic_init, register_interrupt_handler(32, timer_callback),
\* pic_enable_irq_line(0) and sti; only with several processors.
StartTimer ==
    /\ phase = "pic" /\ smp
    /\ ~Refuses(32)
    /\ interrupt_handler_table' = [interrupt_handler_table EXCEPT ![32] = "timer"]
    /\ refused' = None
    /\ imr' = imr \ {0}
    /\ intr' = TRUE
    /\ phase' = "starting"
    /\ UNCHANGED <<smp, irr, service, offsets, driver, contexts, clock, main, age,
                   spurious>>

ArchInitDone ==
    /\ \/ phase = "pic" /\ ~smp
       \/ phase = "starting" /\ contexts = <<>> /\ wait.at = "no" /\ todo = <<>>
    /\ phase' = "running"
    \* From here on nobody reads the time; a tick may always come.
    /\ elapsed_milliseconds' = 0 /\ took' = 0
    /\ age' = Fractions
    /\ UNCHANGED <<smp, intr, chips, table, contexts, divisor, todo, wait, spurious>>

-----------------------------------------------------------------------------
(* delay *)

MainRuns(at) == contexts = <<>> /\ wait.at = at

Delay ==
    /\ phase = "starting" /\ MainRuns("no")
    /\ todo # <<>>
    /\ wait' = [at |-> "check", ms |-> Head(todo),
                end |-> elapsed_milliseconds + Head(todo),
                due |-> IF 0 \in irr THEN 0 ELSE Fractions - age]
    /\ todo' = Tail(todo)
    /\ took' = 0
    /\ UNCHANGED <<smp, phase, intr, chips, table, contexts, clock, age, spurious>>

\* The condition of the loop, and the hlt of arch_halt, which an interrupt
\* may precede.
StillWaits(w) == elapsed_milliseconds < w.end

DelayStep ==
    /\ \/ MainRuns("check") /\ StillWaits(wait)
          /\ wait' = [wait EXCEPT !.at = "hlt"] /\ took' = took
       \/ MainRuns("check") /\ ~StillWaits(wait)
          /\ wait' = NoDelay /\ took' = 0
       \/ MainRuns("hlt")
          /\ wait' = [wait EXCEPT !.at = "halted"] /\ took' = took
    /\ UNCHANGED <<smp, phase, intr, chips, table, contexts, clock, todo, age,
                   spurious>>

-----------------------------------------------------------------------------
(* Time and devices *)

\* pit_interrupt_rate_generator: the divisor in two bytes.
Divisor(frequency) == (1193180 \div frequency) % 65536

\* The processor waits, or works between two delays, for a millisecond at
\* most.  A period ends at age = Fractions if the divisor makes it a
\* millisecond, later before the first tick has set it.
Elapse ==
    /\ phase = "starting"
    /\ \/ MainRuns("halted")
       \/ MainRuns("no") /\ todo # <<>> /\ took < Fractions
    /\ \A l \in irr : ~Deliverable(l)
    /\ age < Fractions \/ (divisor = 0 /\ took < Fractions)
    /\ age' = IF age < Fractions THEN age + 1 ELSE age
    \* Longer than the delay makes no difference.
    /\ took' = IF wait.at = "no" THEN took + 1
               ELSE Min({took + 1, wait.ms * Fractions})
    /\ UNCHANGED <<smp, phase, intr, chips, table, contexts, clock, todo, wait,
                   spurious>>

\* A divisor below a millisecond's lets the timer tick at once.
Tick ==
    /\ phase \in {"starting", "running"}
    /\ age = Fractions \/ divisor \in 1 .. 1192
    /\ irr' = irr \union {0}
    /\ age' = IF phase = "starting" THEN 0 ELSE age
    /\ UNCHANGED <<smp, phase, intr, imr, service, offsets, driver, table, contexts,
                   clock, main, spurious>>

Raise(l) ==
    /\ phase \in {"starting", "running"}
    /\ irr' = irr \union {l}
    /\ UNCHANGED <<smp, phase, intr, imr, service, offsets, driver, table, contexts,
                   clock, main, age, spurious>>

-----------------------------------------------------------------------------
(* Delivery *)

\* The processor enters the stub of n through its gate; hlt ends.
Enter(n, line) ==
    /\ phase \in {"starting", "running"}
    /\ intr
    /\ Len(contexts) < MaxContexts
    /\ contexts' = Append(contexts, Stub(n, line))
    /\ intr' = ~MasksInterrupts(n)
    /\ wait' = [wait EXCEPT !.at = IF @ = "halted" THEN "check" ELSE @]
    /\ refused' = None
    /\ UNCHANGED <<smp, phase, imr, offsets, driver, interrupt_handler_table, clock,
                   todo, took, age>>

Accept(l) ==
    /\ Deliverable(l)
    /\ \A k \in irr : Deliverable(k) => ~Before(k, l)
    /\ irr' = irr \ {l}
    /\ isr' = isr \union {l, OnMaster(l)}
    /\ cascaded' = (cascaded \/ l \in Slave)
    /\ Enter(Vector(l), l)
    /\ UNCHANGED spurious

\* A request that is gone when the processor asks for it: the chip answers
\* with its line 7 and latches nothing; the master has latched the slave.
\* The local APIC answers with 255.
Spurious(n) ==
    /\ spurious < MaxSpurious
    /\ n = 47 => 2 \notin imr /\ \A k \in isr \intersect Master : 2 < k
    /\ n = 255 => smp
    /\ spurious' = spurious + 1
    /\ isr' = IF n = 47 THEN isr \union {2} ELSE isr
    /\ Enter(n, None)
    /\ UNCHANGED <<irr, cascaded>>

-----------------------------------------------------------------------------
(* interrupt_common_handler *)

Current == contexts[Len(contexts)]
At(place) == contexts # <<>> /\ Current.at = place
Moved(place) == [contexts EXCEPT ![Len(contexts)].at = place]

\* The tests for spurious interrupts, lost by the masks of pic.h.
FoundSpurious ==
    ReadISR(IF Current.number = 39 THEN Master ELSE Slave)
        \intersect NotInServiceMask # {}

Begin ==
    /\ At("enter")
    /\ contexts' = Moved(IF Current.number = 39 /\ FoundSpurious
                         THEN "iret" ELSE "call")
    /\ isr' = CASE Current.number = 39 ->
                      IF FoundSpurious THEN isr ELSE AfterEoi(Master, isr)
                [] Current.number = 47 ->
                      IF FoundSpurious THEN AfterEoi(Master, isr)
                      ELSE AfterEoi(Slave, AfterEoi(Master, isr))
                [] OTHER -> isr
    /\ UNCHANGED <<smp, phase, intr, imr, irr, cascaded, offsets, driver, table,
                   clock, main, age, spurious>>

Handler == IF Current.number \in Numbers
           THEN interrupt_handler_table[Current.number] ELSE NULL

CallHandler ==
    /\ At("call")
    /\ Handler # "timer"
    /\ contexts' = Moved(IF Handler = NULL THEN "eoi" ELSE "driver")
    /\ UNCHANGED <<smp, phase, intr, chips, table, clock, main, age, spurious>>

\* timer_callback.  Writing the divisor starts the period again.
timer_callback ==
    /\ At("call")
    /\ Handler = "timer"
    /\ contexts' = Moved("eoi")
    /\ elapsed_milliseconds' =
          IF phase = "starting" THEN elapsed_milliseconds + 1
          ELSE elapsed_milliseconds
    /\ divisor' = Divisor(1000)
    /\ age' = IF phase = "starting" THEN 0 ELSE age
    /\ UNCHANGED <<smp, phase, intr, chips, table, main, spurious>>

\* A handler that prints: with one processor the unlock turns interrupts on.
DriverPrints ==
    /\ At("driver")
    /\ ~smp /\ ~intr
    /\ intr' = TRUE
    /\ UNCHANGED <<smp, phase, chips, table, contexts, clock, main, age, spurious>>

DriverReturns ==
    /\ At("driver")
    /\ contexts' = Moved("eoi")
    /\ UNCHANGED <<smp, phase, intr, chips, table, clock, main, age, spurious>>

\* From 40 on the slave only, below the master only.
Acknowledged(number) ==
    IF number >= 40 THEN AfterEoi(Slave, isr) ELSE AfterEoi(Master, isr)

SendEoi ==
    /\ At("eoi")
    /\ isr' = Acknowledged(Current.number)
    /\ contexts' = Moved("iret")
    /\ UNCHANGED <<smp, phase, intr, imr, irr, cascaded, offsets, driver, table, clock, main,
                   age, spurious>>

\* The flags of the interrupted code had interrupts on.
Iret ==
    /\ At("iret")
    /\ contexts' = SubSeq(contexts, 1, Len(contexts) - 1)
    /\ intr' = TRUE
    /\ UNCHANGED <<smp, phase, chips, table, clock, main, age, spurious>>

Handling ==
    Begin \/ CallHandler \/ timer_callback \/ DriverReturns \/ SendEoi \/ Iret

-----------------------------------------------------------------------------
(* Callers of interrupt.h and pic.h, outside interrupts *)

Caller == phase = "running" /\ contexts = <<>>

register_interrupt_handler(n) ==
    /\ Caller
    /\ \/ /\ Refuses(n)
          /\ refused' = n
          /\ UNCHANGED interrupt_handler_table
       \/ /\ ~Refuses(n)
          /\ refused' = None
          /\ interrupt_handler_table' =
                [interrupt_handler_table EXCEPT ![n] = "driver"]
    /\ UNCHANGED <<smp, phase, intr, chips, contexts, clock, main, age, spurious>>

unregister_interrupt_handler(n) ==
    /\ Caller
    /\ interrupt_handler_table' = [interrupt_handler_table EXCEPT ![n] = NULL]
    /\ refused' = None
    /\ UNCHANGED <<smp, phase, intr, chips, contexts, clock, main, age, spurious>>

Masks(masks) ==
    /\ Caller
    /\ imr' = masks
    /\ refused' = None
    /\ UNCHANGED <<smp, phase, intr, irr, service, offsets, driver,
                   interrupt_handler_table, contexts, clock, main, age, spurious>>

\* For the slave the complement of 0 is and-ed: nothing is enabled.
pic_enable_irq_line(l) == Masks(IF l < 8 THEN imr \ {l} ELSE imr)
pic_disable_irq_line(l) == Masks(imr \union {l})
pic_enable_all_irq_lines == Masks({})
pic_disable_all_irq_lines == Masks(0 .. 15)

\* The last thing the kernel does with the chips.
pic_restore_real_mode_configuration ==
    /\ Caller
    /\ Programmed(Firmware, saved)
    /\ phase' = "real_mode"
    /\ UNCHANGED <<smp, intr, driver, table, contexts, clock, main, age, spurious>>

Calls ==
    \/ \E n \in Numbers :
          register_interrupt_handler(n) \/ unregister_interrupt_handler(n)
    \/ \E l \in Lines \union {2} : pic_enable_irq_line(l) \/ pic_disable_irq_line(l)
    \/ pic_enable_all_irq_lines \/ pic_disable_all_irq_lines
    \/ pic_restore_real_mode_configuration

-----------------------------------------------------------------------------
Delivery == \E l \in Lines : Accept(l)

Next ==
    \/ PicInit \/ StartTimer \/ ArchInitDone \/ Delay \/ DelayStep
    \/ Elapse \/ Tick \/ (\E l \in Lines \ {0} : Raise(l))
    \/ Delivery \/ (\E n \in {39, 47, 255} : Spurious(n))
    \/ Handling \/ DriverPrints \/ Calls

Spec == Init /\ [][Next]_vars

\* The processor executes; it takes a request as soon as interrupts are on,
\* however short that is; time passes and the timer ticks.
FairSpec ==
    /\ Spec
    /\ WF_vars(DelayStep) /\ WF_vars(Delay) /\ WF_vars(Handling)
    /\ SF_vars(Delivery)
    /\ WF_vars(Elapse) /\ WF_vars(Tick)

-----------------------------------------------------------------------------
(* Properties *)

Places == {"enter", "call", "driver", "eoi", "iret"}

\* Type invariant.
TypeOK ==
    /\ smp \in BOOLEAN /\ intr \in BOOLEAN
    /\ phase \in {"firmware", "pic", "starting", "running", "real_mode"}
    /\ imr \subseteq 0 .. 15 /\ saved \subseteq 0 .. 15
    /\ irr \subseteq Lines /\ isr \subseteq Lines \union {2}
    /\ interrupt_handler_table \in [Numbers -> {NULL, "timer", "driver"}]
    /\ refused \in Numbers \union {None}
    /\ contexts \in Seq([number : 32 .. 255, line : Lines \union {None}, at : Places])
    /\ Len(contexts) <= MaxContexts
    /\ elapsed_milliseconds \in Nat /\ divisor \in Nat /\ divisor < 65536
    /\ wait.at \in {"no", "check", "hlt", "halted"}
    /\ age \in 0 .. Fractions /\ took \in Nat

\* Every line in service has a handler on the way that will acknowledge it:
\* no path through interrupt_common_handler leaves a line blocked.  This
\* ends with the first interrupt of the slave: 40 to 46 acknowledge the
\* slave only, line 2 stays in service, and the next acknowledgement of a
\* lower line hits line 2 instead.
InServiceIsHandled ==
    cascaded \/ \A l \in isr \ {2} : \E i \in DOMAIN contexts :
        contexts[i].line = l /\ contexts[i].at # "iret"

\* The end of interrupt is not specific, so it could hit the line of an
\* interrupted handler.  Without spurious interrupts, which are acknowledged
\* although nothing is in service, and before the slave has blocked line 2,
\* it hits the line being handled, also with nested handlers.
AcknowledgesItsOwn ==
    [][contexts # <<>> /\ contexts' # <<>> /\ spurious = 0 /\ ~cascaded =>
          isr \ isr' \subseteq {Current.line}]_vars

\* Only a handler that prints on a machine with one processor is ever
\* interrupted.
NestsOnlyWhenPrinting ==
    \A i \in 1 .. Len(contexts) - 1 :
        ~smp /\ contexts[i].at \in {"driver", "eoi", "iret"}

\* Handlers nest only where the code lets them and leave no line in service.
HandlersInOrder == TypeOK /\ InServiceIsHandled /\ NestsOnlyWhenPrinting

\* Comment at interrupt_high.c:19-23: a handler of a driver runs only for a
\* request of its device, never for a spurious interrupt.
NoSpuriousCall == At("driver") => Current.line # None

\* pic.c:25: "Save old interrupt masks to be able to return to real mode
\* configuration": what pic_init found is what the restore leaves.
RestoresFirmware ==
    phase = "real_mode" => imr = found /\ offsets = Firmware

\* delay(ms) lasts until the next tick and ms - 1 milliseconds more, whatever
\* interrupts wake the processor: it counts ticks, not time.  It can end
\* almost a millisecond earlier than "for a specified amount of
\* milliseconds" (arch_main.c:459) says, delay(1) at once.
DelayLastsFromNextTick ==
    [][wait.at = "check" /\ wait'.at = "no" =>
          took >= (wait.ms - 1) * Fractions + wait.due]_vars

\* Every delay ends: a tick between the test and the hlt is not the last.
DelayEnds == wait.at # "no" ~> wait.at = "no"

\* A timer tick is served or masked, whatever the other lines do.
TimerServed ==
    0 \in irr \ imr ~> 0 \notin irr \/ 0 \in imr \/ phase = "real_mode"

\* Time does not stop for the boot, nor for the rest of the kernel.
TimeGoesOn == DelayEnds /\ TimerServed

\* Comment at interrupt_high.c:18-23: what the comment allows is accepted.
ReservedNumber(n) ==
    \/ n <= 31
    \/ ~smp /\ n \in {39, 47}
    \/ smp /\ n \in (32 .. 47) \union {255}

RefusesOnlyReserved == refused # None => ReservedNumber(refused)
=============================================================================
