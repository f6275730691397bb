------------------------------ MODULE Console ------------------------------
(***************************************************************************)
(* The console lock and everything that runs under it: printk and panic    *)
(* (kernel/printk/printk.c), the lock of kernel/spinlock.c in its two      *)
(* modes, the exception handler (exception_high.c), and the part of the    *)
(* boot that decides the mode, loads the IDT and starts the other CPUs.    *)
(*                                                                         *)
(* stack[c] holds the activations of c, the running one last.  An          *)
(* activation is one _printk call or one exception; its field "at" is the  *)
(* next line it executes.  What is printed is left out, except that the    *)
(* printing itself may raise an exception.  The report of a handler and    *)
(* the lines of its trace are one printk call.                             *)
(***************************************************************************)
EXTENDS Integers, Sequences, FiniteSets

CONSTANTS CPU,          \* the CPUs of the machine
          Bsp,          \* the bootstrap processor
          SmpFound,     \* the values smp_init may leave in smp
          FaultyPrint,  \* the values of smp with which the console drivers may
                        \* raise exceptions
          MaxStack      \* bound: no exception is raised above this depth, for
                        \* each value of smp

ASSUME BspAssumption == Bsp \in CPU
ASSUME SmpAssumption == SmpFound \subseteq BOOLEAN
ASSUME FaultyAssumption == FaultyPrint \subseteq BOOLEAN
ASSUME DepthAssumption == MaxStack \in [BOOLEAN -> Nat \ {0}]

VARIABLES
    smp,            \* selects the mode of every spinlock
    console_lock,   \* console_lock.lock
    nested_counter, \* the static of exception_common_handler
    stage,          \* how far each CPU has booted
    intr,           \* the interrupt flag of each CPU
    stack           \* the activations of each CPU

vars == <<smp, console_lock, nested_counter, stage, intr, stack>>

Number == {"page_fault", "other"}

\* An activation of _printk; its first parameter tells printk from panic.
CallOf(panic) == [panic |-> panic, at |-> "lock"]

\* An exception: its gate is a trap gate, eflags keeps IF for the iret.
ExceptionOf(number, eflags) ==
    [number |-> number, at |-> "count_read", eflags |-> eflags, count |-> 0]

Stages == {"off", "console", "detected", "ready", "reset"}

Init ==
    /\ smp = FALSE
    /\ console_lock = 0
    /\ nested_counter = 0
    /\ stage = [c \in CPU |-> IF c = Bsp THEN "console" ELSE "off"]
    /\ intr = [c \in CPU |-> FALSE]
    /\ stack = [c \in CPU |-> <<>>]

-----------------------------------------------------------------------------
(* Control *)

Running(c) == stage[c] \notin {"off", "reset"}
Idle(c) == Running(c) /\ stack[c] = <<>>
Last(s) == s[Len(s)]
At(c, line) == stack[c] # <<>> /\ Last(stack[c]).at = line
Moved(s, to) == [s EXCEPT ![Len(s)].at = to]
Popped(s) == SubSeq(s, 1, Len(s) - 1)

Goto(c, from, to) ==
    /\ Running(c) /\ At(c, from)
    /\ stack' = [stack EXCEPT ![c] = Moved(@, to)]

\* A triple fault of any CPU resets the machine; the next boot is not modelled.
Reset ==
    /\ stage' = [c \in CPU |-> "reset"]
    /\ UNCHANGED stack

\* The activation calls another one and goes on at "to" when that returns.
GotoCall(c, from, to, callee) ==
    /\ Running(c) /\ At(c, from)
    /\ stack' = [stack EXCEPT ![c] = Append(Moved(@, to), callee)]

Return(c, from) ==
    /\ Running(c) /\ At(c, from)
    /\ stack' = [stack EXCEPT ![c] = Popped(@)]

\* lock(): one CPU masks its interrupts, several spin on an exchange.
LockConsole(c) ==
    \/ /\ ~smp
       /\ intr' = [intr EXCEPT ![c] = FALSE]
       /\ UNCHANGED console_lock
    \/ /\ smp
       /\ console_lock = 0
       /\ console_lock' = 1
       /\ UNCHANGED intr

\* unlock(): with one CPU interrupts are on afterwards, whatever they were.
UnlockConsole(c) ==
    \/ /\ ~smp
       /\ intr' = [intr EXCEPT ![c] = TRUE]
       /\ UNCHANGED console_lock
    \/ /\ smp
       /\ console_lock' = 0
       /\ UNCHANGED intr

-----------------------------------------------------------------------------
(* Mistakes the properties are tested against; none is part of Next. *)

\* The lock counts its owners and waits for none.
LockByAdd(c) ==
    /\ Goto(c, "lock", "print")
    /\ console_lock' = console_lock + 1
    /\ UNCHANGED <<smp, nested_counter, stage, intr>>

\* The word is stored, not exchanged.
LockByStore(c) ==
    /\ Goto(c, "lock", "print")
    /\ console_lock' = 1
    /\ UNCHANGED <<smp, nested_counter, stage, intr>>

\* A panic turns interrupts on again in both modes.
PanicUnlockSti(c) ==
    /\ Goto(c, "panic_unlock", "hlt")
    /\ console_lock' = 0
    /\ intr' = [intr EXCEPT ![c] = TRUE]
    /\ UNCHANGED <<smp, nested_counter, stage>>

\* The handler goes back to the faulting code after its report.
EndTraceReturns(c) ==
    /\ Goto(c, "end_trace", "uncount")
    /\ UNCHANGED <<smp, console_lock, nested_counter, stage, intr>>

\* The stub pops the return address and leaves the flags as they are.
RetNotIret(c) ==
    /\ Return(c, "iret")
    /\ UNCHANGED <<smp, console_lock, nested_counter, stage, intr>>

-----------------------------------------------------------------------------
(* The boot *)

\* smp_init, between the first console and the IDT.
SmpInit ==
    /\ stage[Bsp] = "console" /\ Idle(Bsp)
    /\ smp' \in SmpFound
    /\ stage' = [stage EXCEPT ![Bsp] = "detected"]
    /\ UNCHANGED <<console_lock, nested_counter, intr, stack>>

\* The bootstrap processor fills the IDT; every CPU loads it.
IdtInit(c) ==
    /\ stage[c] = "detected" /\ Idle(c)
    /\ stage' = [stage EXCEPT ![c] = "ready"]
    /\ UNCHANGED <<smp, console_lock, nested_counter, intr, stack>>

\* Only the boot of a multiprocessor turns interrupts on by itself.
Sti ==
    /\ stage[Bsp] = "ready" /\ Idle(Bsp)
    /\ smp /\ ~intr[Bsp]
    /\ intr' = [intr EXCEPT ![Bsp] = TRUE]
    /\ UNCHANGED <<smp, console_lock, nested_counter, stage, stack>>

\* The bootstrap processor starts c, which enters smp_main.
StartAp(c) ==
    /\ stage[Bsp] = "ready" /\ Idle(Bsp)
    /\ smp /\ intr[Bsp]
    /\ stage[c] = "off"
    /\ stage' = [stage EXCEPT ![c] = "detected"]
    /\ UNCHANGED <<smp, console_lock, nested_counter, intr, stack>>

-----------------------------------------------------------------------------
(* _printk *)

CallPrintk(c) ==
    /\ Idle(c)
    /\ \E panic \in BOOLEAN :
          stack' = [stack EXCEPT ![c] = <<CallOf(panic)>>]
    /\ UNCHANGED <<smp, console_lock, nested_counter, stage, intr>>

TakeLock(c) ==
    /\ Goto(c, "lock", "print")
    /\ LockConsole(c)
    /\ UNCHANGED <<smp, nested_counter, stage>>

\* The loop over the format ends.
Printed(c) ==
    /\ At(c, "print")
    /\ Goto(c, "print", IF Last(stack[c]).panic THEN "cli" ELSE "unlock")
    /\ UNCHANGED <<smp, console_lock, nested_counter, stage, intr>>

PanicCli(c) ==
    /\ Goto(c, "cli", "panic_unlock")
    /\ intr' = [intr EXCEPT ![c] = FALSE]
    /\ UNCHANGED <<smp, console_lock, nested_counter, stage>>

PanicUnlock(c) ==
    /\ Goto(c, "panic_unlock", "hlt")
    /\ UnlockConsole(c)
    /\ UNCHANGED <<smp, nested_counter, stage>>

PanicHlt(c) ==
    /\ Goto(c, "hlt", "halted")
    /\ UNCHANGED <<smp, console_lock, nested_counter, stage, intr>>

Unlock(c) ==
    /\ Return(c, "unlock")
    /\ UnlockConsole(c)
    /\ UNCHANGED <<smp, nested_counter, stage>>

\* An interrupt.  With an IDT its handler prints nothing, but a halted CPU
\* goes on behind its hlt; without one the machine resets.
Interrupt(c) ==
    /\ Running(c) /\ intr[c]
    /\ \/ /\ stage[c] = "ready"
          /\ Goto(c, "halted", "unlock")
          /\ UNCHANGED stage
       \/ /\ stage[c] # "ready"
          /\ Reset
    /\ UNCHANGED <<smp, console_lock, nested_counter, intr>>

-----------------------------------------------------------------------------
(* exception_common_handler *)

\* The code between calls raises an exception, or the console driver does.
\* On a CPU without an IDT it is a triple fault.
Raise(c) ==
    /\ \/ Idle(c)
       \/ smp \in FaultyPrint /\ Running(c) /\ At(c, "print")
    /\ \/ /\ stage[c] = "ready"
          /\ Len(stack[c]) < MaxStack[smp]
          /\ \E n \in Number :
                stack' = [stack EXCEPT ![c] = Append(@, ExceptionOf(n, intr[c]))]
          /\ UNCHANGED stage
       \/ /\ stage[c] # "ready"
          /\ Reset
    /\ UNCHANGED <<smp, console_lock, nested_counter, intr>>

\* ++nested_counter is a load and a store.
CountRead(c) ==
    /\ Running(c) /\ At(c, "count_read")
    /\ stack' = [stack EXCEPT ![c][Len(stack[c])] =
                    [@ EXCEPT !.at = "count_write", !.count = nested_counter]]
    /\ UNCHANGED <<smp, console_lock, nested_counter, stage, intr>>

CountWrite(c) ==
    /\ At(c, "count_write")
    /\ LET count == Last(stack[c]).count + 1 IN
          /\ nested_counter' = count
          /\ Goto(c, "count_write",
                  IF count >= 3 THEN "loop_report" ELSE "switch")
    /\ UNCHANGED <<smp, console_lock, stage, intr>>

LoopReport(c) ==
    /\ GotoCall(c, "loop_report", "loop_panic", CallOf(FALSE))
    /\ UNCHANGED <<smp, console_lock, nested_counter, stage, intr>>

LoopPanic(c) ==
    /\ GotoCall(c, "loop_panic", "switch", CallOf(TRUE))
    /\ UNCHANGED <<smp, console_lock, nested_counter, stage, intr>>

\* do_page_fault panics at once; the others report first.  No code runs in
\* user mode.
Switch(c) ==
    /\ At(c, "switch")
    /\ \/ /\ Last(stack[c]).number = "page_fault"
          /\ GotoCall(c, "switch", "uncount", CallOf(TRUE))
       \/ /\ Last(stack[c]).number # "page_fault"
          /\ GotoCall(c, "switch", "end_trace", CallOf(FALSE))
    /\ UNCHANGED <<smp, console_lock, nested_counter, stage, intr>>

EndTrace(c) ==
    /\ GotoCall(c, "end_trace", "uncount", CallOf(TRUE))
    /\ UNCHANGED <<smp, console_lock, nested_counter, stage, intr>>

Uncount(c) ==
    /\ Goto(c, "uncount", "iret")
    /\ nested_counter' = nested_counter - 1
    /\ UNCHANGED <<smp, console_lock, stage, intr>>

Iret(c) ==
    /\ Return(c, "iret")
    /\ intr' = [intr EXCEPT ![c] = Last(stack[c]).eflags]
    /\ UNCHANGED <<smp, console_lock, nested_counter, stage>>

-----------------------------------------------------------------------------
Boot == SmpInit \/ Sti \/ \E c \in CPU : IdtInit(c) \/ StartAp(c)

Step(c) ==
    \/ TakeLock(c) \/ Printed(c) \/ PanicCli(c) \/ PanicUnlock(c)
    \/ PanicHlt(c) \/ Unlock(c)
    \/ CountRead(c) \/ CountWrite(c) \/ LoopReport(c) \/ LoopPanic(c)
    \/ Switch(c) \/ EndTrace(c) \/ Uncount(c) \/ Iret(c)

Next ==
    \/ Boot
    \/ \E c \in CPU : CallPrintk(c) \/ Raise(c) \/ Interrupt(c) \/ Step(c)

Spec == Init /\ [][Next]_vars

\* A CPU executes the code it is in; calls, faults and interrupts need not
\* come.  A spinning CPU is not promised that it ever wins the exchange.
FairSpec == Spec /\ \A c \in CPU : WF_vars(Step(c))

-----------------------------------------------------------------------------
(* Properties *)

CallLabels ==
    {"lock", "print", "cli", "panic_unlock", "hlt", "halted", "unlock"}
ExceptionLabels ==
    {"count_read", "count_write", "loop_report", "loop_panic", "switch",
     "end_trace", "uncount", "iret"}

Activation ==
    [panic : BOOLEAN, at : CallLabels] \union
    [number : Number, at : ExceptionLabels, eflags : BOOLEAN, count : Nat]

\* Type invariant.
TypeOK ==
    /\ smp \in BOOLEAN
    /\ console_lock \in {0, 1}
    /\ nested_counter \in Nat
    /\ stage \in [CPU -> Stages]
    /\ intr \in [CPU -> BOOLEAN]
    /\ stack \in [CPU -> Seq(Activation)]

\* The activations of c whose next line is one of "labels".
Which(c, labels) == {i \in DOMAIN stack[c] : stack[c][i].at \in labels}

Inside == {"print", "cli", "panic_unlock", "unlock"}
Printers == UNION {{<<c, i>> : i \in Which(c, Inside)} : c \in CPU}

\* Exclusive access to the console for single calls (comment at printk.c:14):
\* with several CPUs the word counts the calls between lock and unlock, so
\* there is at most one, also across the change of mode by smp_init and
\* whoever panics.
OnePrinter == smp => console_lock = Cardinality(Printers)

\* With one CPU the lock is the interrupt flag: the call that is printing
\* runs with interrupts off, also after an exception in the driver whose own
\* printk turned them on.
MaskedWhilePrinting ==
    ~smp => \A c \in CPU : Running(c) /\ At(c, "print") => ~intr[c]

Counted == ExceptionLabels \ {"count_read", "count_write", "iret"}

\* With one CPU nested_counter is the number of handlers on its stack.
NestedExact ==
    ~smp => nested_counter = Cardinality(Which(Bsp, Counted))

\* With one CPU printing calls and handlers nest like the calls of one stack.
OneCpuInOrder == NestedExact /\ MaskedWhilePrinting

Halted(c) == At(c, "halted")

\* Comment at printk.c:357: panic "halts the machine after the printout is
\* done": a CPU that has halted in panic executes nothing more.
HaltIsFinal == [][\A c \in CPU : Halted(c) => Halted(c)']_vars

\* With several CPUs it is true of all of them, whoever else prints, panics
\* or takes an exception.
HaltIsFinalSmp == [][smp => \A c \in CPU : Halted(c) => Halted(c)']_vars

\* The console is always released, also by a panic (comment at line 362:
\* "This allows multiple cpus to panic"), unless the machine resets.
ConsoleReleased == console_lock = 1 ~> console_lock = 0 \/ stage[Bsp] = "reset"

\* The first activation of c is a panic or an exception of kernel code.
Doomed(c) ==
    /\ stack[c] # <<>>
    /\ \/ stack[c][1].at \in ExceptionLabels
       \/ stack[c][1].at \in CallLabels /\ stack[c][1].panic

\* Once all CPUs are in panic or in an exception handler, all halt: none is
\* left waiting for a console that a halted CPU owns.
AllPanicsHalt == (\A c \in CPU : Doomed(c)) ~> (\A c \in CPU : Halted(c))

\* No call keeps the console for good, one that halts its CPU included.
ConsoleGoesOn == ConsoleReleased /\ AllPanicsHalt
=============================================================================
