-------------------------- MODULE InterruptsProofs --------------------------
(***************************************************************************)
(* Proofs about Interrupts for any set of lines, numbers and delays, any   *)
(* depth of nesting and any division of the tick.                          *)
(*                                                                         *)
(* The chips know lines in service, the kernel a stack of handlers; the    *)
(* invariant relates the two.  The order of the lines in service follows   *)
(* the stack upside down, so the lowest line, which the unspecific end of  *)
(* interrupt takes, is the running handler's.  The clock of delay is a     *)
(* part of its own and rests on the chips letting every tick through.      *)
(***************************************************************************)
EXTENDS Interrupts, SequenceTheorems, TLAPS

\* A delay in progress.
WaitRecord == [at : {"no", "check", "hlt", "halted"}, ms : Nat, end : Nat,
               due : 0 .. Fractions]

\* An interrupt being handled.
Context == [number : 32 .. 255, line : Lines \union {None}, at : Places]

\* The values of the variables other than the stack of handlers.
Scalars ==
    /\ smp \in BOOLEAN /\ intr \in BOOLEAN /\ cascaded \in BOOLEAN
    /\ phase \in {"firmware", "pic", "starting", "running", "real_mode"}
    /\ imr \subseteq 0 .. 15 /\ saved \subseteq 0 .. 15
    /\ irr \subseteq Lines /\ isr \subseteq Lines \union {2}
    /\ interrupt_handler_table \in [Numbers -> {NULL, "timer", "driver"}]
    /\ refused \in Numbers \union {None}
    /\ elapsed_milliseconds \in Nat /\ divisor \in {0, 1193}
    /\ todo \in Seq(Nat)
    /\ wait \in WaitRecord
    /\ age \in 0 .. Fractions /\ took \in Nat /\ spurious \in Nat

\* The types, with the stack as a sequence no longer than the bound.
Typed ==
    /\ Scalars
    /\ contexts \in Seq(Context) /\ Len(contexts) <= MaxContexts

\* Where pic_init puts the vectors of the chips.
Kernel == [master |-> 32, slave |-> 40]

\* What each stage of the boot has done to the chips and leaves to the next
\* one. While the timer runs alone, line 0 is the only one unmasked.
Stages ==
    /\ phase \in {"firmware", "pic"} => contexts = <<>> /\ isr = {} /\ irr = {} /\ ~cascaded
    /\ phase \in {"pic", "starting", "running"} => offsets = Kernel
    /\ phase = "starting" => smp /\ imr = (0 .. 15) \ {0} /\ isr \subseteq {0} /\ ~cascaded
    /\ phase = "pic" => imr = 0 .. 15
    /\ phase = "firmware" => imr = found
    /\ phase # "firmware" => saved = found
    /\ phase = "real_mode" => imr = found /\ offsets = Firmware
    /\ phase # "starting" => wait.at = "no"

\* The timer's handler is the one of number 32; drivers register on machines
\* with one processor only, and not for the spurious numbers.
Registered ==
    \A n \in Numbers :
        /\ interrupt_handler_table[n] = "timer" => n = 32
        /\ interrupt_handler_table[n] = "driver" => ~smp /\ n \notin {39, 47}

\* A handler that can be interrupted: its driver has printed, or it comes
\* after.
Suspended(c) == ~smp /\ c.at \in {"driver", "eoi", "iret"} /\ c.number \notin {39, 47}

\* A handler has the number of its line, or comes from a spurious interrupt.
Sound(c) ==
    /\ c.line = None => /\ c.number \in {39, 47, 255} /\ spurious > 0
                        /\ c.number = 255 => smp
    /\ c.line # None => c.number = 32 + c.line
    /\ c.at = "driver" => ~smp /\ c.number \notin {39, 47}
    /\ ~cascaded => c.line \notin Slave

\* Handlers are sound, and those that something interrupts can be
\* interrupted.
Stacked ==
    /\ \A i \in 1 .. Len(contexts) : Sound(contexts[i])
    /\ \A i \in 1 .. Len(contexts) : i < Len(contexts) \/ intr => Suspended(contexts[i])

\* The chips against the stack, as long as no line of the slave has come:
\* every line in service has a handler under way, a lower line only above a
\* higher one, and line 2 is in service only until the handler of 47
\* acknowledges it.
Service ==
    ~cascaded =>
        /\ \A l \in isr \ {2} : \E i \in 1 .. Len(contexts) :
              contexts[i].line = l /\ contexts[i].at # "iret"
        /\ \A j \in 1 .. Len(contexts), k \in (isr \intersect Master) \ {2} :
              contexts[j].at # "iret" /\ contexts[j].line \in isr /\ k < contexts[j].line
                => \E i \in j + 1 .. Len(contexts) :
                      contexts[i].line = k /\ contexts[i].at # "iret"
        /\ 2 \in isr => /\ At("enter") /\ Current.number = 47
                        /\ \A k \in isr \intersect Master : 2 <= k

\* This handler will send an end of interrupt for its line. Number 39 has
\* sent it before it calls its driver, and sends one more.
Owes(c) == c.at # "iret" /\ c.number # 39

\* Without spurious interrupts handlers and lines in service match exactly,
\* and the two acknowledgements of 39 take line 7 and nothing.
Exact ==
    spurious = 0 /\ ~cascaded =>
        /\ \A i \in 1 .. Len(contexts) : Owes(contexts[i]) => contexts[i].line \in isr
        /\ \A i, j \in 1 .. Len(contexts) :
              i < j /\ Owes(contexts[i]) /\ Owes(contexts[j])
                => contexts[j].line < contexts[i].line
        /\ \A i \in 1 .. Len(contexts) : contexts[i].number = 39 =>
              /\ contexts[i].at = "enter" => isr \intersect Master = {7}
              /\ contexts[i].at # "enter" => isr \intersect Master = {}

\* timer_callback has not run for a tick the processor has taken.
Unserved == \E i \in 1 .. Len(contexts) :
                contexts[i].number = 32 /\ contexts[i].at \in {"enter", "call"}
\* Ticks that have come and are not counted.
Pending == IF 0 \in irr \/ Unserved THEN 1 ELSE 0

\* How long the delay has lasted at least, in ticks.
Ticks == elapsed_milliseconds - (wait.end - wait.ms) + Pending - 1

\* While arch_main delays, at most one tick is pending, it has just come, and
\* the time waited covers the ticks counted since the delay began, but for
\* the first.
Clock ==
    phase = "starting" =>
        /\ Pending = 1 => age = 0
        /\ ~(0 \in irr /\ Unserved)
        /\ wait.at # "no" =>
              /\ elapsed_milliseconds >= wait.end - wait.ms
              /\ \/ took = wait.ms * Fractions
                 \/ took >= Ticks * Fractions + age + wait.due

\* The inductive invariant.
IInv == Typed /\ Stages /\ Registered /\ Stacked /\ Service /\ Exact /\ Clock

-----------------------------------------------------------------------------
(* The stack of handlers *)

\* Lines are among those of the two chips.
LEMMA LinesAre == Lines \subseteq 0 .. 15 /\ 2 \notin Lines /\ 0 \in Lines /\ None \notin 0 .. 15
  BY LinesAssumption DEF None

\* A stack that is not empty has a top.
LEMMA TopIs == ASSUME contexts \in Seq(Context), contexts # <<>>
               PROVE  /\ Len(contexts) \in Nat /\ Len(contexts) >= 1
                      /\ Len(contexts) \in 1 .. Len(contexts)
                      /\ Current \in Context
  BY EmptySeq, ElementOfSeq DEF Current

\* The handler on top moves on to "place".
Moves(place) ==
    /\ contexts # <<>>
    /\ contexts' \in Seq(Context) /\ contexts' # <<>>
    /\ Len(contexts') = Len(contexts)
    /\ \A i \in 1 .. Len(contexts) - 1 : contexts'[i] = contexts[i]
    /\ LET t == contexts'[Len(contexts)]
       IN  /\ t.at = place /\ t.number = Current.number /\ t.line = Current.line
           /\ t \in Context

\* What Moved does to the stack.
LEMMA MovedIs ==
    ASSUME contexts \in Seq(Context), contexts # <<>>, NEW place \in Places,
           contexts' = Moved(place)
    PROVE  Moves(place)
<1> DEFINE n == Len(contexts)
           b == [Current EXCEPT !.at = place]
<1>1. n \in Nat /\ n >= 1 /\ n \in 1 .. n /\ Current \in Context
  BY TopIs
<1>2. b \in Context /\ b.at = place /\ b.number = Current.number /\ b.line = Current.line
  BY <1>1 DEF Context
<1>3. contexts' = [contexts EXCEPT ![n] = b]
  BY DEF Moved, Current
<1> HIDE DEF b
<1>4. /\ contexts' \in Seq(Context)
      /\ Len(contexts') = n
      /\ \A j \in 1 .. n : contexts'[j] = IF j = n THEN b ELSE contexts[j]
  BY <1>1, <1>2, <1>3, ExceptSeq
<1>5. contexts'[n] = b /\ \A j \in 1 .. n - 1 : contexts'[j] = contexts[j]
  BY <1>1, <1>4
<1>6. contexts' # <<>>
  BY <1>1, <1>4, EmptySeq
<1> QED
  BY <1>2, <1>4, <1>5, <1>6 DEF Moves

\* The handler on top returns.
Pops ==
    /\ contexts # <<>>
    /\ contexts' \in Seq(Context)
    /\ Len(contexts') = Len(contexts) - 1
    /\ \A i \in 1 .. Len(contexts) - 1 : contexts'[i] = contexts[i]

\* The length of a stack without its top.
LEMMA OneLess == \A n \in Nat : n >= 1 =>
                     (IF 1 <= n - 1 THEN n - 1 - 1 + 1 ELSE 0) = n - 1
  OBVIOUS

\* What Iret does to the stack.
LEMMA PoppedIs ==
    ASSUME contexts \in Seq(Context), contexts # <<>>,
           contexts' = SubSeq(contexts, 1, Len(contexts) - 1)
    PROVE  Pops
<1>1. Len(contexts) \in Nat /\ Len(contexts) >= 1
  BY TopIs
<1>2. \A i \in 1 .. Len(contexts) - 1 : contexts[i] \in Context
  BY <1>1, ElementOfSeq
<1>3. /\ contexts' \in Seq(Context)
      /\ Len(contexts') = IF 1 <= Len(contexts) - 1 THEN Len(contexts) - 1 - 1 + 1 ELSE 0
      /\ \A i \in 1 .. Len(contexts) - 1 - 1 + 1 : contexts'[i] = contexts[1 + i - 1]
  BY <1>1, <1>2, SubSeqProperties
<1>4. Len(contexts') = Len(contexts) - 1
  BY <1>1, <1>3, OneLess
<1>5. ASSUME NEW i \in 1 .. Len(contexts) - 1 PROVE contexts'[i] = contexts[i]
  <2>1. i \in 1 .. Len(contexts) - 1 - 1 + 1 /\ 1 + i - 1 = i
    BY <1>1
  <2> QED
    BY <1>3, <2>1
<1> QED
  BY <1>3, <1>4, <1>5 DEF Pops

\* An interrupt number n comes from "line".
Pushes(n, line) ==
    /\ contexts' \in Seq(Context) /\ contexts' # <<>>
    /\ Len(contexts') = Len(contexts) + 1
    /\ \A i \in 1 .. Len(contexts) : contexts'[i] = contexts[i]
    /\ LET t == contexts'[Len(contexts) + 1]
       IN  /\ t.number = n /\ t.line = line /\ t.at = "enter"
           /\ t \in Context

\* What Enter does to the stack.
LEMMA PushedIs ==
    ASSUME contexts \in Seq(Context), NEW n \in 32 .. 255, NEW line \in Lines \union {None},
           contexts' = Append(contexts, Stub(n, line))
    PROVE  Pushes(n, line)
<1> DEFINE b == Stub(n, line)
<1>1. b \in Context /\ b.number = n /\ b.line = line /\ b.at = "enter"
  BY DEF Stub, Context, Places
<1>2. contexts' = Append(contexts, b)
  OBVIOUS
<1> HIDE DEF b
<1>3. /\ contexts' \in Seq(Context) /\ contexts' # <<>>
      /\ Len(contexts') = Len(contexts) + 1
      /\ \A i \in 1 .. Len(contexts) : contexts'[i] = contexts[i]
      /\ contexts'[Len(contexts) + 1] = b
  BY <1>1, <1>2
<1> QED
  BY <1>1, <1>3 DEF Pushes

-----------------------------------------------------------------------------
(* Types *)

\* The types of the invariant are those TLC checks.
LEMMA TypesAre == Typed => TypeOK
<1>1. Typed => smp \in BOOLEAN /\ intr \in BOOLEAN
  BY DEF Typed, Scalars
<1>2. Typed => TypeOK
  BY <1>1 DEF Typed, Scalars, WaitRecord, TypeOK, Context
<1> QED
  BY <1>2

\* An end of interrupt takes lines out of service, and adds none.
LEMMA EoiShrinks == \A chip, lines : AfterEoi(chip, lines) \subseteq lines
  BY DEF AfterEoi

\* An end of interrupt takes the lowest line of the chip.
LEMMA EoiTakesMin ==
    ASSUME NEW chip, NEW lines, lines \subseteq 0 .. 15,
           NEW l \in lines \intersect chip, \A k \in lines \intersect chip : l <= k
    PROVE  AfterEoi(chip, lines) = lines \ {l}
<1> DEFINE S == lines \intersect chip
<1>1. l \in S /\ \A y \in S : l <= y
  OBVIOUS
<1>2. \A x \in S : (\A y \in S : x <= y) => x = l
  <2> SUFFICES ASSUME NEW x \in S, \A y \in S : x <= y PROVE x = l
    OBVIOUS
  <2>1. x <= l /\ l <= x /\ x \in 0 .. 15 /\ l \in 0 .. 15
    OBVIOUS
  <2> QED
    BY <2>1
<1> HIDE DEF S
<1>3. Min(S) = l
  BY <1>1, <1>2, Zenon DEF Min
<1> QED
  BY <1>1, <1>3 DEF AfterEoi, S

\* After pic_init line l has number 32 + l.
LEMMA VectorIs == ASSUME offsets = Kernel, NEW l \in 0 .. 15
                  PROVE  Vector(l) = 32 + l
  BY DEF Vector, Kernel, Master

\* The smaller one of two numbers.
LEMMA MinOfTwo == ASSUME NEW a \in Nat, NEW b \in Nat
                  PROVE  /\ Min({a, b}) \in {a, b}
                         /\ Min({a, b}) <= a /\ Min({a, b}) <= b
<1>1. CASE a <= b
  <2>1. Min({a, b}) = a
    BY <1>1 DEF Min
  <2> QED
    BY <1>1, <2>1
<1>2. CASE ~(a <= b)
  <2>1. Min({a, b}) = b
    BY <1>2 DEF Min
  <2> QED
    BY <1>2, <2>1
<1> QED
  BY <1>1, <1>2

\* The divisor timer_callback writes, for a thousand ticks a second.
LEMMA DivisorIs == Divisor(1000) = 1193
  BY DEF Divisor

-----------------------------------------------------------------------------
(* What the steps do *)

\* An accepted request pushes a handler with interrupts off.
LEMMA AcceptIs ==
    ASSUME Typed, Stages, NEW l \in Lines, Accept(l)
    PROVE  /\ Pushes(32 + l, l)
           /\ phase \in {"starting", "running"} /\ intr /\ ~intr'
           /\ Len(contexts) < MaxContexts
<1>1. phase \in {"starting", "running"} /\ intr /\ Len(contexts) < MaxContexts
  BY DEF Accept, Enter
<1>2. l \in 0 .. 15
  BY LinesAre
<1>3. Vector(l) = 32 + l /\ Vector(l) \in 32 .. 255 /\ MasksInterrupts(Vector(l))
  <2>1. Vector(l) = 32 + l
    BY <1>1, <1>2, VectorIs DEF Stages
  <2> QED
    BY <1>2, <2>1 DEF MasksInterrupts
<1>4. contexts' = Append(contexts, Stub(Vector(l), l)) /\ intr' = ~MasksInterrupts(Vector(l))
  BY DEF Accept, Enter
<1>5. Pushes(32 + l, l)
  BY <1>3, <1>4, PushedIs DEF Typed
<1> QED
  BY <1>1, <1>3, <1>4, <1>5

\* So does a spurious interrupt, without a line.
LEMMA SpuriousIs ==
    ASSUME Typed, NEW n \in {39, 47, 255}, Spurious(n)
    PROVE  /\ Pushes(n, None)
           /\ phase \in {"starting", "running"} /\ intr /\ ~intr'
           /\ Len(contexts) < MaxContexts
<1>1. phase \in {"starting", "running"} /\ intr /\ Len(contexts) < MaxContexts
  BY DEF Spurious, Enter
<1>2. n \in 32 .. 255 /\ MasksInterrupts(n)
  BY DEF MasksInterrupts
<1>3. contexts' = Append(contexts, Stub(n, None)) /\ intr' = ~MasksInterrupts(n)
  BY DEF Spurious, Enter
<1>4. Pushes(n, None)
  BY <1>2, <1>3, PushedIs DEF Typed
<1> QED
  BY <1>1, <1>2, <1>3, <1>4

\* interrupt_common_handler finds no interrupt spurious and goes on to the
\* handler.
LEMMA BeginIs ==
    ASSUME Typed, Begin
    PROVE  /\ Moves("call")
           /\ isr' = CASE Current.number = 39 -> AfterEoi(Master, isr)
                       [] Current.number = 47 -> AfterEoi(Slave, AfterEoi(Master, isr))
                       [] OTHER -> isr
<1>1. ~FoundSpurious
  BY DEF FoundSpurious, NotInServiceMask
<1>2. contexts # <<>> /\ contexts' = Moved("call")
  BY <1>1 DEF Begin, At
<1>3. Moves("call")
  BY <1>2, MovedIs DEF Typed, Places
<1> QED
  BY <1>1, <1>3 DEF Begin

\* A driver's handler runs where one can be registered.
LEMMA CallIs ==
    ASSUME Typed, Registered, CallHandler
    PROVE  \/ Moves("eoi")
           \/ Moves("driver") /\ ~smp /\ Current.number \notin {39, 47}
<1>1. contexts # <<>>
  BY DEF CallHandler, At
<1>2. CASE Handler = NULL
  BY <1>1, <1>2, MovedIs DEF CallHandler, Typed, Places
<1>3. CASE Handler # NULL
  <2>1. Moves("driver")
    BY <1>1, <1>3, MovedIs DEF CallHandler, Typed, Places
  <2>2. Current.number \in Numbers /\ interrupt_handler_table[Current.number] = "driver"
    BY <1>3 DEF CallHandler, Handler, Typed, Scalars
  <2> QED
    BY <2>1, <2>2 DEF Registered
<1> QED
  BY <1>2, <1>3

\* timer_callback runs for number 32.
LEMMA TimerIs == ASSUME Typed, Registered, timer_callback
                 PROVE  Moves("eoi") /\ Current.number = 32
<1>1. contexts # <<>> /\ contexts' = Moved("eoi")
  BY DEF timer_callback, At
<1>2. Moves("eoi")
  BY <1>1, MovedIs DEF Typed, Places
<1>3. Current.number \in Numbers /\ interrupt_handler_table[Current.number] = "timer"
  BY DEF timer_callback, Handler, NULL
<1> QED
  BY <1>2, <1>3 DEF Registered

\* A driver's handler returns to the end of interrupt.
LEMMA ReturnsIs == ASSUME Typed, DriverReturns PROVE Moves("eoi")
<1>1. contexts # <<>> /\ contexts' = Moved("eoi")
  BY DEF DriverReturns, At
<1> QED
  BY <1>1, MovedIs DEF Typed, Places

\* After the end of interrupt comes the return.
LEMMA EoiIs == ASSUME Typed, SendEoi PROVE Moves("iret")
<1>1. contexts # <<>> /\ contexts' = Moved("iret")
  BY DEF SendEoi, At
<1> QED
  BY <1>1, MovedIs DEF Typed, Places

\* The return removes the top.
LEMMA IretIs == ASSUME Typed, Iret PROVE Pops
<1>1. contexts # <<>> /\ contexts' = SubSeq(contexts, 1, Len(contexts) - 1)
  BY DEF Iret, At
<1> QED
  BY <1>1, PoppedIs DEF Typed

\* The four calls that change masks are one.
LEMMA CallsAre ==
    ASSUME Calls
    PROVE  \/ \E n \in Numbers :
                 register_interrupt_handler(n) \/ unregister_interrupt_handler(n)
           \/ Caller /\ imr' \in SUBSET (0 .. 15 \union imr) /\ Masks(imr')
           \/ pic_restore_real_mode_configuration
<1>1. ASSUME NEW l \in Lines \union {2},
             pic_enable_irq_line(l) \/ pic_disable_irq_line(l)
      PROVE  Caller /\ imr' \in SUBSET (0 .. 15 \union imr) /\ Masks(imr')
  <2>1. l \in 0 .. 15
    BY LinesAre
  <2>2. CASE pic_enable_irq_line(l)
    BY <2>2 DEF pic_enable_irq_line, Masks
  <2>3. CASE pic_disable_irq_line(l)
    BY <2>1, <2>3 DEF pic_disable_irq_line, Masks
  <2> QED
    BY <1>1, <2>2, <2>3
<1>2. ASSUME pic_enable_all_irq_lines \/ pic_disable_all_irq_lines
      PROVE  Caller /\ imr' \in SUBSET (0 .. 15 \union imr) /\ Masks(imr')
  <2>1. CASE pic_enable_all_irq_lines
    BY <2>1 DEF pic_enable_all_irq_lines, Masks
  <2>2. CASE pic_disable_all_irq_lines
    BY <2>2 DEF pic_disable_all_irq_lines, Masks
  <2> QED
    BY <1>2, <2>1, <2>2
<1> QED
  BY <1>1, <1>2, Zenon DEF Calls

-----------------------------------------------------------------------------
(* Types are kept *)

\* Every step keeps the stack a sequence of contexts.
LEMMA StackTyped ==
    ASSUME Typed, Stages, Registered, [Next]_vars
    PROVE  contexts' \in Seq(Context) /\ Len(contexts') <= MaxContexts
<1> DEFINE Goal == contexts' \in Seq(Context) /\ Len(contexts') <= MaxContexts
<1> USE DEF Typed
<1>0. Len(contexts) \in Nat /\ MaxContexts \in Nat
  BY LenProperties, BoundAssumption
<1>1. ASSUME contexts' = contexts PROVE Goal
  BY <1>1
<1>2. ASSUME NEW place, Moves(place) PROVE Goal
  BY <1>2 DEF Moves
<1>3. ASSUME NEW n, NEW line, Pushes(n, line), Len(contexts) < MaxContexts PROVE Goal
  BY <1>0, <1>3 DEF Pushes
<1>4. ASSUME Pops PROVE Goal
  BY <1>0, <1>4 DEF Pops
<1>5. ASSUME Handling PROVE Goal
  <2>1. CASE Begin
    BY <1>2, <2>1, BeginIs
  <2>2. CASE CallHandler
    BY <1>2, <2>2, CallIs
  <2>3. CASE timer_callback
    BY <1>2, <2>3, TimerIs
  <2>4. CASE DriverReturns
    BY <1>2, <2>4, ReturnsIs
  <2>5. CASE SendEoi
    BY <1>2, <2>5, EoiIs
  <2>6. CASE Iret
    BY <1>4, <2>6, IretIs
  <2> QED
    BY <1>5, <2>1, <2>2, <2>3, <2>4, <2>5, <2>6 DEF Handling
<1>6. ASSUME NEW l \in Lines, Accept(l) PROVE Goal
  BY <1>3, <1>6, AcceptIs
<1>7. ASSUME NEW n \in {39, 47, 255}, Spurious(n) PROVE Goal
  BY <1>3, <1>7, SpuriousIs
<1>8. ASSUME PicInit \/ StartTimer \/ ArchInitDone \/ Delay \/ DelayStep \/ Elapse \/ Tick
             \/ (\E l \in Lines \ {0} : Raise(l)) \/ DriverPrints
      PROVE  contexts' = contexts
  BY <1>8 DEF PicInit, StartTimer, ArchInitDone, Delay, DelayStep, Elapse, Tick, Raise, DriverPrints
<1>9. ASSUME Calls PROVE contexts' = contexts
  BY <1>9, CallsAre DEF register_interrupt_handler, unregister_interrupt_handler, Masks,
                        pic_restore_real_mode_configuration
<1>10. CASE UNCHANGED vars
  BY <1>1, <1>10 DEF vars
<1>11. CASE Next
  BY <1>1, <1>5, <1>6, <1>7, <1>8, <1>9, <1>11 DEF Next, Delivery
<1> QED
  BY <1>10, <1>11

\* Every step keeps the types of the other variables.
LEMMA ScalarsKept ==
    ASSUME Typed, Stages, [Next]_vars
    PROVE  Scalars'
<1> USE DEF Typed
<1>0. /\ Fractions \in Nat \ {0}
      /\ Lines \subseteq 0 .. 15 /\ 0 \in Lines /\ 32 \in Numbers
  BY BoundAssumption, LinesAssumption, NumbersAssumption
<1>1. CASE PicInit
  BY <1>1 DEF PicInit, Programmed, Scalars, driver, table, clock, main
<1>2. CASE StartTimer
  BY <1>0, <1>2 DEF StartTimer, Scalars, service, driver, clock, main, None
<1>3. CASE ArchInitDone
  BY <1>0, <1>3 DEF ArchInitDone, Scalars, chips, service, driver, table
<1>4. CASE Delay
  <2>1. Head(todo) \in Nat /\ Tail(todo) \in Seq(Nat)
    BY <1>4, HeadTailProperties DEF Delay, Scalars
  <2>2. wait' \in WaitRecord
    <3> DEFINE Due == IF 0 \in irr THEN 0 ELSE Fractions - age
    <3>1. elapsed_milliseconds + Head(todo) \in Nat
      BY <2>1 DEF Scalars
    <3>2. Due \in 0 .. Fractions
      BY <1>0 DEF Scalars
    <3>3. wait' = [at |-> "check", ms |-> Head(todo), end |-> elapsed_milliseconds + Head(todo),
                   due |-> Due]
      BY <1>4 DEF Delay
    <3> HIDE DEF Due
    <3> QED
      BY <2>1, <3>1, <3>2, <3>3 DEF WaitRecord
  <2> QED
    BY <1>4, <2>1, <2>2, SMTT(30) DEF Delay, Scalars, chips, service, driver, table, clock
<1>5. CASE DelayStep
  <2>1. 0 \in 0 .. Fractions
    BY <1>0
  <2>2. NoDelay \in WaitRecord
    BY <2>1 DEF NoDelay, WaitRecord
  <2>3. /\ [wait EXCEPT !.at = "hlt"] \in WaitRecord
        /\ [wait EXCEPT !.at = "halted"] \in WaitRecord
    <3>1. wait \in WaitRecord
      BY DEF Scalars
    <3> QED
      BY <3>1 DEF WaitRecord
  <2>4. /\ wait' \in WaitRecord
        /\ took' \in Nat
    <3>1. wait \in WaitRecord /\ took \in Nat
      BY DEF Scalars
    <3>2. \/ wait' = [wait EXCEPT !.at = "hlt"] /\ took' = took
          \/ wait' = NoDelay /\ took' = 0
          \/ wait' = [wait EXCEPT !.at = "halted"] /\ took' = took
      BY <1>5 DEF DelayStep
    <3> QED
      BY <2>2, <2>3, <3>1, <3>2
  <2> QED
    BY <1>5, <2>4 DEF DelayStep, Scalars, chips, service, driver, table, clock
<1>6. CASE Elapse
  <2>1. took + 1 \in Nat
    BY DEF Scalars
  <2>2. wait.ms * Fractions \in Nat
    BY <1>0 DEF Scalars, WaitRecord
  <2>3. Min({took + 1, wait.ms * Fractions}) \in Nat
    BY <2>1, <2>2, MinOfTwo
  <2>4. took' \in Nat
    BY <1>6, <2>1, <2>3 DEF Elapse
  <2>5. age' \in 0 .. Fractions
    BY <1>0, <1>6 DEF Elapse, Scalars
  <2> QED
    BY <1>6, <2>4, <2>5 DEF Elapse, Scalars, chips, service, driver, table, clock
<1>7. CASE Tick
  BY <1>0, <1>7 DEF Tick, Scalars, service, driver, table, clock, main
<1>8. ASSUME NEW l \in Lines \ {0}, Raise(l) PROVE Scalars'
  BY <1>0, <1>8 DEF Raise, Scalars, service, driver, table, clock, main
<1>9. ASSUME NEW l \in Lines, Accept(l) PROVE Scalars'
  <2>1. intr' = FALSE
    BY <1>9, AcceptIs
  <2>2. isr' \subseteq Lines \union {2} /\ irr' \subseteq Lines
    BY <1>9 DEF Accept, Scalars, OnMaster
  <2>3. wait' \in WaitRecord
    <3>1. wait' = [wait EXCEPT !.at = IF @ = "halted" THEN "check" ELSE @]
      BY <1>9 DEF Accept, Enter
    <3>2. wait \in WaitRecord
      BY DEF Scalars
    <3> QED
      BY <3>1, <3>2 DEF WaitRecord
  <2>4. cascaded' \in BOOLEAN
    BY <1>9 DEF Accept
  <2> QED
    BY <1>9, <2>1, <2>2, <2>3, <2>4 DEF Accept, Enter, Scalars, driver, clock
<1>10. ASSUME NEW n \in {39, 47, 255}, Spurious(n) PROVE Scalars'
  <2>1. intr' = FALSE
    BY <1>10, SpuriousIs
  <2>2. isr' \subseteq Lines \union {2} /\ spurious' \in Nat
    BY <1>10 DEF Spurious, Scalars
  <2>3. wait' \in WaitRecord
    <3>1. wait' = [wait EXCEPT !.at = IF @ = "halted" THEN "check" ELSE @]
      BY <1>10 DEF Spurious, Enter
    <3>2. wait \in WaitRecord
      BY DEF Scalars
    <3> QED
      BY <3>1, <3>2 DEF WaitRecord
  <2> QED
    BY <1>10, <2>1, <2>2, <2>3, SMTT(30) DEF Spurious, Enter, Scalars, driver, clock
<1>11. CASE Begin
  <2>1. isr' \subseteq isr
    BY <1>11, BeginIs, EoiShrinks
  <2> QED
    BY <1>11, <2>1 DEF Begin, Scalars, driver, table, clock, main
<1>12. CASE CallHandler
  BY <1>12 DEF CallHandler, Scalars, chips, service, driver, table, clock, main
<1>13. CASE timer_callback
  BY <1>0, <1>13, DivisorIs DEF timer_callback, Scalars, chips, service, driver, table, main
<1>14. CASE DriverPrints
  BY <1>14 DEF DriverPrints, Scalars, chips, service, driver, table, clock, main
<1>15. CASE DriverReturns
  BY <1>15 DEF DriverReturns, Scalars, chips, service, driver, table, clock, main
<1>16. CASE SendEoi
  <2>1. isr' \subseteq isr
    BY <1>16, EoiShrinks DEF SendEoi, Acknowledged
  <2> QED
    BY <1>16, <2>1 DEF SendEoi, Scalars, driver, table, clock, main
<1>17. CASE Iret
  BY <1>17 DEF Iret, Scalars, chips, service, driver, table, clock, main
<1>18. ASSUME NEW n \in Numbers,
              register_interrupt_handler(n) \/ unregister_interrupt_handler(n)
       PROVE  Scalars'
  <2>1. \E v \in {NULL, "timer", "driver"} :
           \/ interrupt_handler_table' = interrupt_handler_table
           \/ interrupt_handler_table' = [interrupt_handler_table EXCEPT ![n] = v]
    BY <1>18 DEF register_interrupt_handler, unregister_interrupt_handler
  <2>2. refused' \in {n, None}
    BY <1>18 DEF register_interrupt_handler, unregister_interrupt_handler
  <2>3. UNCHANGED <<smp, phase, intr, chips, contexts, clock, main, age, spurious>>
    BY <1>18 DEF register_interrupt_handler, unregister_interrupt_handler
  <2>4. interrupt_handler_table' \in [Numbers -> {NULL, "timer", "driver"}]
    BY <2>1 DEF Scalars
  <2> QED
    BY <2>2, <2>3, <2>4 DEF Scalars, chips, service, driver, clock, main
<1>19. ASSUME imr' \in SUBSET (0 .. 15 \union imr), Masks(imr') PROVE Scalars'
  BY <1>19 DEF Masks, Scalars, service, driver, clock, main
<1>20. CASE pic_restore_real_mode_configuration
  BY <1>20 DEF pic_restore_real_mode_configuration, Programmed, Scalars, driver, table,
               clock, main
<1>21. CASE UNCHANGED vars
  BY <1>21 DEF vars, Scalars, chips, service, driver, table, clock, main
<1>22. CASE Calls
  BY <1>18, <1>19, <1>20, <1>22, CallsAre
<1>23. CASE Next
  BY <1>1, <1>2, <1>3, <1>4, <1>5, <1>6, <1>7, <1>8, <1>9, <1>10, <1>11, <1>12, <1>13,
     <1>14, <1>15, <1>16, <1>17, <1>22, <1>23 DEF Next, Delivery, Handling
<1> QED
  BY <1>21, <1>23

-----------------------------------------------------------------------------
(* The stages of the boot and the handler table *)

\* Every step keeps the stages of the boot.
LEMMA StagesKept ==
    ASSUME Typed, Stages, [Next]_vars
    PROVE  Stages'
<1>1. CASE PicInit
  BY <1>1 DEF PicInit, Programmed, Stages, Kernel, driver, table, clock, main
<1>2. CASE StartTimer
  BY <1>2 DEF StartTimer, Stages, service, driver, clock, main
<1>3. CASE ArchInitDone
  BY <1>3 DEF ArchInitDone, Stages, chips, service, driver, table
<1>4. CASE Delay
  BY <1>4 DEF Delay, Stages, chips, service, driver, table, clock
<1>5. CASE DelayStep
  BY <1>5 DEF DelayStep, MainRuns, Stages, chips, service, driver, table, clock
<1>6. CASE Elapse
  BY <1>6 DEF Elapse, Stages, chips, service, driver, table, clock
<1>7. CASE Tick
  BY <1>7 DEF Tick, Stages, service, driver, table, clock, main
<1>8. ASSUME NEW l \in Lines \ {0}, Raise(l) PROVE Stages'
  BY <1>8 DEF Raise, Stages, service, driver, table, clock, main
<1>9. ASSUME NEW l \in Lines, Accept(l) PROVE Stages'
  <2>1. phase \in {"starting", "running"} /\ UNCHANGED <<smp, phase, imr, offsets, found, saved>>
    BY <1>9 DEF Accept, Enter, driver
  <2>2. wait.at = "no" => wait'.at = "no"
    BY <1>9 DEF Accept, Enter, Typed, Scalars
  <2>3. phase = "starting" => l = 0
    BY <1>9, LinesAre DEF Accept, Deliverable, Stages
  <2>4. l = 0 => isr' = isr \union {0} /\ cascaded' = cascaded
    BY <1>9 DEF Accept, OnMaster, Master, Slave, Typed, Scalars
  <2> QED
    BY <2>1, <2>2, <2>3, <2>4 DEF Stages
<1>10. ASSUME NEW n \in {39, 47, 255}, Spurious(n) PROVE Stages'
  <2>1. /\ phase \in {"starting", "running"}
        /\ UNCHANGED <<smp, phase, imr, cascaded, offsets, found, saved>>
    BY <1>10 DEF Spurious, Enter, driver
  <2>2. wait.at = "no" => wait'.at = "no"
    <3>1. wait' = [wait EXCEPT !.at = IF @ = "halted" THEN "check" ELSE @]
      BY <1>10 DEF Spurious, Enter
    <3> QED
      BY <3>1 DEF Typed, Scalars
  <2>3. phase = "starting" => isr' = isr
    BY <1>10 DEF Spurious, Stages
  <2> QED
    BY <2>1, <2>2, <2>3 DEF Stages
<1>11. CASE Begin
  <2>1. isr' \subseteq isr
    BY <1>11, BeginIs, EoiShrinks
  <2> QED
    BY <1>11, <2>1 DEF Begin, At, Stages, driver, table, clock, main
<1>12. CASE CallHandler
  BY <1>12 DEF CallHandler, At, Stages, chips, service, driver, table, clock, main
<1>13. CASE timer_callback
  BY <1>13 DEF timer_callback, At, Stages, chips, service, driver, table, main
<1>14. CASE DriverPrints
  BY <1>14 DEF DriverPrints, At, Stages, chips, service, driver, table, clock, main
<1>15. CASE DriverReturns
  BY <1>15 DEF DriverReturns, At, Stages, chips, service, driver, table, clock, main
<1>16. CASE SendEoi
  <2>1. isr' \subseteq isr
    BY <1>16, EoiShrinks DEF SendEoi, Acknowledged
  <2> QED
    BY <1>16, <2>1 DEF SendEoi, At, Stages, driver, table, clock, main
<1>17. CASE Iret
  BY <1>17 DEF Iret, At, Stages, chips, service, driver, table, clock, main
<1>18. ASSUME NEW n \in Numbers,
              register_interrupt_handler(n) \/ unregister_interrupt_handler(n)
       PROVE  Stages'
  BY <1>18 DEF register_interrupt_handler, unregister_interrupt_handler, Caller, Stages,
               chips, service, driver, clock, main
<1>19. ASSUME Masks(imr') PROVE Stages'
  BY <1>19 DEF Masks, Caller, Stages, service, driver, clock, main
<1>20. CASE pic_restore_real_mode_configuration
  BY <1>20 DEF pic_restore_real_mode_configuration, Programmed, Caller, Stages, driver, table,
               clock, main
<1>21. CASE UNCHANGED vars
  BY <1>21 DEF vars, Stages, chips, service, driver, table, clock, main
<1>22. CASE Calls
  BY <1>18, <1>19, <1>20, <1>22, CallsAre
<1>23. CASE Next
  BY <1>1, <1>2, <1>3, <1>4, <1>5, <1>6, <1>7, <1>8, <1>9, <1>10, <1>11, <1>12, <1>13,
     <1>14, <1>15, <1>16, <1>17, <1>22, <1>23 DEF Next, Delivery, Handling
<1> QED
  BY <1>21, <1>23

\* The number of processors does not change.
LEMMA SmpStays == [Next]_vars => UNCHANGED smp
  BY DEF Next, PicInit, StartTimer, ArchInitDone, Delay, DelayStep, Elapse, Tick, Raise, Delivery,
         Accept, Spurious, Enter, Handling, Begin, CallHandler, timer_callback, DriverReturns,
         SendEoi, Iret, DriverPrints, Calls, register_interrupt_handler,
         unregister_interrupt_handler, Masks, pic_enable_irq_line, pic_disable_irq_line,
         pic_enable_all_irq_lines, pic_disable_all_irq_lines,
         pic_restore_real_mode_configuration, vars

\* Every step keeps the table: what Refuses lets through is a driver's number
\* on a machine with one processor.
LEMMA RegisteredKept ==
    ASSUME Typed, Registered, [Next]_vars
    PROVE  Registered'
<1>1. UNCHANGED smp
  BY SmpStays
<1>2. ASSUME UNCHANGED interrupt_handler_table PROVE Registered'
  BY <1>1, <1>2 DEF Registered
<1>3. CASE StartTimer
  <2>1. interrupt_handler_table' = [interrupt_handler_table EXCEPT ![32] = "timer"]
    BY <1>3 DEF StartTimer
  <2> QED
    BY <1>1, <2>1 DEF Registered, Typed, Scalars
<1>4. ASSUME NEW n \in Numbers, register_interrupt_handler(n) PROVE Registered'
  <2>1. CASE Refuses(n) /\ UNCHANGED interrupt_handler_table
    BY <1>2, <2>1
  <2>2. CASE /\ ~Refuses(n)
             /\ interrupt_handler_table' = [interrupt_handler_table EXCEPT ![n] = "driver"]
    <3>1. n \in 0 .. 255
      BY NumbersAssumption
    <3>2. ~arch_init
      BY <1>4 DEF register_interrupt_handler, Caller, arch_init
    <3>3. ~smp /\ n \notin {39, 47}
      BY <2>2, <3>1, <3>2 DEF Refuses
    <3> QED
      BY <1>1, <2>2, <3>3 DEF Registered, Typed, Scalars
  <2> QED
    BY <1>4, <2>1, <2>2 DEF register_interrupt_handler
<1>5. ASSUME NEW n \in Numbers, unregister_interrupt_handler(n) PROVE Registered'
  <2>1. interrupt_handler_table' = [interrupt_handler_table EXCEPT ![n] = NULL]
    BY <1>5 DEF unregister_interrupt_handler
  <2> QED
    BY <1>1, <2>1 DEF Registered, Typed, Scalars, NULL
<1>6. ASSUME PicInit \/ ArchInitDone \/ Delay \/ DelayStep \/ Elapse \/ Tick
             \/ (\E l \in Lines \ {0} : Raise(l)) \/ DriverPrints \/ Delivery
             \/ (\E n \in {39, 47, 255} : Spurious(n)) \/ Handling
      PROVE  UNCHANGED interrupt_handler_table
  BY <1>6 DEF PicInit, ArchInitDone, Delay, DelayStep, Elapse, Tick, Raise, DriverPrints,
       Delivery, Accept, Spurious, Enter, Handling, Begin, CallHandler, timer_callback,
       DriverReturns, SendEoi, Iret, table
<1>7. CASE Calls
  <2>1. ASSUME Masks(imr') \/ pic_restore_real_mode_configuration
        PROVE  UNCHANGED interrupt_handler_table
    BY <2>1 DEF Masks, pic_restore_real_mode_configuration, table
  <2> QED
    BY <1>2, <1>4, <1>5, <1>7, <2>1, CallsAre
<1>8. CASE UNCHANGED vars
  BY <1>2, <1>8 DEF vars, table
<1>9. CASE Next
  BY <1>2, <1>3, <1>6, <1>7, <1>9 DEF Next
<1> QED
  BY <1>8, <1>9

-----------------------------------------------------------------------------
(* The handlers on the stack *)

\* A step that leaves the stack alone.
LEMMA StackedStays ==
    ASSUME Stacked, UNCHANGED <<smp, contexts, cascaded, spurious>>, intr' => intr
    PROVE  Stacked'
  BY DEF Stacked, Sound, Suspended

\* A step of the top handler, which may be interrupted only when it is past
\* the call.
LEMMA StackedMoves ==
    ASSUME Typed, Stacked, NEW place \in Places, Moves(place),
           UNCHANGED <<smp, intr, cascaded, spurious>>,
           Current.at \in {"enter", "call"} \/ place \in {"eoi", "iret"},
           place = "driver" => ~smp /\ Current.number \notin {39, 47}
    PROVE  Stacked'
<1>0. /\ Len(contexts) \in Nat /\ Len(contexts) >= 1 /\ Current = contexts[Len(contexts)]
      /\ Len(contexts') = Len(contexts)
  BY TopIs DEF Moves, Typed, Current
<1>1. ASSUME NEW i \in 1 .. Len(contexts)
      PROVE  Sound(contexts[i])' /\ ((i < Len(contexts) \/ intr) => Suspended(contexts[i])')
  <2>1. Sound(contexts[i]) /\ ((i < Len(contexts) \/ intr) => Suspended(contexts[i]))
    BY DEF Stacked
  <2>2. CASE i < Len(contexts)
    <3>1. contexts'[i] = contexts[i]
      BY <1>0, <2>2 DEF Moves
    <3> QED
      BY <2>1, <3>1 DEF Sound, Suspended
  <2>3. CASE i = Len(contexts)
    <3>1. /\ contexts'[i].at = place
          /\ contexts'[i].number = contexts[i].number /\ contexts'[i].line = contexts[i].line
      BY <1>0, <2>3 DEF Moves
    <3>2. Current = contexts[i]
      BY <1>0, <2>3
    <3> QED
      BY <2>1, <3>1, <3>2 DEF Sound, Suspended
  <2> QED
    BY <1>0, <2>2, <2>3
<1> QED
  BY <1>0, <1>1 DEF Stacked

\* A new handler comes with interrupts on, so all others can be interrupted.
LEMMA StackedPushes ==
    ASSUME Typed, Stacked, NEW n \in 32 .. 255, NEW line, Pushes(n, line),
           intr, ~intr', UNCHANGED smp,
           ~cascaded' => ~cascaded, spurious > 0 => spurious' > 0,
           line = None => n \in {39, 47, 255} /\ spurious' > 0 /\ (n = 255 => smp),
           line # None => n = 32 + line,
           ~cascaded' => line \notin Slave
    PROVE  Stacked'
<1>0. Len(contexts) \in Nat /\ Len(contexts') = Len(contexts) + 1
  BY LenProperties DEF Pushes, Typed
<1>1. ASSUME NEW i \in 1 .. Len(contexts)
      PROVE  Sound(contexts[i])' /\ Suspended(contexts[i])'
  <2>1. Sound(contexts[i]) /\ Suspended(contexts[i]) /\ contexts'[i] = contexts[i]
    BY DEF Stacked, Pushes
  <2> QED
    BY <2>1 DEF Sound, Suspended
<1>2. ASSUME NEW i, i = Len(contexts) + 1
      PROVE  Sound(contexts[i])'
  <2>1. contexts'[i].at = "enter" /\ contexts'[i].number = n /\ contexts'[i].line = line
    BY <1>2 DEF Pushes
  <2> QED
    BY <2>1 DEF Sound
<1>3. ASSUME NEW i \in 1 .. Len(contexts')
      PROVE  i \in 1 .. Len(contexts) \/ i = Len(contexts')
  BY <1>0
<1> QED
  BY <1>0, <1>1, <1>2, <1>3 DEF Stacked

\* A return leaves handlers that can be interrupted, so it may turn
\* interrupts on.
LEMMA StackedPops ==
    ASSUME Typed, Stacked, Pops, UNCHANGED <<smp, cascaded, spurious>>
    PROVE  Stacked'
<1>0. Len(contexts) \in Nat /\ Len(contexts') = Len(contexts) - 1
  BY LenProperties DEF Pops, Typed
<1>1. ASSUME NEW i \in 1 .. Len(contexts')
      PROVE  Sound(contexts[i])' /\ Suspended(contexts[i])'
  <2>1. i \in 1 .. Len(contexts) /\ i < Len(contexts) /\ i \in 1 .. Len(contexts) - 1
    BY <1>0
  <2>2. Sound(contexts[i]) /\ Suspended(contexts[i]) /\ contexts'[i] = contexts[i]
    BY <2>1 DEF Stacked, Pops
  <2> QED
    BY <2>2 DEF Sound, Suspended
<1> QED
  BY <1>1 DEF Stacked

\* Every step keeps the stack sound.
LEMMA StackedKept ==
    ASSUME Typed, Stages, Registered, Stacked, [Next]_vars
    PROVE  Stacked'
<1>0. UNCHANGED smp
  BY SmpStays
<1>1. ASSUME PicInit \/ StartTimer PROVE Stacked'
  <2>1. contexts = <<>> /\ contexts' = contexts
    BY <1>1 DEF PicInit, StartTimer, Stages
  <2> QED
    BY <2>1, EmptySeq DEF Stacked
<1>2. ASSUME \/ ArchInitDone \/ Delay \/ DelayStep \/ Elapse \/ Tick
             \/ \E l \in Lines \ {0} : Raise(l)
             \/ Masks(imr') \/ pic_restore_real_mode_configuration
             \/ \E n \in Numbers :
                   register_interrupt_handler(n) \/ unregister_interrupt_handler(n)
             \/ UNCHANGED vars
      PROVE  Stacked'
  <2>1. UNCHANGED <<contexts, cascaded, spurious, intr>>
    BY <1>2 DEF ArchInitDone, Delay, DelayStep, Elapse, Tick, Raise, Masks,
       pic_restore_real_mode_configuration, Programmed, register_interrupt_handler,
       unregister_interrupt_handler, vars, chips, service
  <2> QED
    BY <1>0, <2>1, StackedStays
<1>3. ASSUME NEW l \in Lines, Accept(l) PROVE Stacked'
  <2>1. Pushes(32 + l, l) /\ intr /\ ~intr'
    BY <1>3, AcceptIs
  <2>2. l \in 0 .. 15 /\ l # None /\ 32 + l \in 32 .. 255
    BY LinesAre DEF None
  <2>3. (~cascaded' => ~cascaded /\ l \notin Slave) /\ UNCHANGED spurious
    BY <1>3 DEF Accept
  <2> QED
    BY <1>0, <2>1, <2>2, <2>3, StackedPushes
<1>4. ASSUME NEW n \in {39, 47, 255}, Spurious(n) PROVE Stacked'
  <2>1. Pushes(n, None) /\ intr /\ ~intr'
    BY <1>4, SpuriousIs
  <2>2. spurious' = spurious + 1 /\ UNCHANGED cascaded /\ (n = 255 => smp)
    BY <1>4 DEF Spurious
  <2>3. spurious' > 0 /\ None \notin Slave /\ n \in 32 .. 255
    BY <2>2 DEF Typed, Scalars, None, Slave
  <2> QED
    BY <1>0, <2>1, <2>2, <2>3, StackedPushes
<1>5. CASE Begin
  <2>1. Moves("call") /\ Current.at = "enter"
    BY <1>5, BeginIs DEF Begin, At
  <2>2. UNCHANGED <<intr, cascaded, spurious>>
    BY <1>5 DEF Begin
  <2> QED
    BY <1>0, <2>1, <2>2, StackedMoves DEF Places
<1>6. CASE CallHandler
  <2>1. Current.at = "call" /\ UNCHANGED <<intr, cascaded, spurious>>
    BY <1>6 DEF CallHandler, At, chips, service
  <2>2. CASE Moves("eoi")
    BY <1>0, <2>1, <2>2, StackedMoves DEF Places
  <2>3. CASE Moves("driver") /\ ~smp /\ Current.number \notin {39, 47}
    BY <1>0, <2>1, <2>3, StackedMoves DEF Places
  <2> QED
    BY <1>6, <2>2, <2>3, CallIs
<1>7. CASE timer_callback
  <2>1. Moves("eoi") /\ UNCHANGED <<intr, cascaded, spurious>>
    BY <1>7, TimerIs DEF timer_callback, chips, service
  <2> QED
    BY <1>0, <2>1, StackedMoves DEF Places
<1>8. CASE DriverReturns
  <2>1. Moves("eoi") /\ UNCHANGED <<intr, cascaded, spurious>>
    BY <1>8, ReturnsIs DEF DriverReturns, chips, service
  <2> QED
    BY <1>0, <2>1, StackedMoves DEF Places
<1>9. CASE SendEoi
  <2>1. Moves("iret") /\ UNCHANGED <<intr, cascaded, spurious>>
    BY <1>9, EoiIs DEF SendEoi
  <2> QED
    BY <1>0, <2>1, StackedMoves DEF Places
<1>10. CASE Iret
  <2>1. Pops /\ UNCHANGED <<cascaded, spurious>>
    BY <1>10, IretIs DEF Iret, chips, service
  <2> QED
    BY <1>0, <2>1, StackedPops
<1>11. CASE DriverPrints
  <2>1. /\ UNCHANGED <<contexts, cascaded, spurious>>
        /\ ~smp /\ contexts # <<>> /\ Current.at = "driver"
    BY <1>11 DEF DriverPrints, At, chips, service
  <2>2. Len(contexts) \in 1 .. Len(contexts) /\ Len(contexts) \in Nat
    BY <2>1, TopIs DEF Typed
  <2>3. Sound(contexts[Len(contexts)])
    BY <2>2 DEF Stacked
  <2>4. Suspended(contexts[Len(contexts)])
    BY <2>1, <2>3 DEF Sound, Suspended, Current
  <2>5. \A i \in 1 .. Len(contexts) : i < Len(contexts) \/ i = Len(contexts)
    BY <2>2
  <2>6. \A i \in 1 .. Len(contexts) : Sound(contexts[i]) /\ Suspended(contexts[i])
    BY <2>4, <2>5 DEF Stacked
  <2> QED
    BY <1>0, <2>1, <2>6 DEF Stacked, Sound, Suspended
<1>12. CASE Calls
  BY <1>2, <1>12, CallsAre
<1>13. CASE Next
  BY <1>1, <1>2, <1>3, <1>4, <1>5, <1>6, <1>7, <1>8, <1>9, <1>10, <1>11, <1>12, <1>13
     DEF Next, Delivery, Handling
<1> QED
  BY <1>2, <1>13

-----------------------------------------------------------------------------
(* The lines in service *)

\* Lines in service and requests are lines of the chips.
LEMMA InServiceAre == Typed => isr \subseteq 0 .. 15 /\ irr \subseteq 0 .. 15
  BY LinesAre, SMTT(30) DEF Typed, Scalars

\* The ghost of a spurious interrupt is no line.
LEMMA NoneIsNoLine == None \notin Master /\ None \notin Slave /\ None \notin 0 .. 15
  BY DEF None, Master, Slave

\* Lines of the slave need a handler of the slave.
LEMMA OnlyMaster ==
    ASSUME Typed, Stacked, Service, ~cascaded
    PROVE  isr \subseteq Master
<1> SUFFICES ASSUME NEW l \in isr PROVE l \in Master
  OBVIOUS
<1>1. l \in 0 .. 15
  BY LinesAre DEF Typed, Scalars
<1>2. CASE l = 2
  BY <1>2 DEF Master
<1>3. CASE l # 2
  <2>1. PICK i \in 1 .. Len(contexts) : contexts[i].line = l
    BY <1>3 DEF Service
  <2>2. l \notin Slave
    BY <2>1 DEF Stacked, Sound
  <2> QED
    BY <1>1, <2>2 DEF Master, Slave
<1> QED
  BY <1>2, <1>3

\* While interrupts are on, or the top handler is past its first steps, the
\* master does not wait for the slave.
LEMMA NoCascade ==
    ASSUME Typed, Stacked, Service, ~cascaded,
           intr \/ ~At("enter") \/ Current.number # 47
    PROVE  2 \notin isr
<1> SUFFICES ASSUME 2 \in isr PROVE FALSE
  OBVIOUS
<1>1. At("enter") /\ Current.number = 47
  BY DEF Service
<1>2. intr
  BY <1>1
<1>3. Len(contexts) \in 1 .. Len(contexts) /\ Current = contexts[Len(contexts)]
  BY <1>1, TopIs DEF At, Typed, Current
<1>4. Suspended(Current)
  BY <1>2, <1>3 DEF Stacked
<1> QED
  BY <1>1, <1>4 DEF Suspended

\* The top handler of a line in service has the lowest line in service.
LEMMA TopIsLowest ==
    ASSUME Typed, Stacked, Service, ~cascaded, contexts # <<>>, 2 \notin isr,
           Current.at # "iret", Current.line \in isr
    PROVE  \A k \in isr \intersect Master : Current.line <= k
<1>1. /\ Len(contexts) \in Nat /\ Len(contexts) \in 1 .. Len(contexts)
      /\ Current = contexts[Len(contexts)]
  BY TopIs DEF Typed, Current
<1> SUFFICES ASSUME NEW k \in isr \intersect Master, ~(Current.line <= k) PROVE FALSE
  OBVIOUS
<1>2. Current.line \in 0 .. 15 /\ k \in 0 .. 15
  BY InServiceAre
<1>3. k < Current.line /\ k # 2
  BY <1>2
<1>4. \E i \in Len(contexts) + 1 .. Len(contexts) : TRUE
  BY <1>1, <1>3 DEF Service
<1> QED
  BY <1>1, <1>4

\* What an acknowledgement takes: lines of its own only, and the line of its
\* handler does not stay.
LEMMA EoiReleases ==
    ASSUME Typed, Stacked, Service, ~cascaded, At("eoi")
    PROVE  /\ Acknowledged(Current.number) \subseteq isr
           /\ Current.line \notin Acknowledged(Current.number)
           /\ 2 \notin isr
           /\ Current.line \in isr => Acknowledged(Current.number) = isr \ {Current.line}
<1>1. isr \subseteq Master
  BY OnlyMaster
<1>2. 2 \notin isr
  BY NoCascade DEF At
<1>3. Acknowledged(Current.number) \subseteq isr
  BY EoiShrinks DEF Acknowledged
<1>4. CASE Current.line \notin isr
  BY <1>2, <1>3, <1>4
<1>5. CASE Current.line \in isr
  <2>1. contexts # <<>> /\ Current.at = "eoi" /\ Sound(Current)
    BY TopIs DEF At, Typed, Stacked, Current
  <2>2. \A k \in isr \intersect Master : Current.line <= k
    BY <1>2, <1>5, <2>1, TopIsLowest
  <2>3. Current.line \in Master /\ Current.line # None
    BY <1>1, <1>5, NoneIsNoLine
  <2>4. Current.number = 32 + Current.line
    BY <2>1, <2>3 DEF Sound
  <2>5. ~(Current.number >= 40)
    BY <2>3, <2>4 DEF Master
  <2>6. isr \subseteq 0 .. 15
    BY <1>1 DEF Master
  <2>7. Current.line \in isr \intersect Master
    BY <1>5, <2>3
  <2>8. AfterEoi(Master, isr) = isr \ {Current.line}
    BY <2>2, <2>6, <2>7, EoiTakesMin
  <2>9. Acknowledged(Current.number) = isr \ {Current.line}
    BY <2>5, <2>8 DEF Acknowledged
  <2> QED
    BY <1>2, <1>3, <2>9
<1> QED
  BY <1>4, <1>5

\* A step that leaves the stack and the chips alone.
LEMMA ServiceStays ==
    ASSUME Service, UNCHANGED <<contexts, isr, cascaded>>
    PROVE  Service'
  BY DEF Service, At, Current

\* No line in service.
LEMMA ServiceOfNone ==
    ASSUME isr' = {}
    PROVE  Service'
  BY DEF Service, Master

\* A step that moves the top handler on and gives lines back, its own one when
\* it is done.
LEMMA ServiceMoves ==
    ASSUME Typed, Stacked, Service, NEW place \in Places, Moves(place),
           UNCHANGED cascaded, ~cascaded => isr' \subseteq isr /\ 2 \notin isr',
           ~cascaded /\ place = "iret" => Current.line \notin isr',
           place # "iret" => Current.at # "iret"
    PROVE  Service'
<1> SUFFICES ASSUME ~cascaded PROVE Service'
  BY DEF Service
<1>0. /\ Len(contexts) \in Nat /\ Len(contexts) >= 1 /\ Len(contexts') = Len(contexts)
      /\ Current = contexts[Len(contexts)]
  BY TopIs DEF Typed, Current, Moves
<1>1. ASSUME NEW i \in 1 .. Len(contexts)
      PROVE  /\ contexts'[i].line = contexts[i].line
             /\ contexts[i].line \in isr' =>
                   (contexts'[i].at # "iret" <=> contexts[i].at # "iret")
  <2>1. CASE i < Len(contexts)
    <3>1. contexts'[i] = contexts[i]
      BY <1>0, <2>1 DEF Moves
    <3> QED
      BY <3>1
  <2>2. CASE i = Len(contexts)
    <3>1. contexts'[i].at = place /\ contexts'[i].line = Current.line /\ contexts[i] = Current
      BY <1>0, <2>2 DEF Moves
    <3> QED
      BY <3>1
  <2> QED
    BY <1>0, <2>1, <2>2
<1>2. ASSUME NEW l \in isr' \ {2}
      PROVE  \E i \in 1 .. Len(contexts) : contexts'[i].line = l /\ contexts'[i].at # "iret"
  <2>1. PICK i \in 1 .. Len(contexts) : contexts[i].line = l /\ contexts[i].at # "iret"
    BY DEF Service
  <2> QED
    BY <1>1, <2>1
<1>3. ASSUME NEW j \in 1 .. Len(contexts), NEW k \in (isr' \intersect Master) \ {2},
             contexts'[j].at # "iret", contexts'[j].line \in isr', k < contexts'[j].line
      PROVE  \E i \in j + 1 .. Len(contexts) : contexts'[i].line = k /\ contexts'[i].at # "iret"
  <2>1. contexts[j].at # "iret" /\ contexts[j].line \in isr /\ k < contexts[j].line
    BY <1>1, <1>3
  <2>2. PICK i \in j + 1 .. Len(contexts) : contexts[i].line = k /\ contexts[i].at # "iret"
    BY <2>1 DEF Service
  <2>3. i \in 1 .. Len(contexts)
    BY <1>0
  <2> QED
    BY <1>1, <2>2, <2>3
<1> QED
  BY <1>0, <1>2, <1>3 DEF Service

\* The top handler is done.
LEMMA ServicePops ==
    ASSUME Typed, Stacked, Service, Pops, At("iret"), UNCHANGED <<cascaded, isr>>
    PROVE  Service'
<1> SUFFICES ASSUME ~cascaded PROVE Service'
  BY DEF Service
<1>0. /\ Len(contexts) \in Nat /\ Len(contexts) >= 1 /\ Len(contexts') = Len(contexts) - 1
      /\ Current = contexts[Len(contexts)] /\ Current.at = "iret"
  BY TopIs DEF Typed, Current, Pops, At
<1>1. ASSUME NEW i \in 1 .. Len(contexts), contexts[i].at # "iret"
      PROVE  i \in 1 .. Len(contexts') /\ contexts'[i] = contexts[i]
  <2>1. i # Len(contexts)
    BY <1>0, <1>1
  <2>2. i \in 1 .. Len(contexts) - 1
    BY <1>0, <2>1
  <2> QED
    BY <1>0, <2>2 DEF Pops
<1>2. ASSUME NEW l \in isr' \ {2}
      PROVE  \E i \in 1 .. Len(contexts') : contexts'[i].line = l /\ contexts'[i].at # "iret"
  <2>1. PICK i \in 1 .. Len(contexts) : contexts[i].line = l /\ contexts[i].at # "iret"
    BY DEF Service
  <2> QED
    BY <1>1, <2>1
<1>3. ASSUME NEW j \in 1 .. Len(contexts'), NEW k \in (isr' \intersect Master) \ {2},
             contexts'[j].at # "iret", contexts'[j].line \in isr', k < contexts'[j].line
      PROVE  \E i \in j + 1 .. Len(contexts') : contexts'[i].line = k /\ contexts'[i].at # "iret"
  <2>1. j \in 1 .. Len(contexts) - 1 /\ j \in 1 .. Len(contexts) /\ j \in Nat
    BY <1>0
  <2>2. contexts'[j] = contexts[j]
    BY <2>1 DEF Pops
  <2>3. PICK i \in j + 1 .. Len(contexts) : contexts[i].line = k /\ contexts[i].at # "iret"
    BY <1>3, <2>1, <2>2 DEF Service
  <2>4. i \in 1 .. Len(contexts)
    BY <1>0, <2>1
  <2>5. i \in 1 .. Len(contexts') /\ contexts'[i] = contexts[i]
    BY <1>1, <2>3, <2>4
  <2>6. i \in j + 1 .. Len(contexts')
    BY <1>0, <2>1, <2>5
  <2> QED
    BY <2>3, <2>5, <2>6
<1>4. 2 \notin isr'
  BY NoCascade, <1>0 DEF At
<1> QED
  BY <1>2, <1>3, <1>4 DEF Service

\* A new handler for a line of the master below those in service.
LEMMA ServiceAccepts ==
    ASSUME Typed, Stages, Stacked, Service, NEW l \in Lines, Accept(l)
    PROVE  Service'
<1> SUFFICES ASSUME ~cascaded' PROVE Service'
  BY DEF Service
<1>0. l \in 0 .. 15 /\ l # 2
  BY LinesAre
<1>1. ~cascaded /\ l \in Master /\ isr' = isr \union {l}
  <2>1. ~cascaded /\ l \notin Slave
    BY DEF Accept
  <2>2. l \in Master
    BY <1>0, <2>1 DEF Master, Slave
  <2>3. isr' = isr \union {l}
    BY <2>2 DEF Accept, OnMaster
  <2> QED
    BY <2>1, <2>2, <2>3
<1>2. \A k \in isr \intersect Master : l < k
  BY <1>1 DEF Accept, Deliverable, OnMaster
<1>3. Pushes(32 + l, l) /\ intr /\ Len(contexts) \in Nat
  BY AcceptIs, LenProperties DEF Typed
<1>4. 2 \notin isr'
  BY <1>0, <1>1, <1>3, NoCascade
<1>5. isr \subseteq Master
  BY <1>1, OnlyMaster
<1> DEFINE n == Len(contexts) + 1
<1>6. /\ contexts'[n].line = l /\ contexts'[n].at = "enter"
      /\ \A i \in 1 .. Len(contexts) : contexts'[i] = contexts[i]
      /\ Len(contexts') = n
  BY <1>3 DEF Pushes
<1>7. ASSUME NEW k \in isr' \ {2}
      PROVE  \E i \in 1 .. n : contexts'[i].line = k /\ contexts'[i].at # "iret"
  <2>1. CASE k = l
    BY <1>3, <1>6, <2>1
  <2>2. CASE k # l
    <3>1. PICK i \in 1 .. Len(contexts) : contexts[i].line = k /\ contexts[i].at # "iret"
      BY <1>1, <2>2 DEF Service
    <3>2. i \in 1 .. n
      BY <1>3
    <3> QED
      BY <1>6, <3>1, <3>2
  <2> QED
    BY <2>1, <2>2
<1>8. ASSUME NEW j \in 1 .. n, NEW k \in (isr' \intersect Master) \ {2},
             contexts'[j].at # "iret", contexts'[j].line \in isr', k < contexts'[j].line
      PROVE  \E i \in j + 1 .. n : contexts'[i].line = k /\ contexts'[i].at # "iret"
  <2>0. \A x \in isr' : x \in 0 .. 15 /\ x \in Master
    BY <1>1, <1>5 DEF Master
  <2>1. contexts'[j].line # l
    <3>1. \A x \in isr' : l <= x
      <4> SUFFICES ASSUME NEW x \in isr' PROVE l <= x
        OBVIOUS
      <4>1. CASE x = l
        BY <1>0, <4>1
      <4>2. CASE x # l
        <5>1. x \in isr \intersect Master
          BY <1>1, <2>0, <4>2
        <5> QED
          BY <1>0, <1>2, <2>0, <5>1
      <4> QED
        BY <4>1, <4>2
    <3>2. l <= k /\ k \in Nat /\ l \in Nat
      BY <1>0, <1>8, <2>0, <3>1
    <3> QED
      BY <1>8, <3>2
  <2>2. j \in 1 .. Len(contexts) /\ contexts'[j] = contexts[j]
    BY <1>3, <1>6, <2>1
  <2>3. contexts[j].line \in isr
    BY <1>1, <1>8, <2>1, <2>2
  <2>4. CASE k = l
    <3>1. n \in j + 1 .. n
      BY <1>3, <2>2
    <3> QED
      BY <1>6, <2>4, <3>1
  <2>5. CASE k # l
    <3>1. k \in (isr \intersect Master) \ {2}
      BY <1>1, <2>5
    <3>2. PICK i \in j + 1 .. Len(contexts) : contexts[i].line = k /\ contexts[i].at # "iret"
      BY <1>1, <1>8, <2>2, <2>3, <3>1 DEF Service
    <3>3. i \in j + 1 .. n /\ i \in 1 .. Len(contexts)
      BY <1>3, <2>2
    <3> QED
      BY <1>6, <3>2, <3>3
  <2> QED
    BY <2>4, <2>5
<1> HIDE DEF n
<1> QED
  BY <1>4, <1>6, <1>7, <1>8 DEF Service

\* A new handler without a line; the master may wait for the slave.
LEMMA ServiceSpurious ==
    ASSUME Typed, Stacked, Service, NEW m \in {39, 47, 255}, Spurious(m)
    PROVE  Service'
<1> SUFFICES ASSUME ~cascaded' PROVE Service'
  BY DEF Service
<1>1. /\ ~cascaded /\ isr' \subseteq isr \union {2}
      /\ m = 47 => \A k \in isr \intersect Master : 2 < k
      /\ m # 47 => isr' = isr
  BY DEF Spurious
<1>2. Pushes(m, None) /\ intr /\ Len(contexts) \in Nat
  BY SpuriousIs, LenProperties DEF Typed
<1>3. 2 \notin isr
  BY <1>1, <1>2, NoCascade
<1>4. isr' \ {2} \subseteq isr /\ isr' \subseteq 0 .. 15
  BY <1>1, InServiceAre
<1>5. None \notin isr'
  BY <1>4, NoneIsNoLine
<1> DEFINE n == Len(contexts) + 1
<1>6. /\ contexts'[n].line = None /\ contexts'[n].at = "enter" /\ contexts'[n].number = m
      /\ \A i \in 1 .. Len(contexts) : contexts'[i] = contexts[i]
      /\ Len(contexts') = n /\ contexts' # <<>>
  BY <1>2 DEF Pushes
<1>7. ASSUME NEW k \in isr' \ {2}
      PROVE  \E i \in 1 .. n : contexts'[i].line = k /\ contexts'[i].at # "iret"
  <2>1. PICK i \in 1 .. Len(contexts) : contexts[i].line = k /\ contexts[i].at # "iret"
    BY <1>1, <1>4 DEF Service
  <2>2. i \in 1 .. n
    BY <1>2
  <2> QED
    BY <1>6, <2>1, <2>2
<1>8. ASSUME NEW j \in 1 .. n, NEW k \in (isr' \intersect Master) \ {2},
             contexts'[j].at # "iret", contexts'[j].line \in isr', k < contexts'[j].line
      PROVE  \E i \in j + 1 .. n : contexts'[i].line = k /\ contexts'[i].at # "iret"
  <2>1. j # n
    <3>1. contexts'[j].line \in isr'
      BY <1>8
    <3>2. ASSUME contexts'[j].line = None PROVE None \in isr'
      BY <3>1, <3>2
    <3>3. ASSUME j = n PROVE contexts'[j].line = None
      BY <1>6, <3>3
    <3> QED
      BY <1>5, <3>2, <3>3
  <2>2. j \in 1 .. Len(contexts) /\ contexts'[j] = contexts[j]
    BY <1>2, <1>6, <2>1
  <2>3. contexts[j].line # 2
    <3>1. contexts[j] \in Context
      BY <2>2, ElementOfSeq DEF Typed
    <3> QED
      BY <3>1, LinesAre DEF Context, None
  <2>4. contexts[j].line \in isr /\ k \in (isr \intersect Master) \ {2}
    BY <1>4, <1>8, <2>2, <2>3
  <2>5. PICK i \in j + 1 .. Len(contexts) : contexts[i].line = k /\ contexts[i].at # "iret"
    BY <1>1, <1>8, <2>2, <2>4 DEF Service
  <2>6. i \in j + 1 .. n /\ i \in 1 .. Len(contexts)
    BY <1>2, <2>2
  <2> QED
    BY <1>6, <2>5, <2>6
<1>9. ASSUME 2 \in isr'
      PROVE  At("enter")' /\ Current'.number = 47 /\ \A k \in isr' \intersect Master : 2 <= k
  <2>1. m = 47
    BY <1>1, <1>3, <1>9
  <2>2. \A k \in isr' \intersect Master : 2 <= k
    BY <1>1, <1>4, <2>1
  <2> QED
    BY <1>6, <2>1, <2>2 DEF At, Current
<1> HIDE DEF n
<1> QED
  BY <1>6, <1>7, <1>8, <1>9 DEF Service

\* Every step keeps the chips in agreement with the stack.
LEMMA ServiceKept ==
    ASSUME Typed, Stages, Registered, Stacked, Service, [Next]_vars
    PROVE  Service'
<1>1. ASSUME PicInit \/ pic_restore_real_mode_configuration PROVE Service'
  BY <1>1, ServiceOfNone DEF PicInit, pic_restore_real_mode_configuration, Programmed
<1>2. ASSUME \/ StartTimer \/ ArchInitDone \/ Delay \/ DelayStep \/ Elapse \/ Tick
             \/ \E l \in Lines \ {0} : Raise(l)
             \/ Masks(imr') \/ DriverPrints
             \/ \E n \in Numbers :
                   register_interrupt_handler(n) \/ unregister_interrupt_handler(n)
             \/ UNCHANGED vars
      PROVE  Service'
  <2>1. UNCHANGED <<contexts, isr, cascaded>>
    BY <1>2 DEF StartTimer, ArchInitDone, Delay, DelayStep, Elapse, Tick, Raise, Masks,
       DriverPrints, register_interrupt_handler, unregister_interrupt_handler, vars, chips, service
  <2> QED
    BY <2>1, ServiceStays
<1>3. ASSUME NEW l \in Lines, Accept(l) PROVE Service'
  BY <1>3, ServiceAccepts
<1>4. ASSUME NEW n \in {39, 47, 255}, Spurious(n) PROVE Service'
  BY <1>4, ServiceSpurious
<1>5. CASE Begin
  <2>1. Moves("call") /\ Current.at = "enter" /\ contexts # <<>> /\ UNCHANGED cascaded
    BY <1>5, BeginIs DEF Begin, At
  <2>2. isr' \subseteq isr
    BY <1>5, BeginIs, EoiShrinks
  <2>3. ASSUME ~cascaded PROVE 2 \notin isr'
    <3>1. CASE 2 \notin isr
      BY <2>2, <3>1
    <3>2. CASE 2 \in isr
      <4>1. Current.number = 47 /\ \A k \in isr \intersect Master : 2 <= k
        BY <2>3, <3>2 DEF Service
      <4>2. AfterEoi(Master, isr) = isr \ {2}
        BY <3>2, <4>1, InServiceAre, EoiTakesMin DEF Master
      <4>3. isr' = AfterEoi(Slave, AfterEoi(Master, isr))
        BY <1>5, <4>1, BeginIs
      <4> QED
        BY <4>2, <4>3, EoiShrinks
    <3> QED
      BY <3>1, <3>2
  <2> QED
    BY <2>1, <2>2, <2>3, ServiceMoves DEF Places
<1>6. ASSUME NEW place \in {"eoi", "driver"}, Moves(place),
             Current.at \in {"call", "driver"}, UNCHANGED <<cascaded, isr>>
      PROVE  Service'
  <2>1. contexts # <<>> /\ place \in Places /\ place # "iret"
    BY <1>6 DEF Moves, Places
  <2>2. ~cascaded => 2 \notin isr
    BY <1>6, NoCascade DEF At
  <2> QED
    BY <1>6, <2>1, <2>2, ServiceMoves
<1>7. CASE CallHandler
  BY <1>6, <1>7, CallIs DEF CallHandler, At, chips, service
<1>8. CASE timer_callback
  BY <1>6, <1>8, TimerIs DEF timer_callback, At, chips, service
<1>9. CASE DriverReturns
  BY <1>6, <1>9, ReturnsIs DEF DriverReturns, At, chips, service
<1>10. CASE SendEoi
  <2>1. Moves("iret") /\ At("eoi") /\ UNCHANGED cascaded /\ isr' = Acknowledged(Current.number)
    BY <1>10, EoiIs DEF SendEoi
  <2>2. ~cascaded => isr' \subseteq isr /\ 2 \notin isr' /\ Current.line \notin isr'
    BY <2>1, EoiReleases
  <2> QED
    BY <2>1, <2>2, ServiceMoves DEF Places
<1>11. CASE Iret
  BY <1>11, IretIs, ServicePops DEF Iret, chips, service
<1>12. CASE Calls
  BY <1>1, <1>2, <1>12, CallsAre
<1>13. CASE Next
  BY <1>1, <1>2, <1>3, <1>4, <1>5, <1>7, <1>8, <1>9, <1>10, <1>11, <1>12, <1>13
     DEF Next, Delivery, Handling
<1> QED
  BY <1>2, <1>13

-----------------------------------------------------------------------------
(* Without spurious interrupts *)

\* A step that leaves the stack and the chips alone keeps the match.
LEMMA ExactStays ==
    ASSUME Exact, UNCHANGED <<contexts, isr, cascaded, spurious>>
    PROVE  Exact'
  BY DEF Exact, Owes

\* The top handler moves on; the lines of the others stay in service.
LEMMA ExactMoves ==
    ASSUME Typed, Stacked, Exact, spurious = 0, ~cascaded,
           NEW place \in Places, Moves(place), place # "enter",
           place # "iret" => Current.at # "iret",
           \A i \in 1 .. Len(contexts) :
               i < Len(contexts) /\ Owes(contexts[i]) => contexts[i].line \in isr',
           Owes(Current) /\ place # "iret" => Current.line \in isr',
           Current.number = 39 => isr' \intersect Master = {}
    PROVE  Exact'
<1>0. /\ Len(contexts) \in Nat /\ Len(contexts) >= 1 /\ Len(contexts') = Len(contexts)
      /\ Current = contexts[Len(contexts)]
  BY TopIs DEF Typed, Current, Moves
<1>1. ASSUME NEW i \in 1 .. Len(contexts)
      PROVE  /\ contexts'[i].line = contexts[i].line
             /\ Owes(contexts'[i]) => Owes(contexts[i]) /\ contexts[i].line \in isr'
             /\ contexts'[i].number = 39 =>
                   isr' \intersect Master = {} /\ contexts'[i].at # "enter"
  <2>1. CASE i < Len(contexts)
    <3>1. contexts'[i] = contexts[i]
      BY <1>0, <2>1 DEF Moves
    <3>2. contexts[i].number # 39
      BY <2>1 DEF Stacked, Suspended
    <3> QED
      BY <2>1, <3>1, <3>2
  <2>2. CASE i = Len(contexts)
    <3>1. /\ contexts'[i].at = place /\ contexts'[i].line = Current.line
          /\ contexts'[i].number = Current.number /\ contexts[i] = Current
      BY <1>0, <2>2 DEF Moves
    <3> QED
      BY <3>1 DEF Owes
  <2> QED
    BY <1>0, <2>1, <2>2
<1>2. ASSUME NEW i \in 1 .. Len(contexts), NEW j \in 1 .. Len(contexts),
             i < j, Owes(contexts'[i]), Owes(contexts'[j])
      PROVE  contexts'[j].line < contexts'[i].line
  BY <1>1, <1>2 DEF Exact
<1> QED
  BY <1>0, <1>1, <1>2 DEF Exact

\* A return keeps the match: the handler owed nothing.
LEMMA ExactPops ==
    ASSUME Typed, Stacked, Exact, Pops, UNCHANGED <<cascaded, spurious, isr>>
    PROVE  Exact'
<1>0. Len(contexts) \in Nat /\ Len(contexts) >= 1 /\ Len(contexts') = Len(contexts) - 1
  BY TopIs DEF Typed, Pops
<1>1. ASSUME NEW i \in 1 .. Len(contexts')
      PROVE  /\ i \in 1 .. Len(contexts) /\ contexts'[i] = contexts[i]
             /\ contexts[i].number # 39
  <2>1. i \in 1 .. Len(contexts) - 1 /\ i \in 1 .. Len(contexts) /\ i < Len(contexts)
    BY <1>0
  <2> QED
    BY <2>1 DEF Pops, Stacked, Suspended
<1> QED
  BY <1>1 DEF Exact

\* A new handler keeps the match: its line is below those in service.
LEMMA ExactAccepts ==
    ASSUME Typed, Stages, Stacked, Service, Exact, NEW l \in Lines, Accept(l)
    PROVE  Exact'
<1> SUFFICES ASSUME spurious' = 0, ~cascaded' PROVE Exact'
  BY DEF Exact
<1>0. l \in 0 .. 15 /\ l # 2
  BY LinesAre
<1>1. ~cascaded /\ l \in Master /\ isr' = isr \union {l} /\ spurious = 0
  <2>1. ~cascaded /\ l \notin Slave /\ spurious = 0
    BY DEF Accept
  <2>2. l \in Master
    BY <1>0, <2>1 DEF Master, Slave
  <2>3. isr' = isr \union {l}
    BY <2>2 DEF Accept, OnMaster
  <2> QED
    BY <2>1, <2>2, <2>3
<1>2. \A k \in isr \intersect Master : l < k
  BY <1>1 DEF Accept, Deliverable, OnMaster
<1>3. Pushes(32 + l, l) /\ intr /\ Len(contexts) \in Nat
  BY AcceptIs, LenProperties DEF Typed
<1>5. isr \subseteq Master
  BY <1>1, OnlyMaster
<1> DEFINE n == Len(contexts) + 1
<1>6. /\ contexts'[n].line = l /\ contexts'[n].at = "enter" /\ contexts'[n].number = 32 + l
      /\ \A i \in 1 .. Len(contexts) : contexts'[i] = contexts[i]
      /\ Len(contexts') = n
  BY <1>3 DEF Pushes
<1>7. ASSUME NEW i \in 1 .. Len(contexts)
      PROVE  contexts[i].number # 39 /\ (Owes(contexts[i]) => contexts[i].line \in isr)
  BY <1>1, <1>3 DEF Stacked, Suspended, Exact
<1>8. \A i \in 1 .. n : i \in 1 .. Len(contexts) \/ i = n
  BY <1>3
<1>9. ASSUME NEW i \in 1 .. n, NEW j \in 1 .. n, i < j, Owes(contexts'[i]), Owes(contexts'[j])
      PROVE  contexts'[j].line < contexts'[i].line
  <2>1. i \in 1 .. Len(contexts) /\ contexts'[i] = contexts[i]
    BY <1>3, <1>6, <1>9
  <2>2. CASE j = n
    <3>1. contexts[i].line \in isr \intersect Master
      BY <1>5, <1>7, <1>9, <2>1
    <3> QED
      BY <1>2, <1>6, <2>1, <2>2, <3>1
  <2>3. CASE j # n
    <3>1. j \in 1 .. Len(contexts) /\ contexts'[j] = contexts[j]
      BY <1>6, <1>8, <2>3
    <3> QED
      BY <1>1, <1>9, <2>1, <3>1 DEF Exact
  <2> QED
    BY <2>2, <2>3
<1>10. ASSUME NEW i \in 1 .. n
       PROVE  Owes(contexts'[i]) => contexts'[i].line \in isr'
  BY <1>1, <1>6, <1>7, <1>8
<1>11. ASSUME NEW i \in 1 .. n, contexts'[i].number = 39
       PROVE  contexts'[i].at = "enter" /\ isr' \intersect Master = {7}
  <2>1. i = n
    BY <1>6, <1>7, <1>8, <1>11
  <2>2. l = 7
    BY <1>0, <1>6, <1>11, <2>1, SMTT(30)
  <2>3. \A k \in Master : ~(7 < k)
    BY DEF Master
  <2>4. isr \intersect Master = {} /\ 7 \in Master
    BY <1>2, <2>2, <2>3 DEF Master
  <2> QED
    BY <1>1, <1>6, <2>1, <2>2, <2>4
<1> HIDE DEF n
<1> QED
  BY <1>6, <1>9, <1>10, <1>11 DEF Exact

\* The handler of line 15 is the slave's.
LEMMA NotTheSlaves ==
    ASSUME Typed, Stacked, spurious = 0, ~cascaded, contexts # <<>>
    PROVE  Current.number # 47
<1>1. Sound(Current) /\ Current \in Context
  BY TopIs DEF Typed, Stacked, Current
<1>2. Current.line # None
  BY <1>1 DEF Sound
<1>3. Current.number = 32 + Current.line /\ Current.line \in 0 .. 15
  BY <1>1, <1>2, LinesAre DEF Sound, Context
<1>4. Current.line \notin Slave
  BY <1>1 DEF Sound
<1> QED
  BY <1>3, <1>4 DEF Slave

\* What the first acknowledgement of 39 takes: line 7, which is the only one.
LEMMA BeginTakes ==
    ASSUME Typed, Stacked, Service, Exact, spurious = 0, ~cascaded, Begin
    PROVE  /\ Current.number # 39 => isr' = isr
           /\ Current.number = 39 => /\ isr = {7} /\ isr' = {} /\ Current.line = 7
<1>0. contexts # <<>> /\ Current.at = "enter"
  BY DEF Begin, At
<1>1. /\ Current = contexts[Len(contexts)] /\ Sound(Current) /\ Current \in Context
      /\ Len(contexts) \in 1 .. Len(contexts)
  BY <1>0, TopIs DEF Typed, Stacked, Current
<1>2. Current.number # 39 => isr' = isr
  BY <1>0, BeginIs, NotTheSlaves
<1>3. ASSUME Current.number = 39 PROVE isr = {7} /\ isr' = {} /\ Current.line = 7
  <2>1. isr \intersect Master = {7}
    BY <1>0, <1>1, <1>3 DEF Exact
  <2>2. isr = {7}
    BY <2>1, OnlyMaster
  <2>3. isr' = AfterEoi(Master, isr)
    BY <1>3, BeginIs
  <2>4. AfterEoi(Master, isr) = isr \ {7}
    BY <2>1, <2>2, EoiTakesMin
  <2>5. Current.line # None
    BY <1>1 DEF Sound
  <2>6. Current.line = 7
    <3>1. Current.number = 32 + Current.line /\ Current.line \in 0 .. 15
      BY <1>1, <2>5, LinesAre DEF Sound, Context
    <3> QED
      BY <1>3, <3>1
  <2> QED
    BY <2>2, <2>3, <2>4, <2>6
<1> QED
  BY <1>2, <1>3

\* What SendEoi takes: the line of its handler, and nothing for 39.
LEMMA EoiTakes ==
    ASSUME Typed, Stacked, Service, Exact, spurious = 0, ~cascaded, SendEoi
    PROVE  /\ Current.number = 39 => isr' = isr /\ isr \intersect Master = {}
           /\ Current.number # 39 => Current.line \in isr /\ isr' = isr \ {Current.line}
<1>0. At("eoi") /\ contexts # <<>> /\ Current.at = "eoi" /\ isr' = Acknowledged(Current.number)
  BY DEF SendEoi, At
<1>1. /\ Current = contexts[Len(contexts)] /\ Len(contexts) \in 1 .. Len(contexts)
  BY <1>0, TopIs DEF Typed, Current
<1>2. ASSUME Current.number = 39 PROVE isr' = isr /\ isr \intersect Master = {}
  <2>1. isr \intersect Master = {}
    BY <1>0, <1>1, <1>2 DEF Exact
  <2> QED
    BY <1>0, <1>2, <2>1 DEF Acknowledged, AfterEoi
<1>3. ASSUME Current.number # 39 PROVE Current.line \in isr
  BY <1>0, <1>1, <1>3 DEF Exact, Owes
<1> QED
  BY <1>0, <1>2, <1>3, EoiReleases

\* Every step keeps the match of handlers and lines.
LEMMA ExactKept ==
    ASSUME Typed, Stages, Registered, Stacked, Service, Exact, [Next]_vars
    PROVE  Exact'
<1>1. ASSUME PicInit \/ pic_restore_real_mode_configuration PROVE Exact'
  <2>1. contexts' = <<>>
    BY <1>1 DEF PicInit, pic_restore_real_mode_configuration, Caller, Stages
  <2> QED
    BY <2>1, EmptySeq DEF Exact
<1>2. ASSUME \/ StartTimer \/ ArchInitDone \/ Delay \/ DelayStep \/ Elapse \/ Tick
             \/ \E l \in Lines \ {0} : Raise(l)
             \/ Masks(imr') \/ DriverPrints
             \/ \E n \in Numbers :
                   register_interrupt_handler(n) \/ unregister_interrupt_handler(n)
             \/ UNCHANGED vars
      PROVE  Exact'
  <2>1. UNCHANGED <<contexts, isr, cascaded, spurious>>
    BY <1>2 DEF StartTimer, ArchInitDone, Delay, DelayStep, Elapse, Tick, Raise, Masks,
       DriverPrints, register_interrupt_handler, unregister_interrupt_handler, vars, chips, service
  <2> QED
    BY <2>1, ExactStays
<1>3. ASSUME NEW l \in Lines, Accept(l) PROVE Exact'
  BY <1>3, ExactAccepts
<1>4. ASSUME NEW n \in {39, 47, 255}, Spurious(n) PROVE Exact'
  <2>1. spurious' # 0
    BY <1>4 DEF Spurious, Typed, Scalars
  <2> QED
    BY <2>1 DEF Exact
<1>5. ASSUME Handling PROVE Exact'
  <2> SUFFICES ASSUME spurious' = 0, ~cascaded' PROVE Exact'
    BY DEF Exact
  <2>1. spurious = 0 /\ ~cascaded /\ UNCHANGED <<spurious, cascaded>>
    BY <1>5 DEF Handling, Begin, CallHandler, timer_callback, DriverReturns, SendEoi, Iret,
       chips, service
  <2>2. contexts # <<>>
    BY <1>5 DEF Handling, Begin, CallHandler, timer_callback, DriverReturns, SendEoi, Iret, At
  <2>3. Current = contexts[Len(contexts)] /\ Len(contexts) \in 1 .. Len(contexts)
    BY <2>2, TopIs DEF Typed, Current
  <2>4. \A i \in 1 .. Len(contexts) : Owes(contexts[i]) => contexts[i].line \in isr
    BY <2>1 DEF Exact
  <2>5. CASE Begin
    <3>1. Moves("call") /\ Current.at = "enter"
      BY <2>5, BeginIs DEF Begin, At
    <3>2. CASE Current.number # 39
      <4>1. isr' = isr
        BY <2>1, <2>5, <3>2, BeginTakes
      <4>2. Owes(Current) => Current.line \in isr'
        BY <2>3, <2>4, <4>1
      <4> QED
        BY <2>1, <2>4, <3>1, <3>2, <4>1, <4>2, ExactMoves DEF Places
    <3>3. CASE Current.number = 39
      <4>1. isr = {7} /\ isr' = {}
        BY <2>1, <2>5, <3>3, BeginTakes
      <4>2. ASSUME NEW i \in 1 .. Len(contexts), Owes(contexts[i]) PROVE FALSE
        <5>1. contexts[i].line = 7 /\ Sound(contexts[i])
          BY <2>4, <4>1, <4>2 DEF Stacked
        <5>2. contexts[i].number = 39
          BY <5>1 DEF Sound, None
        <5> QED
          BY <4>2, <5>2 DEF Owes
      <4>3. ~Owes(Current)
        BY <2>3, <4>2
      <4> QED
        BY <2>1, <3>1, <4>1, <4>2, <4>3, ExactMoves DEF Places
    <3> QED
      BY <3>2, <3>3
  <2>6. ASSUME NEW place \in {"eoi", "driver"}, Moves(place),
               Current.at \in {"call", "driver"}, UNCHANGED isr
        PROVE  Exact'
    <3>1. place \in Places /\ place # "enter" /\ Current.at # "enter" /\ Current.at # "iret"
      BY <2>6 DEF Places
    <3>2. Current.number = 39 => isr' \intersect Master = {}
      BY <2>1, <2>3, <2>6, <3>1 DEF Exact
    <3>3. Owes(Current) => Current.line \in isr'
      BY <2>3, <2>4, <2>6
    <3> QED
      BY <2>1, <2>4, <2>6, <3>1, <3>2, <3>3, ExactMoves
  <2>7. CASE CallHandler
    BY <2>6, <2>7, CallIs DEF CallHandler, At, chips, service
  <2>8. CASE timer_callback
    BY <2>6, <2>8, TimerIs DEF timer_callback, At, chips, service
  <2>9. CASE DriverReturns
    BY <2>6, <2>9, ReturnsIs DEF DriverReturns, At, chips, service
  <2>10. CASE SendEoi
    <3>1. Moves("iret") /\ Current.at = "eoi"
      BY <2>10, EoiIs DEF SendEoi, At
    <3>2. CASE Current.number = 39
      <4>1. isr' = isr /\ isr \intersect Master = {}
        BY <2>1, <2>10, <3>2, EoiTakes
      <4> QED
        BY <2>1, <2>4, <3>1, <4>1, ExactMoves DEF Places
    <3>3. CASE Current.number # 39
      <4>1. Owes(Current) /\ isr' = isr \ {Current.line}
        BY <2>1, <2>10, <3>1, <3>3, EoiTakes DEF Owes
      <4>2. ASSUME NEW i \in 1 .. Len(contexts), i < Len(contexts), Owes(contexts[i])
            PROVE  contexts[i].line \in isr'
        <5>1. Current.line < contexts[i].line
          BY <2>1, <2>3, <4>1, <4>2 DEF Exact
        <5>2. contexts[i].line \in isr /\ isr \subseteq 0 .. 15
          BY <2>4, <4>2, InServiceAre
        <5> QED
          BY <4>1, <5>1, <5>2
      <4> QED
        BY <2>1, <3>1, <3>3, <4>2, ExactMoves DEF Places
    <3> QED
      BY <3>2, <3>3
  <2>11. CASE Iret
    BY <2>11, IretIs, ExactPops DEF Iret, chips, service
  <2> QED
    BY <1>5, <2>5, <2>7, <2>8, <2>9, <2>10, <2>11 DEF Handling
<1>6. CASE Calls
  BY <1>1, <1>2, <1>6, CallsAre
<1>7. CASE Next
  BY <1>1, <1>2, <1>3, <1>4, <1>5, <1>6, <1>7 DEF Next, Delivery
<1> QED
  BY <1>2, <1>7

\* A step takes no line out of service but that of the running handler.
LEMMA AcknowledgedStep ==
    ASSUME IInv, Next, contexts # <<>>, spurious = 0, ~cascaded
    PROVE  isr \ isr' \subseteq {Current.line}
<1> USE DEF IInv
<1>1. ASSUME \/ StartTimer \/ ArchInitDone \/ Delay \/ DelayStep \/ Elapse \/ Tick
             \/ \E l \in Lines \ {0} : Raise(l)
             \/ Delivery \/ \E n \in {39, 47, 255} : Spurious(n)
             \/ Masks(imr') \/ DriverPrints
             \/ CallHandler \/ timer_callback \/ DriverReturns \/ Iret
             \/ \E n \in Numbers :
                   register_interrupt_handler(n) \/ unregister_interrupt_handler(n)
      PROVE  isr \subseteq isr'
  BY <1>1 DEF StartTimer, ArchInitDone, Delay, DelayStep, Elapse, Tick, Raise, Masks,
     Delivery, Accept, Spurious, CallHandler, timer_callback, DriverReturns, Iret,
     DriverPrints, register_interrupt_handler, unregister_interrupt_handler, chips, service
<1>2. ~PicInit /\ ~pic_restore_real_mode_configuration
  BY DEF PicInit, pic_restore_real_mode_configuration, Caller, Stages
<1>3. CASE Begin
  BY <1>3, BeginTakes
<1>4. CASE SendEoi
  BY <1>4, EoiTakes
<1>5. CASE Calls
  BY <1>1, <1>2, <1>5, CallsAre
<1> QED
  BY <1>1, <1>2, <1>3, <1>4, <1>5 DEF Next, Handling

-----------------------------------------------------------------------------
(* The clock of the boot *)

\* A product, one further.
LEMMA NextProduct == \A x \in Int, F \in Nat : (x - 1) * F + F = x * F
  OBVIOUS

\* A product grows with its factor.
LEMMA Products == \A x, y \in Int, F \in Nat : x <= y => x * F <= y * F
<1> SUFFICES ASSUME NEW x \in Int, NEW y \in Int, NEW F \in Nat, x <= y PROVE x * F <= y * F
  OBVIOUS
<1>1. PICK d \in Nat : y = x + d
  <2>1. y - x \in Nat /\ y = x + (y - x)
    OBVIOUS
  <2> QED
    BY <2>1
<1>2. (x + d) * F = x * F + d * F /\ d * F \in Nat /\ x * F \in Int
  OBVIOUS
<1> QED
  BY <1>1, <1>2

\* What the clock adds up are numbers.
LEMMA ClockTyped ==
    ASSUME Typed
    PROVE  /\ Pending \in {0, 1} /\ Ticks \in Int
           /\ wait.at \in {"no", "check", "hlt", "halted"} /\ wait.ms \in Nat /\ wait.end \in Nat
           /\ wait.due \in Nat /\ wait.due <= Fractions
           /\ elapsed_milliseconds \in Nat /\ took \in Nat
           /\ age \in Nat /\ age <= Fractions /\ Fractions \in Nat /\ Fractions > 0
<1>1. Pending \in {0, 1}
  BY DEF Pending
<1>2. wait.ms \in Nat /\ wait.end \in Nat /\ wait.at \in {"no", "check", "hlt", "halted"}
  BY DEF Typed, Scalars, WaitRecord
<1>3. elapsed_milliseconds \in Nat /\ took \in Nat /\ age \in 0 .. Fractions
  BY DEF Typed, Scalars, WaitRecord
<1>4. Fractions \in Nat /\ Fractions > 0
  BY BoundAssumption
<1>5. age \in Nat /\ age <= Fractions
  BY <1>3, <1>4
<1>6. Ticks \in Int
  BY <1>1, <1>2, <1>3 DEF Ticks
<1>7. wait.due \in Nat /\ wait.due <= Fractions
  <2>1. wait.due \in 0 .. Fractions
    BY DEF Typed, Scalars, WaitRecord
  <2> QED
    BY <1>4, <2>1
<1> QED
  BY <1>1, <1>2, <1>3, <1>4, <1>5, <1>6, <1>7

\* A step that serves no tick: what is pending may be dropped, not added.
LEMMA ClockStays ==
    ASSUME Typed, Typed', Clock, phase = "starting",
           Unserved' => Unserved, 0 \in irr' => 0 \in irr,
           UNCHANGED <<elapsed_milliseconds, age, took>>,
           wait'.ms = wait.ms, wait'.end = wait.end, wait'.due = wait.due,
           wait'.at # "no" => wait.at # "no"
    PROVE  Clock'
<1>1. Pending' <= Pending /\ (Pending' = 1 => Pending = 1)
  BY DEF Pending
<1>2. Pending' = 1 => age' = 0
  BY <1>1 DEF Clock
<1>3. ~(0 \in irr' /\ Unserved')
  BY DEF Clock
<1>4. ASSUME wait'.at # "no"
      PROVE  /\ elapsed_milliseconds' >= wait'.end - wait'.ms
             /\ \/ took' = wait'.ms * Fractions
                \/ took' >= Ticks' * Fractions + age' + wait'.due
  <2>1. elapsed_milliseconds >= wait.end - wait.ms
    BY <1>4 DEF Clock
  <2>2. took = wait.ms * Fractions \/ took >= Ticks * Fractions + age + wait.due
    BY <1>4 DEF Clock, Ticks
  <2>3. Ticks' <= Ticks /\ Ticks' \in Int /\ Ticks \in Int /\ Fractions \in Nat
    <3>1. Pending \in {0, 1} /\ Pending' \in {0, 1}
      BY DEF Pending
    <3> QED
      BY <1>1, <3>1, ClockTyped DEF Ticks
  <2>4. Ticks' * Fractions <= Ticks * Fractions
    BY <2>3, Products
  <2>5. Ticks' * Fractions \in Int /\ Ticks * Fractions \in Int
    BY <2>3
  <2> QED
    BY <2>1, <2>2, <2>4, <2>5, ClockTyped
<1> QED
  BY <1>2, <1>3, <1>4 DEF Clock, Ticks

\* A new handler's request is pending like before.
LEMMA UnservedPushes ==
    ASSUME Typed, NEW n, NEW line, Pushes(n, line)
    PROVE  Unserved' <=> Unserved \/ n = 32
<1>0. Len(contexts) \in Nat /\ Len(contexts') = Len(contexts) + 1
  BY LenProperties DEF Typed, Pushes
<1>1. /\ contexts'[Len(contexts) + 1].number = n /\ contexts'[Len(contexts) + 1].at = "enter"
      /\ \A i \in 1 .. Len(contexts) : contexts'[i] = contexts[i]
  BY DEF Pushes
<1>2. ASSUME Unserved' PROVE Unserved \/ n = 32
  <2>1. PICK i \in 1 .. Len(contexts') :
           contexts'[i].number = 32 /\ contexts'[i].at \in {"enter", "call"}
    BY <1>2 DEF Unserved
  <2>2. CASE i = Len(contexts) + 1
    BY <1>1, <2>1, <2>2
  <2>3. CASE i # Len(contexts) + 1
    <3>1. i \in 1 .. Len(contexts)
      BY <1>0, <2>3
    <3> QED
      BY <1>1, <2>1, <3>1 DEF Unserved
  <2> QED
    BY <2>2, <2>3
<1>3. ASSUME Unserved PROVE Unserved'
  <2>1. PICK i \in 1 .. Len(contexts) :
           contexts[i].number = 32 /\ contexts[i].at \in {"enter", "call"}
    BY <1>3 DEF Unserved
  <2>2. i \in 1 .. Len(contexts')
    BY <1>0
  <2> QED
    BY <1>1, <2>1, <2>2 DEF Unserved
<1>4. ASSUME n = 32 PROVE Unserved'
  <2>1. Len(contexts) + 1 \in 1 .. Len(contexts')
    BY <1>0
  <2> QED
    BY <1>1, <1>4, <2>1 DEF Unserved
<1> QED
  BY <1>2, <1>3, <1>4

\* A step of the top handler takes no tick.
LEMMA UnservedMoves ==
    ASSUME Typed, NEW place \in Places, Moves(place), Unserved',
           place = "call" => Current.at = "enter", place # "enter"
    PROVE  Unserved
<1>0. Len(contexts) \in Nat /\ Len(contexts') = Len(contexts) /\ Current = contexts[Len(contexts)]
  BY LenProperties DEF Typed, Moves, Current
<1>1. PICK i \in 1 .. Len(contexts) :
         contexts'[i].number = 32 /\ contexts'[i].at \in {"enter", "call"}
  BY <1>0 DEF Unserved
<1>2. CASE i = Len(contexts)
  <2>1. contexts'[i].at = place /\ contexts[i].number = contexts'[i].number /\ contexts[i] = Current
    BY <1>0, <1>2 DEF Moves
  <2> QED
    BY <1>1, <2>1 DEF Unserved
<1>3. CASE i # Len(contexts)
  <2>1. i \in 1 .. Len(contexts) - 1
    BY <1>0, <1>3
  <2>2. contexts'[i] = contexts[i]
    BY <2>1 DEF Moves
  <2> QED
    BY <1>1, <2>2 DEF Unserved
<1> QED
  BY <1>2, <1>3

\* A return takes no tick.
LEMMA UnservedPops ==
    ASSUME Typed, Pops, Unserved' PROVE Unserved
<1>0. Len(contexts) \in Nat /\ Len(contexts') = Len(contexts) - 1
  BY LenProperties DEF Typed, Pops
<1>1. PICK i \in 1 .. Len(contexts') :
         contexts'[i].number = 32 /\ contexts'[i].at \in {"enter", "call"}
  BY DEF Unserved
<1>2. i \in 1 .. Len(contexts) - 1 /\ i \in 1 .. Len(contexts)
  BY <1>0
<1>3. contexts'[i] = contexts[i]
  BY <1>2 DEF Pops
<1> QED
  BY <1>1, <1>2, <1>3 DEF Unserved

\* Between interrupts nothing has been taken and not served.
LEMMA NoneUnserved == /\ contexts = <<>> => ~Unserved
                      /\ contexts' = <<>> => ~Unserved'
  BY EmptySeq DEF Unserved

\* With several processors a handler is never interrupted.
LEMMA OnlyOne ==
    ASSUME Typed, Stacked, smp
    PROVE  \A i \in 1 .. Len(contexts) : i = Len(contexts)
  BY LenProperties DEF Typed, Stacked, Suspended

\* A delay begins: at most one tick is pending.
LEMMA ClockDelays ==
    ASSUME Typed, Typed', Clock, Delay
    PROVE  Clock'
<1>1. /\ contexts = <<>> /\ contexts' = contexts /\ irr' = irr /\ phase = "starting"
      /\ took' = 0 /\ wait'.end = elapsed_milliseconds + wait'.ms
      /\ wait'.due = IF 0 \in irr THEN 0 ELSE Fractions - age
      /\ age' = age /\ elapsed_milliseconds' = elapsed_milliseconds
  BY DEF Delay, MainRuns, chips, clock
<1>2. ~Unserved /\ ~Unserved' /\ Pending' = Pending
  BY <1>1, NoneUnserved DEF Pending
<1>3. Pending = 1 => age = 0
  BY <1>1 DEF Clock
<1>4. elapsed_milliseconds' - (wait'.end - wait'.ms) = 0
  <2>1. wait'.ms \in Nat /\ elapsed_milliseconds \in Nat
    BY DEF Typed, Scalars, WaitRecord
  <2> QED
    BY <1>1, <2>1
<1>5. Ticks' = Pending - 1
  BY <1>2, <1>4, ClockTyped DEF Ticks
<1>6. 0 >= Ticks' * Fractions + age + wait'.due
  <2>1. CASE Pending = 1
    <3>1. wait'.due = 0
      BY <1>1, <1>2, <2>1 DEF Pending
    <3> QED
      BY <1>3, <1>5, <2>1, <3>1, ClockTyped
  <2>2. CASE Pending = 0
    <3>1. Ticks' = -1 /\ (-1) * Fractions = -Fractions
      BY <1>5, <2>2, ClockTyped
    <3>2. wait'.due = Fractions - age
      BY <1>1, <1>2, <2>2 DEF Pending
    <3> QED
      BY <3>1, <3>2, ClockTyped
  <2> QED
    BY <2>1, <2>2, ClockTyped
<1>7. elapsed_milliseconds' >= wait'.end - wait'.ms
  <2>1. wait'.ms \in Nat /\ elapsed_milliseconds \in Nat
    BY DEF Typed, Scalars, WaitRecord
  <2> QED
    BY <1>1, <2>1
<1> QED
  BY <1>1, <1>2, <1>3, <1>6, <1>7 DEF Clock

\* Time passes: no tick is pending, because line 0 is unmasked and nothing is
\* in service.
LEMMA ClockElapses ==
    ASSUME Typed, Typed', Stages, Service, Clock, Elapse
    PROVE  Clock'
<1>1. /\ contexts = <<>> /\ contexts' = contexts /\ irr' = irr /\ isr' = isr
      /\ phase = "starting" /\ wait' = wait /\ elapsed_milliseconds' = elapsed_milliseconds
  BY DEF Elapse, MainRuns, chips, service, clock
<1>2. ~Unserved /\ ~Unserved'
  BY <1>1, NoneUnserved
<1>3. 0 \notin irr
  <2>1. 0 \notin imr /\ isr \subseteq {0} /\ ~cascaded
    BY <1>1 DEF Stages
  <2>2. 0 \notin isr
    BY <1>1, <2>1, EmptySeq DEF Service
  <2>3. isr = {}
    BY <2>1, <2>2
  <2>4. 0 \in irr => Deliverable(0)
    BY <2>1, <2>3 DEF Deliverable, Slave
  <2> QED
    BY <2>4 DEF Elapse
<1>4. Pending = 0 /\ Pending' = 0 /\ Ticks' = Ticks
  BY <1>1, <1>2, <1>3 DEF Pending, Ticks
<1>5. ASSUME wait.at # "no"
      PROVE  took' = wait.ms * Fractions \/ took' >= Ticks * Fractions + age' + wait.due
  <2>1. took' = Min({took + 1, wait.ms * Fractions}) /\ (age' = age + 1 \/ age' = age)
    BY <1>5 DEF Elapse
  <2>2. /\ took \in Nat /\ took + 1 \in Nat /\ age \in Nat
        /\ wait.ms * Fractions \in Nat /\ Ticks * Fractions + wait.due \in Int
    BY ClockTyped
  <2>3. took' \in {took + 1, wait.ms * Fractions} /\ took' <= wait.ms * Fractions
    BY <2>1, <2>2, MinOfTwo
  <2>4. took = wait.ms * Fractions \/ took >= Ticks * Fractions + age + wait.due
    BY <1>1, <1>5 DEF Clock
  <2> DEFINE P == wait.ms * Fractions
             Q == Ticks * Fractions + wait.due
  <2> HIDE DEF P, Q
  <2>5. took \in Nat /\ P \in Nat /\ Q \in Int /\ age \in Nat
    BY <2>2 DEF P, Q
  <2>6. took' \in {took + 1, P} /\ took' <= P /\ (took = P \/ took >= Q + age)
    BY <2>3, <2>4, ClockTyped DEF P, Q
  <2>7. took' = P \/ took' >= Q + age'
    BY <2>1, <2>5, <2>6
  <2> QED
    BY <2>1, <2>7, ClockTyped DEF P, Q
<1>6. wait.at # "no" => elapsed_milliseconds >= wait.end - wait.ms
  BY <1>1 DEF Clock
<1> QED
  BY <1>1, <1>2, <1>4, <1>5, <1>6 DEF Clock

\* A tick comes: a whole period has passed.
LEMMA ClockTicks ==
    ASSUME Typed, Typed', Clock, Tick, phase = "starting"
    PROVE  Clock'
<1>1. /\ contexts' = contexts /\ irr' = irr \union {0} /\ age' = 0 /\ age = Fractions
      /\ UNCHANGED <<wait, took, elapsed_milliseconds>>
  <2>1. divisor \notin 1 .. 1192
    <3>1. divisor \in {0, 1193}
      BY DEF Typed, Scalars, WaitRecord
    <3> QED
      BY <3>1
  <2> QED
    BY <2>1 DEF Tick, main, clock
<1>2. Pending = 0
  BY <1>1, ClockTyped DEF Clock
<1>3. ~Unserved /\ 0 \notin irr /\ ~Unserved' /\ Pending' = 1
  BY <1>1, <1>2 DEF Pending, Unserved
<1>4. Ticks = Ticks' - 1 /\ Ticks' \in Int
  BY <1>1, <1>2, <1>3, ClockTyped DEF Ticks
<1>5. ASSUME wait.at # "no"
      PROVE  took' = wait.ms * Fractions \/ took' >= Ticks' * Fractions + age' + wait'.due
  <2>1. took = wait.ms * Fractions \/ took >= Ticks * Fractions + age + wait.due
    BY <1>5 DEF Clock
  <2>2. Ticks * Fractions + Fractions = Ticks' * Fractions /\ Ticks' * Fractions \in Int
    <3>1. (Ticks' - 1) * Fractions + Fractions = Ticks' * Fractions
      BY <1>4, NextProduct, ClockTyped
    <3> QED
      BY <1>4, <3>1, ClockTyped
  <2> QED
    BY <1>1, <2>1, <2>2, ClockTyped
<1>6. wait.at # "no" => elapsed_milliseconds >= wait.end - wait.ms
  BY DEF Clock
<1> QED
  BY <1>1, <1>3, <1>5, <1>6 DEF Clock

\* The tick is counted.
LEMMA ClockServes ==
    ASSUME Typed, Typed', Stages, Registered, Stacked, Clock, timer_callback, phase = "starting"
    PROVE  Clock'
<1>1. Moves("eoi") /\ Current.number = 32 /\ Current.at = "call" /\ contexts # <<>>
  BY TimerIs DEF timer_callback, At
<1>2. /\ irr' = irr /\ wait' = wait /\ took' = took /\ age' = 0
      /\ elapsed_milliseconds' = elapsed_milliseconds + 1
  BY DEF timer_callback, chips, main
<1>3. /\ Len(contexts) \in 1 .. Len(contexts) /\ Current = contexts[Len(contexts)]
      /\ Len(contexts') = Len(contexts) /\ contexts'[Len(contexts)].at = "eoi"
  BY <1>1, TopIs DEF Typed, Current, Moves
<1>4. Unserved
  BY <1>1, <1>3 DEF Unserved
<1>5. 0 \notin irr /\ Pending = 1 /\ age = 0
  BY <1>4 DEF Clock, Pending
<1>6. ~Unserved'
  <2>1. \A i \in 1 .. Len(contexts) : i = Len(contexts)
    BY OnlyOne DEF Stages
  <2> QED
    BY <1>3, <2>1 DEF Unserved
<1>7. Pending' = 0
  BY <1>2, <1>5, <1>6 DEF Pending
<1>8. Ticks' = Ticks
  BY <1>2, <1>5, <1>7, ClockTyped DEF Ticks
<1>9. ASSUME wait.at # "no"
      PROVE  /\ elapsed_milliseconds' >= wait'.end - wait'.ms
             /\ took' = wait.ms * Fractions \/ took' >= Ticks' * Fractions + age' + wait'.due
  BY <1>2, <1>5, <1>8, <1>9, ClockTyped DEF Clock
<1> QED
  BY <1>2, <1>6, <1>7, <1>9 DEF Clock

\* Every step keeps the clock.
LEMMA ClockKept ==
    ASSUME IInv, Typed', [Next]_vars
    PROVE  Clock'
<1> USE DEF IInv
<1>1. ASSUME PicInit \/ ArchInitDone \/ pic_restore_real_mode_configuration \/ Calls PROVE Clock'
  <2>1. phase' # "starting"
    BY <1>1, CallsAre DEF PicInit, ArchInitDone, pic_restore_real_mode_configuration, Caller,
       Masks, register_interrupt_handler, unregister_interrupt_handler
  <2> QED
    BY <2>1 DEF Clock
<1>2. CASE StartTimer
  <2>1. /\ contexts' = <<>> /\ irr' = {} /\ wait'.at = "no"
    BY <1>2 DEF StartTimer, Stages, main
  <2>2. ~Unserved' /\ Pending' = 0
    BY <2>1, NoneUnserved DEF Pending
  <2> QED
    BY <2>1, <2>2 DEF Clock
<1> DEFINE Still == /\ phase = "starting"
                    /\ Unserved' => Unserved
                    /\ 0 \in irr' => 0 \in irr
                    /\ UNCHANGED <<elapsed_milliseconds, age, took>>
                    /\ wait'.ms = wait.ms /\ wait'.end = wait.end /\ wait'.due = wait.due
                    /\ wait'.at # "no" => wait.at # "no"
<1>3. ASSUME phase' = "starting" => Still PROVE Clock'
  <2>1. CASE phase' = "starting"
    BY <1>3, <2>1, ClockStays
  <2>2. CASE phase' # "starting"
    BY <2>2 DEF Clock
  <2> QED
    BY <2>1, <2>2
<1>4. CASE Delay
  BY <1>4, ClockDelays
<1>5. CASE DelayStep
  <2>1. /\ contexts = <<>> /\ contexts' = contexts /\ irr' = irr /\ phase' = phase
        /\ UNCHANGED <<elapsed_milliseconds, age>>
    BY <1>5 DEF DelayStep, MainRuns, chips, clock
  <2>2. ~Unserved' /\ ~Unserved
    BY <2>1, NoneUnserved
  <2>3. CASE wait' = NoDelay
    <3>1. wait'.at = "no"
      BY <2>3 DEF NoDelay
    <3>2. Pending' = Pending
      BY <2>1, <2>2 DEF Pending
    <3> QED
      BY <2>1, <2>2, <3>1, <3>2 DEF Clock
  <2>4. ASSUME NEW at, wait' = [wait EXCEPT !.at = at], took' = took, wait.at # "no" PROVE Clock'
    <3>1. wait'.ms = wait.ms /\ wait'.end = wait.end /\ wait'.due = wait.due
      BY <2>4 DEF Typed, Scalars, WaitRecord
    <3> QED
      BY <1>3, <2>1, <2>2, <2>4, <3>1
  <2> QED
    BY <1>5, <2>3, <2>4 DEF DelayStep, MainRuns
<1>6. CASE Elapse
  BY <1>6, ClockElapses
<1>7. CASE Tick
  <2>1. CASE phase = "starting"
    BY <1>7, <2>1, ClockTicks
  <2>2. CASE phase # "starting"
    BY <1>7, <2>2 DEF Tick, Clock
  <2> QED
    BY <2>1, <2>2
<1>8. ASSUME NEW l \in Lines \ {0}, Raise(l) PROVE Clock'
  <2>1. /\ contexts' = contexts /\ phase' = phase /\ (0 \in irr' => 0 \in irr)
        /\ UNCHANGED <<elapsed_milliseconds, age, took, wait>>
    BY <1>8 DEF Raise, main, clock
  <2>2. Unserved' => Unserved
    BY <2>1 DEF Unserved
  <2> QED
    BY <1>3, <2>1, <2>2
<1>9. ASSUME NEW l \in Lines, Accept(l) PROVE Clock'
  <2>1. /\ phase' = phase /\ irr' = irr \ {l} /\ l \in irr \ imr
        /\ UNCHANGED <<elapsed_milliseconds, age, took>>
        /\ wait' = [wait EXCEPT !.at = IF @ = "halted" THEN "check" ELSE @]
    BY <1>9 DEF Accept, Deliverable, Enter, clock
  <2>2. /\ wait'.ms = wait.ms /\ wait'.end = wait.end /\ wait'.due = wait.due
        /\ wait'.at # "no" => wait.at # "no"
    BY <2>1 DEF Typed, Scalars, WaitRecord
  <2>3. Unserved' <=> Unserved \/ 32 + l = 32
    BY <1>9, AcceptIs, UnservedPushes
  <2>4. CASE phase # "starting"
    BY <2>1, <2>4 DEF Clock
  <2>5. CASE phase = "starting"
    <3>1. l = 0 /\ 0 \in irr /\ 0 \notin irr'
      BY <2>1, <2>5, LinesAre DEF Stages
    <3>2. Unserved' /\ Pending' = 1 /\ Pending = 1
      BY <2>3, <3>1 DEF Pending
    <3>3. Ticks' = Ticks
      BY <2>1, <2>2, <3>2 DEF Ticks
    <3> QED
      BY <2>1, <2>2, <2>5, <3>1, <3>2, <3>3 DEF Clock
  <2> QED
    BY <2>4, <2>5
<1>10. ASSUME NEW n \in {39, 47, 255}, Spurious(n) PROVE Clock'
  <2>1. /\ phase' = phase /\ irr' = irr
        /\ UNCHANGED <<elapsed_milliseconds, age, took>>
        /\ wait' = [wait EXCEPT !.at = IF @ = "halted" THEN "check" ELSE @]
    BY <1>10 DEF Spurious, Enter, clock
  <2>2. /\ wait'.ms = wait.ms /\ wait'.end = wait.end /\ wait'.due = wait.due
        /\ wait'.at # "no" => wait.at # "no"
    BY <2>1 DEF Typed, Scalars, WaitRecord
  <2>3. Unserved' <=> Unserved
    BY <1>10, SpuriousIs, UnservedPushes
  <2> QED
    BY <1>3, <2>1, <2>2, <2>3
<1>11. CASE Begin
  <2>1. Moves("call") /\ Current.at = "enter"
    BY <1>11, BeginIs DEF Begin, At
  <2>2. phase' = phase /\ irr' = irr /\ UNCHANGED <<elapsed_milliseconds, age, took, wait>>
    BY <1>11 DEF Begin, clock, main
  <2>3. Unserved' => Unserved
    BY <2>1, UnservedMoves DEF Places
  <2> QED
    BY <1>3, <2>2, <2>3
<1>12. ASSUME NEW place \in {"eoi", "driver", "iret"}, Moves(place), phase' = phase, irr' = irr,
              UNCHANGED <<elapsed_milliseconds, age, took, wait>>
       PROVE  Clock'
  <2>1. Unserved' => Unserved
    BY <1>12, UnservedMoves DEF Places
  <2> QED
    BY <1>3, <1>12, <2>1
<1>13. CASE CallHandler
  <2>1. phase' = phase /\ irr' = irr /\ UNCHANGED <<elapsed_milliseconds, age, took, wait>>
    BY <1>13 DEF CallHandler, chips, clock, main
  <2> QED
    BY <1>12, <1>13, <2>1, CallIs
<1>14. CASE timer_callback
  <2>1. CASE phase = "starting"
    BY <1>14, <2>1, ClockServes
  <2>2. CASE phase # "starting"
    BY <1>14, <2>2 DEF timer_callback, Clock
  <2> QED
    BY <2>1, <2>2
<1>15. CASE DriverReturns
  <2>1. phase' = phase /\ irr' = irr /\ UNCHANGED <<elapsed_milliseconds, age, took, wait>>
    BY <1>15 DEF DriverReturns, chips, clock, main
  <2> QED
    BY <1>12, <1>15, <2>1, ReturnsIs
<1>16. CASE SendEoi
  <2>1. phase' = phase /\ irr' = irr /\ UNCHANGED <<elapsed_milliseconds, age, took, wait>>
    BY <1>16 DEF SendEoi, clock, main
  <2> QED
    BY <1>12, <1>16, <2>1, EoiIs
<1>17. CASE Iret
  <2>1. phase' = phase /\ irr' = irr /\ UNCHANGED <<elapsed_milliseconds, age, took, wait>>
    BY <1>17 DEF Iret, chips, clock, main
  <2>2. Unserved' => Unserved
    BY <1>17, IretIs, UnservedPops
  <2> QED
    BY <1>3, <2>1, <2>2
<1>18. ASSUME DriverPrints \/ UNCHANGED vars PROVE Clock'
  <2>1. phase' = phase /\ irr' = irr /\ contexts' = contexts
        /\ UNCHANGED <<elapsed_milliseconds, age, took, wait>>
    BY <1>18 DEF DriverPrints, vars, chips, clock, main
  <2>2. Unserved' => Unserved
    BY <2>1 DEF Unserved
  <2> QED
    BY <1>3, <2>1, <2>2
<1>19. CASE Next
  BY <1>1, <1>2, <1>4, <1>5, <1>6, <1>7, <1>8, <1>9, <1>10, <1>11, <1>13, <1>14, <1>15,
     <1>16, <1>17, <1>18, <1>19 DEF Next, Delivery, Handling
<1> QED
  BY <1>18, <1>19

\* The loop of delay ends no earlier than DelayLastsFromNextTick says.
LEMMA DelayStepLasts ==
    ASSUME IInv, [Next]_vars, wait.at = "check", wait'.at = "no"
    PROVE  took >= (wait.ms - 1) * Fractions + wait.due
<1> USE DEF IInv
<1>1. phase = "starting"
  BY DEF Stages
<1>2. DelayStep
  <2>1. ~Delay /\ ~ArchInitDone
    BY DEF Delay, ArchInitDone, MainRuns, Stages
  <2>2. ASSUME UNCHANGED wait PROVE FALSE
    BY <2>2
  <2>3. ASSUME wait' = [wait EXCEPT !.at = IF @ = "halted" THEN "check" ELSE @] PROVE FALSE
    BY <2>3 DEF Typed, Scalars, WaitRecord
  <2>4. ~Delivery /\ \A n \in {39, 47, 255} : ~Spurious(n)
    BY <2>3 DEF Delivery, Accept, Spurious, Enter
  <2>5. ~Handling /\ ~DriverPrints /\ ~Calls
    BY <2>2, CallsAre DEF Handling, Begin, CallHandler, timer_callback, DriverReturns, SendEoi,
       Iret, DriverPrints, register_interrupt_handler, unregister_interrupt_handler, Masks,
       pic_restore_real_mode_configuration, main
  <2>6. ~PicInit /\ ~StartTimer /\ ~Elapse /\ ~Tick /\ \A l \in Lines \ {0} : ~Raise(l)
    BY <2>2 DEF PicInit, StartTimer, Elapse, Tick, Raise, main
  <2>7. ~UNCHANGED vars
    BY <2>2 DEF vars, main
  <2> QED
    BY <2>1, <2>4, <2>5, <2>6, <2>7 DEF Next
<1>3. elapsed_milliseconds >= wait.end
  <2>1. ~StillWaits(wait)
    <3>1. [wait EXCEPT !.at = "hlt"].at = "hlt"
      BY DEF Typed, Scalars, WaitRecord
    <3> QED
      BY <1>2, <3>1 DEF DelayStep, MainRuns
  <2> QED
    BY <2>1, ClockTyped DEF StillWaits
<1>4. wait.ms - 1 <= Ticks
  <2>1. Pending \in {0, 1}
    BY ClockTyped
  <2>2. \A x, y, z, p \in Int : x >= y /\ p >= 0 => z - 1 <= x - (y - z) + p - 1
    OBVIOUS
  <2> QED
    BY <1>3, <2>1, <2>2, ClockTyped DEF Ticks
<1>5. (wait.ms - 1) * Fractions <= Ticks * Fractions
  BY <1>4, Products, ClockTyped
<1>6. (wait.ms - 1) * Fractions + Fractions = wait.ms * Fractions
  BY NextProduct, ClockTyped
<1>7. took = wait.ms * Fractions \/ took >= Ticks * Fractions + age + wait.due
  BY <1>1 DEF Clock
<1>8. /\ (wait.ms - 1) * Fractions \in Int /\ Ticks * Fractions \in Int
      /\ wait.ms * Fractions \in Int
  BY ClockTyped
<1> QED
  BY <1>5, <1>6, <1>7, <1>8, ClockTyped

-----------------------------------------------------------------------------
(* The inductive invariant *)

\* The initial states satisfy the invariant.
LEMMA InvariantStarts == Init => IInv
<1> SUFFICES ASSUME Init PROVE IInv
  OBVIOUS
<1>0. /\ contexts = <<>> /\ isr = {} /\ irr = {} /\ ~cascaded /\ phase = "firmware"
      /\ wait = NoDelay
  BY DEF Init
<1>1. Scalars
  <2>1. smp \in BOOLEAN /\ intr \in BOOLEAN /\ cascaded \in BOOLEAN
    BY DEF Init
  <2>2. todo \in Seq(Nat)
    BY DelaysAssumption, EmptySeq DEF Init
  <2>3. age \in 0 .. Fractions
    BY BoundAssumption DEF Init
  <2>4. wait \in WaitRecord
    <3>1. 0 \in 0 .. Fractions
      BY BoundAssumption
    <3> QED
      BY <1>0, <3>1 DEF NoDelay, WaitRecord
  <2>5. imr \subseteq 0 .. 15
    BY DEF Init, Slave
  <2> QED
    BY <2>1, <2>2, <2>3, <2>4, <2>5 DEF Init, Scalars
<1>2. contexts \in Seq(Context) /\ Len(contexts) <= MaxContexts
  BY <1>0, EmptySeq, BoundAssumption
<1>3. Stages
  BY <1>0 DEF Init, Stages, NoDelay
<1>4. Registered
  BY DEF Init, Registered, NULL
<1>5. Stacked
  BY <1>0, EmptySeq DEF Stacked
<1>6. Service
  BY <1>0, EmptySeq DEF Service
<1>7. Exact
  BY <1>0, EmptySeq DEF Exact
<1>8. Clock
  BY <1>0 DEF Clock
<1> QED
  BY <1>1, <1>2, <1>3, <1>4, <1>5, <1>6, <1>7, <1>8 DEF IInv, Typed

\* Every step keeps the invariant.
LEMMA InvariantKept == IInv /\ [Next]_vars => IInv'
<1> SUFFICES ASSUME IInv, [Next]_vars PROVE IInv'
  OBVIOUS
<1>1. Typed'
  BY StackTyped, ScalarsKept DEF IInv, Typed
<1>2. Stages' /\ Registered' /\ Stacked'
  BY StagesKept, RegisteredKept, StackedKept DEF IInv
<1>3. Service' /\ Exact'
  BY ServiceKept, ExactKept DEF IInv
<1>4. Clock'
  BY <1>1, ClockKept
<1> QED
  BY <1>1, <1>2, <1>3, <1>4 DEF IInv

\* The invariant holds always.
THEOREM Invariant == Spec => []IInv
  BY InvariantStarts, InvariantKept, PTL DEF Spec

-----------------------------------------------------------------------------
(* What it implies *)

\* The invariant gives the order of the handlers.
LEMMA HandledIfInvariant == IInv => HandlersInOrder
<1> SUFFICES ASSUME IInv PROVE HandlersInOrder
  OBVIOUS
<1>1. TypeOK
  BY TypesAre DEF IInv
<1>2. InServiceIsHandled
  <2> SUFFICES ASSUME ~cascaded, NEW l \in isr \ {2}
               PROVE  \E i \in DOMAIN contexts : contexts[i].line = l /\ contexts[i].at # "iret"
    BY DEF InServiceIsHandled
  <2>1. DOMAIN contexts = 1 .. Len(contexts)
    BY LenProperties DEF IInv, Typed
  <2> QED
    BY <2>1 DEF IInv, Service
<1>3. NestsOnlyWhenPrinting
  <2>1. ASSUME NEW i \in 1 .. Len(contexts) - 1
        PROVE  Suspended(contexts[i])
    <3>1. i \in 1 .. Len(contexts) /\ i < Len(contexts)
      BY LenProperties DEF IInv, Typed
    <3> QED
      BY <3>1 DEF IInv, Stacked
  <2> QED
    BY <2>1 DEF NestsOnlyWhenPrinting, Suspended
<1> QED
  BY <1>1, <1>2, <1>3 DEF HandlersInOrder

\* HandlersInOrder for all lines, numbers and delays: handlers nest only
\* where the code lets them, and before the slave's first interrupt every
\* line in service has a handler that will acknowledge it.
THEOREM HandlersStayInOrder == Spec => []HandlersInOrder
  BY Invariant, HandledIfInvariant, PTL

\* The invariant gives that drivers run for requests only.
LEMMA RequestedIfInvariant == IInv => NoSpuriousCall
<1> SUFFICES ASSUME IInv, At("driver"), Current.line = None PROVE FALSE
  BY DEF NoSpuriousCall
<1>1. Sound(Current)
  BY TopIs DEF IInv, At, Typed, Stacked, Current
<1> QED
  BY <1>1 DEF Sound, At

\* NoSpuriousCall: no handler of a driver is called for a spurious interrupt,
\* although interrupt_common_handler recognises none, because the numbers
\* that can be spurious are refused.
THEOREM NoSpuriousCalls == Spec => []NoSpuriousCall
  BY Invariant, RequestedIfInvariant, PTL

\* RestoresFirmware: pic_restore_real_mode_configuration leaves the masks and
\* vectors pic_init found, whatever the callers masked in between.
THEOREM FirmwareRestored == Spec => []RestoresFirmware
<1>1. IInv => RestoresFirmware
  BY DEF IInv, Stages, RestoresFirmware
<1> QED
  BY <1>1, Invariant, PTL

\* AcknowledgesItsOwn: the unspecific end of interrupt hits the line of the
\* running handler, with handlers nested to any depth.
THEOREM AcknowledgesOwn == Spec => AcknowledgesItsOwn
<1>1. IInv /\ [Next]_vars =>
         [contexts # <<>> /\ contexts' # <<>> /\ spurious = 0 /\ ~cascaded =>
             isr \ isr' \subseteq {Current.line}]_vars
  BY AcknowledgedStep
<1> QED
  BY <1>1, Invariant, PTL DEF Spec, AcknowledgesItsOwn

\* DelayLastsFromNextTick: delay(ms) lasts until the next tick and ms - 1
\* milliseconds more, however finely a tick is divided and whatever interrupts
\* come.
THEOREM DelaysLast == Spec => DelayLastsFromNextTick
<1>1. IInv /\ [Next]_vars =>
         [wait.at = "check" /\ wait'.at = "no" =>
             took >= (wait.ms - 1) * Fractions + wait.due]_vars
  BY DelayStepLasts
<1> QED
  BY <1>1, Invariant, PTL DEF Spec, DelayLastsFromNextTick
=============================================================================
