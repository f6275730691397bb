--------------------------- MODULE ConsoleProofs ---------------------------
(***************************************************************************)
(* Proofs about Console for any number of CPUs and any depth of            *)
(* exceptions, with or without faults in the console drivers.  The         *)
(* invariant says what the stack of each CPU looks like in each mode       *)
(* (Local), that the mode is decided once, before a second CPU runs        *)
(* (Modes), that the word of the lock tells whether a call prints (Mutex), *)
(* and what the nesting counter counts with one CPU (Exact).               *)
(***************************************************************************)
EXTENDS Console, FiniteSetTheorems, SequenceTheorems, TLAPS

\* The labels of an exception whose handler has called _printk.
Waiting == {"loop_panic", "switch", "uncount", "end_trace"}

\* Both lines are of _printk or both of the handler.
SameKind(from, to) ==
    \/ from \in CallLabels /\ to \in CallLabels
    \/ from \in ExceptionLabels /\ to \in ExceptionLabels

-----------------------------------------------------------------------------
(* Stacks *)

\* No line belongs to both _printk and the exception handler.
LEMMA KindsDiffer == CallLabels \intersect ExceptionLabels = {}
  BY DEF CallLabels, ExceptionLabels

\* The line tells which fields an activation has.
LEMMA Kinds == ASSUME NEW a \in Activation
               PROVE  /\ a.at \in CallLabels \union ExceptionLabels
                      /\ a.at \in CallLabels =>
                            /\ a \in [panic : BOOLEAN, at : CallLabels]
                            /\ a.panic \in BOOLEAN
                      /\ a.at \in ExceptionLabels =>
                            /\ a \in [number : Number, at : ExceptionLabels,
                                      eflags : BOOLEAN, count : Nat]
                            /\ a.eflags \in BOOLEAN /\ a.count \in Nat
<1>1. CASE a \in [panic : BOOLEAN, at : CallLabels]
  BY <1>1, KindsDiffer
<1>2. CASE a \in [number : Number, at : ExceptionLabels, eflags : BOOLEAN, count : Nat]
  BY <1>2, KindsDiffer
<1> QED
  BY <1>1, <1>2 DEF Activation

\* The other fields stay when the line moves on.
LEMMA Relabel ==
    ASSUME NEW a \in Activation, NEW to, SameKind(a.at, to),
           NEW b, b = [a EXCEPT !.at = to]
    PROVE  /\ b \in Activation
           /\ b.at = to
           /\ to \in CallLabels => b.panic = a.panic
           /\ to \in ExceptionLabels => b.eflags = a.eflags /\ b.count = a.count
<1>1. CASE a \in [panic : BOOLEAN, at : CallLabels]
  <2>1. a.at \in CallLabels /\ to \in CallLabels /\ to \notin ExceptionLabels
    BY <1>1, KindsDiffer DEF SameKind
  <2>2. b \in [panic : BOOLEAN, at : CallLabels] /\ b.at = to /\ b.panic = a.panic
    BY <1>1, <2>1
  <2> QED
    BY <2>1, <2>2 DEF Activation
<1>2. CASE a \in [number : Number, at : ExceptionLabels, eflags : BOOLEAN, count : Nat]
  <2>1. a.at \in ExceptionLabels /\ to \in ExceptionLabels /\ to \notin CallLabels
    BY <1>2, KindsDiffer DEF SameKind
  <2>2. /\ b \in [number : Number, at : ExceptionLabels, eflags : BOOLEAN, count : Nat]
        /\ b.at = to /\ b.eflags = a.eflags /\ b.count = a.count
    BY <1>2, <2>1
  <2> QED
    BY <2>1, <2>2 DEF Activation
<1> QED
  BY <1>1, <1>2 DEF Activation

\* A stack that is not empty has a last activation.
LEMMA NonEmpty == ASSUME NEW s \in Seq(Activation), s # <<>>
                  PROVE  /\ Len(s) \in Nat /\ Len(s) >= 1
                         /\ Len(s) \in 1 .. Len(s)
                         /\ Last(s) \in Activation
  BY EmptySeq, ElementOfSeq DEF Last

\* t is s with the line of its last activation moved on to "to".
MovesTo(s, t, to) ==
    /\ t \in Seq(Activation) /\ t # <<>>
    /\ Len(t) = Len(s)
    /\ \A i \in 1 .. Len(s) - 1 : t[i] = s[i]
    /\ Last(t).at = to /\ t[Len(s)] = Last(t)
    /\ to \in CallLabels => Last(t).panic = Last(s).panic
    /\ to \in ExceptionLabels => Last(t).eflags = Last(s).eflags

\* t is s without its last activation.
PopsTo(s, t) ==
    /\ t \in Seq(Activation)
    /\ Len(t) = Len(s) - 1
    /\ \A i \in 1 .. Len(s) - 1 : t[i] = s[i]
    /\ t # <<>> => Len(s) - 1 \in 1 .. Len(s) - 1 /\ Last(t) = s[Len(s) - 1]

\* t is s with the activation a on top.
PushesTo(s, t, a) ==
    /\ t \in Seq(Activation) /\ t # <<>>
    /\ Len(t) = Len(s) + 1
    /\ \A i \in 1 .. Len(s) : t[i] = s[i]
    /\ t[Len(s) + 1] = a /\ Last(t) = a

\* Moved is a move.
LEMMA MovedIs ==
    ASSUME NEW s \in Seq(Activation), s # <<>>, NEW to, SameKind(Last(s).at, to),
           NEW t, t = Moved(s, to)
    PROVE  MovesTo(s, t, to)
<1> DEFINE n == Len(s)
           b == [s[n] EXCEPT !.at = to]
<1>1. n \in Nat /\ n >= 1 /\ n \in 1 .. n /\ s[n] \in Activation
  BY NonEmpty DEF Last
<1>2. /\ b \in Activation
      /\ b.at = to
      /\ to \in CallLabels => b.panic = s[n].panic
      /\ to \in ExceptionLabels => b.eflags = s[n].eflags /\ b.count = s[n].count
  BY <1>1, Relabel DEF Last
<1>3. t = [s EXCEPT ![n] = b]
  BY DEF Moved
<1> HIDE DEF b
<1>4. /\ t \in Seq(Activation)
      /\ Len(t) = n
      /\ \A j \in 1 .. n : t[j] = IF j = n THEN b ELSE s[j]
  BY <1>1, <1>2, <1>3, ExceptSeq
<1>5. t[n] = b /\ \A j \in 1 .. n - 1 : t[j] = s[j]
  BY <1>1, <1>4
<1>6. t # <<>>
  BY <1>1, <1>4, EmptySeq
<1> QED
  BY <1>2, <1>4, <1>5, <1>6 DEF Last, MovesTo

\* The length SubSeqProperties gives for a stack without its last element.
LEMMA OneLess == \A n \in Nat : n >= 1 =>
                     (IF 1 <= n - 1 THEN n - 1 - 1 + 1 ELSE 0) = n - 1
  OBVIOUS

\* Popped is a pop.
LEMMA PoppedIs ==
    ASSUME NEW s \in Seq(Activation), s # <<>>, NEW t, t = Popped(s)
    PROVE  PopsTo(s, t)
<1>1. Len(s) \in Nat /\ Len(s) >= 1
  BY NonEmpty
<1>2. \A i \in 1 .. Len(s) - 1 : s[i] \in Activation
  BY <1>1, ElementOfSeq
<1>3. /\ t \in Seq(Activation)
      /\ Len(t) = IF 1 <= Len(s) - 1 THEN Len(s) - 1 - 1 + 1 ELSE 0
      /\ \A i \in 1 .. Len(s) - 1 - 1 + 1 : t[i] = s[1 + i - 1]
  BY <1>1, <1>2, SubSeqProperties DEF Popped
<1>4. Len(t) = Len(s) - 1 /\ \A i \in 1 .. Len(s) - 1 : t[i] = s[i]
  <2>1. Len(t) = Len(s) - 1
    <3>1. Len(t) = IF 1 <= Len(s) - 1 THEN Len(s) - 1 - 1 + 1 ELSE 0
      BY <1>3
    <3> QED
      BY <1>1, <3>1, OneLess
  <2>2. ASSUME NEW i \in 1 .. Len(s) - 1 PROVE t[i] = s[i]
    <3>1. i \in 1 .. Len(s) - 1 - 1 + 1 /\ 1 + i - 1 = i
      BY <1>1
    <3> QED
      BY <1>3, <3>1
  <2> QED
    BY <2>1, <2>2
<1>5. t # <<>> => Len(t) \in Nat /\ Len(t) >= 1
  BY <1>3, NonEmpty
<1> QED
  BY <1>1, <1>3, <1>4, <1>5 DEF Last, PopsTo

\* Append is a push.
LEMMA AppendedIs ==
    ASSUME NEW s \in Seq(Activation), NEW a \in Activation, NEW t, t = Append(s, a)
    PROVE  PushesTo(s, t, a)
<1>1. /\ t \in Seq(Activation) /\ t # <<>>
      /\ Len(t) = Len(s) + 1
      /\ \A i \in 1 .. Len(s) : t[i] = s[i]
      /\ t[Len(s) + 1] = a
  OBVIOUS
<1> QED
  BY <1>1 DEF Last, PushesTo

\* A new call begins at the lock.
LEMMA CallIs == \A panic \in BOOLEAN :
    /\ CallOf(panic) \in Activation
    /\ CallOf(panic).at = "lock" /\ CallOf(panic).panic = panic
  BY DEF CallOf, Activation, CallLabels

\* A new exception begins at the load of the counter and keeps the interrupt
\* flag.
LEMMA ExceptionIs == \A number \in Number, eflags \in BOOLEAN :
    /\ ExceptionOf(number, eflags) \in Activation
    /\ ExceptionOf(number, eflags).at = "count_read"
    /\ ExceptionOf(number, eflags).eflags = eflags
  BY DEF ExceptionOf, Activation, ExceptionLabels

-----------------------------------------------------------------------------
(* The invariant of one CPU's stack *)

\* A handler interrupts a printing call, a call is made by a handler.
Nested(s) ==
    \A i \in 1 .. Len(s) - 1 :
        \/ s[i].at = "print" /\ s[i + 1].at \in ExceptionLabels
        \/ s[i].at \in Waiting /\ s[i + 1].at \in CallLabels

\* With several CPUs a panic never gets to unlock, so the handlers, which all
\* end in a panic, never get to uncount themselves; and it halts with
\* interrupts off.
Final(s, on) ==
    /\ \A i \in 1 .. Len(s) :
          /\ s[i].at = "unlock" => ~s[i].panic
          /\ s[i].at = "uncount" => i < Len(s) /\ s[i + 1].panic
    /\ s # <<>> /\ Last(s).at \in {"panic_unlock", "hlt", "halted"} => ~on

\* With one CPU a printing call runs with interrupts off, and the handler
\* above it returns with interrupts off.
Masked(s, on) ==
    /\ \A i \in 1 .. Len(s) - 1 : s[i].at = "print" => ~s[i + 1].eflags
    /\ s # <<>> /\ Last(s).at = "print" => ~on

\* What holds of the stack of a CPU whose interrupt flag is "on".
Local(s, on, several) ==
    Nested(s) /\ (several => Final(s, on)) /\ (~several => Masked(s, on))

\* An empty stack has nothing to violate.
LEMMA LocalEmpty == \A on, several : Local(<<>>, on, several)
  BY DEF Local, Nested, Final, Masked

\* A move keeps the nesting.
LEMMA NestedMove ==
    ASSUME NEW s \in Seq(Activation), s # <<>>, NEW t, NEW to,
           SameKind(Last(s).at, to), MovesTo(s, t, to), Nested(s)
    PROVE  Nested(t)
<1> DEFINE n == Len(s)
<1>1. n \in Nat /\ n >= 1 /\ Last(s) = s[n]
  BY NonEmpty DEF Last
<1>2. Len(t) = n /\ (\A i \in 1 .. n - 1 : t[i] = s[i]) /\ t[n].at = to
  BY <1>1 DEF MovesTo
<1>3. \/ s[n].at \in CallLabels /\ to \in CallLabels
      \/ s[n].at \in ExceptionLabels /\ to \in ExceptionLabels
  BY <1>1 DEF SameKind
<1>4. \A i \in 1 .. n - 1 : i + 1 \in 1 .. n - 1 \/ i + 1 = n
  BY <1>1
<1> SUFFICES ASSUME NEW i \in 1 .. n - 1
             PROVE  \/ t[i].at = "print" /\ t[i + 1].at \in ExceptionLabels
                    \/ t[i].at \in Waiting /\ t[i + 1].at \in CallLabels
  BY <1>2 DEF Nested
<1> HIDE DEF n
<1>5. \/ s[i].at = "print" /\ s[i + 1].at \in ExceptionLabels
      \/ s[i].at \in Waiting /\ s[i + 1].at \in CallLabels
  BY DEF Nested, n
<1>6. CASE i + 1 \in 1 .. n - 1
  BY <1>2, <1>5, <1>6
<1>7. CASE i + 1 = n
  BY <1>2, <1>3, <1>5, <1>7, KindsDiffer
<1> QED
  BY <1>4, <1>6, <1>7

\* A move within a call or within a handler.
LEMMA LocalMove ==
    ASSUME NEW s \in Seq(Activation), s # <<>>, NEW t, NEW to,
           SameKind(Last(s).at, to), MovesTo(s, t, to),
           NEW on \in BOOLEAN, NEW next \in BOOLEAN, NEW several \in BOOLEAN,
           Local(s, on, several),
           several => /\ to # "uncount"
                      /\ to = "unlock" => ~Last(s).panic
                      /\ to \in {"panic_unlock", "hlt", "halted"} => ~next,
           ~several => (to = "print" => ~next)
    PROVE  Local(t, next, several)
<1> DEFINE n == Len(s)
<1>1. n \in Nat /\ n >= 1 /\ Last(s) = s[n] /\ s[n] \in Activation
  BY NonEmpty DEF Last
<1>2. /\ Len(t) = n /\ \A i \in 1 .. n - 1 : t[i] = s[i]
      /\ t # <<>> /\ Last(t).at = to /\ t[n] = Last(t)
      /\ to \in CallLabels => t[n].panic = s[n].panic
      /\ to \in ExceptionLabels => t[n].eflags = s[n].eflags
  BY <1>1 DEF MovesTo
<1>3. \/ s[n].at \in CallLabels /\ to \in CallLabels
      \/ s[n].at \in ExceptionLabels /\ to \in ExceptionLabels
  BY <1>1 DEF SameKind
<1> HIDE DEF n
<1>4. \A i \in 1 .. n - 1 : i + 1 \in 1 .. n - 1 \/ i + 1 = n
  BY <1>1
<1>5. Nested(t)
  BY NestedMove DEF Local
<1>6. several => Final(t, next)
  <2> HAVE several
  <2>1. ASSUME NEW i \in 1 .. n
        PROVE  /\ t[i].at = "unlock" => ~t[i].panic
               /\ t[i].at = "uncount" => i < n /\ t[i + 1].panic
    <3>1. /\ s[i].at = "unlock" => ~s[i].panic
          /\ s[i].at = "uncount" => i < n /\ s[i + 1].panic
      BY DEF Local, Final, n
    <3>2. CASE i = n
      BY <1>1, <1>2, <3>2, KindsDiffer DEF CallLabels
    <3>3. CASE i \in 1 .. n - 1 /\ i + 1 \in 1 .. n - 1
      BY <1>2, <3>1, <3>3
    <3>4. CASE i \in 1 .. n - 1 /\ i + 1 = n
      <4>1. t[i] = s[i] /\ i < n
        BY <1>1, <1>2, <3>4
      <4>2. s[i].at = "uncount" => s[n].at \in CallLabels
        BY <3>4, KindsDiffer DEF Local, Nested, n
      <4> QED
        BY <1>2, <1>3, <3>1, <3>4, <4>1, <4>2, KindsDiffer
    <3> QED
      BY <1>1, <1>4, <3>2, <3>3, <3>4
  <2> QED
    BY <1>2, <2>1 DEF Final
<1>7. ~several => Masked(t, next)
  <2> HAVE ~several
  <2>1. ASSUME NEW i \in 1 .. n - 1, t[i].at = "print"
        PROVE  ~t[i + 1].eflags
    <3>1. s[i].at = "print" /\ ~s[i + 1].eflags
      BY <1>2, <2>1 DEF Local, Masked, n
    <3>2. s[i + 1].at \in ExceptionLabels
      BY <3>1 DEF Local, Nested, Waiting, n
    <3> QED
      BY <1>2, <1>3, <1>4, <3>1, <3>2, KindsDiffer
  <2> QED
    BY <1>2, <2>1 DEF Masked
<1> QED
  BY <1>5, <1>6, <1>7 DEF Local

\* The end of a call or of a handler.
LEMMA LocalPop ==
    ASSUME NEW s \in Seq(Activation), s # <<>>, NEW t, PopsTo(s, t),
           NEW on \in BOOLEAN, NEW next \in BOOLEAN, NEW several \in BOOLEAN,
           Local(s, on, several),
           \/ Last(s).at \in CallLabels /\ ~Last(s).panic
           \/ Last(s).at \in CallLabels /\ ~several
           \/ Last(s).at \in ExceptionLabels /\ next = Last(s).eflags
    PROVE  Local(t, next, several)
<1> DEFINE n == Len(s) - 1
<1>1. n \in Nat /\ Len(s) = n + 1 /\ Last(s) = s[n + 1]
  BY NonEmpty DEF Last
<1>2. /\ Len(t) = n /\ \A i \in 1 .. n : t[i] = s[i]
      /\ t # <<>> => n \in 1 .. n /\ Last(t) = s[n]
  BY <1>1 DEF PopsTo
<1> HIDE DEF n
<1>3. \A i \in 1 .. n - 1 : i \in 1 .. n /\ i + 1 \in 1 .. n
  BY <1>1
<1>4. \A i \in 1 .. n : i \in 1 .. Len(s) - 1 /\ i \in 1 .. Len(s) /\ (i = n \/ i \in 1 .. n - 1)
  BY <1>1
<1>5. Nested(t)
  BY <1>2, <1>3, <1>4 DEF Local, Nested
<1>6. t # <<>> => \/ s[n].at = "print" /\ s[n + 1].at \in ExceptionLabels
                  \/ s[n].at \in Waiting /\ s[n + 1].at \in CallLabels
  BY <1>2, <1>4 DEF Local, Nested
<1>7. several => Final(t, next)
  <2> HAVE several
  <2>1. ASSUME NEW i \in 1 .. n
        PROVE  /\ t[i].at = "unlock" => ~t[i].panic
               /\ t[i].at = "uncount" => i < n /\ t[i + 1].panic
    <3>1. /\ s[i].at = "unlock" => ~s[i].panic
          /\ s[i].at = "uncount" => s[i + 1].panic
      BY <1>4 DEF Local, Final
    <3>2. CASE i \in 1 .. n - 1
      <4>1. i < n
        BY <1>1, <3>2
      <4> QED
        BY <1>2, <1>3, <3>1, <3>2, <4>1
    <3>3. CASE i = n
      <4>1. s[n].at # "uncount"
        <5> SUFFICES ASSUME s[n].at = "uncount" PROVE FALSE
          OBVIOUS
        <5>1. s[n + 1].panic
          BY <3>1, <3>3
        <5>2. \/ s[n].at = "print" /\ s[n + 1].at \in ExceptionLabels
              \/ s[n].at \in Waiting /\ s[n + 1].at \in CallLabels
          BY <1>4, <3>3 DEF Local, Nested
        <5> QED
          BY <1>1, <5>1, <5>2, KindsDiffer
      <4> QED
        BY <1>2, <3>1, <3>3, <4>1
    <3> QED
      BY <1>4, <3>2, <3>3
  <2>2. t # <<>> => Last(t).at \notin {"panic_unlock", "hlt", "halted"}
    BY <1>2, <1>6 DEF Waiting
  <2> QED
    BY <1>2, <2>1, <2>2 DEF Final
<1>8. ~several => Masked(t, next)
  <2> HAVE ~several
  <2>1. \A i \in 1 .. n - 1 : t[i].at = "print" => ~t[i + 1].eflags
    BY <1>2, <1>3, <1>4 DEF Local, Masked
  <2>2. ASSUME t # <<>>, Last(t).at = "print" PROVE ~next
    <3>1. n \in 1 .. n /\ s[n].at = "print"
      BY <1>2, <2>2
    <3>2. s[n + 1].at \in ExceptionLabels
      BY <1>6, <2>2, <3>1 DEF Waiting
    <3>3. ~s[n + 1].eflags
      BY <1>4, <3>1 DEF Local, Masked
    <3> QED
      BY <1>1, <3>2, <3>3, KindsDiffer
  <2> QED
    BY <1>2, <2>1, <2>2 DEF Masked
<1> QED
  BY <1>5, <1>7, <1>8 DEF Local

\* A new call or exception.
LEMMA LocalPush ==
    ASSUME NEW s \in Seq(Activation), NEW a \in Activation, NEW t, PushesTo(s, t, a),
           NEW on \in BOOLEAN, NEW several \in BOOLEAN,
           Nested(s),
           several => /\ \A i \in 1 .. Len(s) - 1 :
                            s[i].at = "uncount" => s[i + 1].panic
                      /\ \A i \in 1 .. Len(s) : s[i].at = "unlock" => ~s[i].panic
                      /\ s # <<>> /\ Last(s).at = "uncount" => a.panic,
           ~several => Masked(s, on),
           \/ s = <<>>
           \/ Last(s).at = "print" /\ a.at \in ExceptionLabels /\ (a.eflags => on)
           \/ Last(s).at \in Waiting /\ a.at \in CallLabels,
           a.at \in {"lock", "count_read"}
    PROVE  Local(t, on, several)
<1> DEFINE n == Len(s)
<1>1. n \in Nat /\ (s = <<>> => n = 0) /\ (s # <<>> => n >= 1 /\ n \in 1 .. n /\ Last(s) = s[n])
  BY EmptySeq, NonEmpty DEF Last
<1>2. /\ Len(t) = n + 1 /\ \A i \in 1 .. n : t[i] = s[i]
      /\ t # <<>> /\ Last(t) = a /\ t[n + 1] = a
  BY <1>1 DEF PushesTo
<1> HIDE DEF n
<1>0. n \in Nat
  BY <1>1
<1>3. \A i \in 1 .. n : s # <<>> /\ (i = n \/ (i \in 1 .. n - 1 /\ i + 1 \in 1 .. n))
  <2>1. \A i \in 1 .. n : n # 0 /\ (i = n \/ (i \in 1 .. n - 1 /\ i + 1 \in 1 .. n))
    BY <1>0
  <2> QED
    BY <1>1, <2>1
<1>4. \A i \in 1 .. (n + 1) - 1 : i \in 1 .. n
  BY <1>0
<1>5. \A i \in 1 .. n + 1 : i = n + 1 \/ (i \in 1 .. n /\ i < n + 1)
  BY <1>0
<1>6. Nested(t)
  <2> SUFFICES ASSUME NEW i \in 1 .. n
               PROVE  \/ t[i].at = "print" /\ t[i + 1].at \in ExceptionLabels
                      \/ t[i].at \in Waiting /\ t[i + 1].at \in CallLabels
    BY <1>2, <1>4 DEF Nested
  <2>1. CASE i = n
    BY <1>1, <1>2, <1>3, <2>1
  <2>2. CASE i \in 1 .. n - 1 /\ i + 1 \in 1 .. n
    BY <1>2, <2>2 DEF Nested, n
  <2> QED
    BY <1>3, <2>1, <2>2
<1>7. several => Final(t, on)
  <2> HAVE several
  <2>1. ASSUME NEW i \in 1 .. n + 1
        PROVE  /\ t[i].at = "unlock" => ~t[i].panic
               /\ t[i].at = "uncount" => i < n + 1 /\ t[i + 1].panic
    <3>1. CASE i = n + 1
      BY <1>2, <3>1
    <3>2. CASE i \in 1 .. n /\ i < n + 1
      <4>1. t[i].at = "unlock" => ~t[i].panic
        BY <1>2, <3>2 DEF n
      <4>2. t[i].at = "uncount" => t[i + 1].panic
        <5>1. CASE i = n
          BY <1>1, <1>2, <1>3, <3>2, <5>1
        <5>2. CASE i \in 1 .. n - 1 /\ i + 1 \in 1 .. n
          BY <1>2, <3>2, <5>2 DEF n
        <5> QED
          BY <1>3, <3>2, <5>1, <5>2
      <4> QED
        BY <3>2, <4>1, <4>2
    <3> QED
      BY <1>5, <3>1, <3>2
  <2> QED
    BY <1>2, <2>1 DEF Final
<1>8. ~several => Masked(t, on)
  <2> HAVE ~several
  <2>1. ASSUME NEW i \in 1 .. n, t[i].at = "print" PROVE ~t[i + 1].eflags
    <3>1. CASE i = n
      <4>1. s # <<>> /\ Last(s).at = "print" /\ t[i + 1] = a
        BY <1>1, <1>2, <1>3, <2>1, <3>1
      <4>2. ~on
        BY <4>1 DEF Masked
      <4>3. a.eflags => on
        BY <4>1 DEF Waiting
      <4> QED
        BY <4>1, <4>2, <4>3
    <3>2. CASE i \in 1 .. n - 1 /\ i + 1 \in 1 .. n
      BY <1>2, <2>1, <3>2 DEF Masked, n
    <3> QED
      BY <1>3, <3>1, <3>2
  <2> QED
    BY <1>2, <1>4, <2>1 DEF Masked
<1> QED
  BY <1>6, <1>7, <1>8 DEF Local

\* A handler calls _printk; what it does next is "to".
LEMMA LocalCall ==
    ASSUME NEW s \in Seq(Activation), s # <<>>, NEW to \in Waiting,
           Last(s).at \in ExceptionLabels,
           NEW m, MovesTo(s, m, to),
           NEW panic \in BOOLEAN, NEW t, PushesTo(m, t, CallOf(panic)),
           NEW on \in BOOLEAN, NEW several \in BOOLEAN,
           Local(s, on, several),
           several => (to = "uncount" => panic)
    PROVE  Local(t, on, several)
<1> DEFINE n == Len(s)
<1>1. n \in Nat /\ n >= 1 /\ Last(s) = s[n]
  BY NonEmpty DEF Last
<1>2. /\ m \in Seq(Activation) /\ m # <<>> /\ Len(m) = n
      /\ \A i \in 1 .. n - 1 : m[i] = s[i]
      /\ Last(m).at = to /\ m[n].at = to
  BY DEF MovesTo
<1>3. SameKind(Last(s).at, to) /\ to \in ExceptionLabels
  BY DEF SameKind, Waiting, ExceptionLabels
<1>4. Nested(m)
  BY <1>3, NestedMove DEF Local
<1>5. CallOf(panic) \in Activation /\ CallOf(panic).at = "lock" /\ CallOf(panic).panic = panic
  BY CallIs
<1> HIDE DEF n
<1>6. \A i \in 1 .. n : i = n \/ (i \in 1 .. n - 1 /\ (i + 1 = n \/ i + 1 \in 1 .. n - 1))
  BY <1>1
<1>7. ASSUME several
      PROVE  /\ \A i \in 1 .. n - 1 : m[i].at = "uncount" => m[i + 1].panic
             /\ \A i \in 1 .. n : m[i].at = "unlock" => ~m[i].panic
             /\ Last(m).at = "uncount" => CallOf(panic).panic
  <2>1. \A i \in 1 .. n :
           /\ s[i].at = "unlock" => ~s[i].panic
           /\ s[i].at = "uncount" => s[i + 1].panic
    BY <1>7 DEF Local, Final, n
  <2>2. ASSUME NEW i \in 1 .. n - 1, m[i].at = "uncount" PROVE m[i + 1].panic
    <3>0. i \in 1 .. n
      BY <1>1
    <3>1. s[i].at = "uncount" /\ s[i + 1].panic
      BY <1>2, <2>1, <2>2, <3>0
    <3>2. s[i + 1].at \in CallLabels
      BY <3>1 DEF Local, Nested, n
    <3>3. i + 1 # n
      BY <1>1, <3>2, KindsDiffer
    <3> QED
      BY <1>2, <1>6, <3>0, <3>1, <3>3
  <2>3. \A i \in 1 .. n : m[i].at = "unlock" => ~m[i].panic
    BY <1>2, <1>6, <2>1 DEF Waiting
  <2> QED
    BY <1>2, <1>5, <1>7, <2>2, <2>3
<1>8. ASSUME ~several PROVE Masked(m, on)
  <2>1. to # "print"
    BY DEF Waiting
  <2>2. Local(m, on, several)
    BY <1>3, <1>8, <2>1, LocalMove
  <2> QED
    BY <1>8, <2>2 DEF Local
<1>9. Last(m).at \in Waiting /\ CallOf(panic).at \in CallLabels
  BY <1>2, <1>5 DEF CallLabels
<1> QED
  BY <1>2, <1>4, <1>5, <1>7, <1>8, <1>9, LocalPush

-----------------------------------------------------------------------------
(* The lines of a stack *)

\* The activations of s whose next line is one of "labels".
Labelled(s, labels) == {i \in 1 .. Len(s) : s[i].at \in labels}

\* A stack has finitely many activations at the given lines.
LEMMA LabelledFinite ==
    ASSUME NEW s \in Seq(Activation), NEW labels
    PROVE  /\ IsFiniteSet(Labelled(s, labels))
           /\ Cardinality(Labelled(s, labels)) \in Nat
<1>1. Len(s) \in Nat
  OBVIOUS
<1>2. IsFiniteSet(1 .. Len(s))
  BY <1>1, FS_Interval
<1>3. IsFiniteSet(Labelled(s, labels))
  BY <1>2, FS_Subset DEF Labelled
<1> QED
  BY <1>3, FS_CardinalityType

\* A move puts the last activation among the given lines, takes it out, or
\* does neither.
LEMMA LabelledMove ==
    ASSUME NEW s \in Seq(Activation), s # <<>>, NEW t, NEW to, MovesTo(s, t, to),
           NEW labels
    PROVE  /\ (Last(s).at \in labels <=> to \in labels) =>
                  Labelled(t, labels) = Labelled(s, labels)
           /\ Last(s).at \notin labels /\ to \in labels =>
                  /\ Len(s) \notin Labelled(s, labels)
                  /\ Labelled(t, labels) = Labelled(s, labels) \union {Len(s)}
           /\ Last(s).at \in labels /\ to \notin labels =>
                  /\ Len(s) \in Labelled(s, labels)
                  /\ Labelled(t, labels) = Labelled(s, labels) \ {Len(s)}
<1> DEFINE n == Len(s)
<1>1. n \in Nat /\ n \in 1 .. n /\ Last(s) = s[n]
  BY NonEmpty DEF Last
<1>2. Len(t) = n /\ (\A i \in 1 .. n - 1 : t[i] = s[i]) /\ t[n].at = to
  BY <1>1 DEF MovesTo
<1> HIDE DEF n
<1>3. \A i \in 1 .. n : i = n \/ i \in 1 .. n - 1
  BY <1>1
<1>4. \A i \in 1 .. n - 1 : i # n
  BY <1>1
<1> QED
  BY <1>1, <1>2, <1>3, <1>4, Zenon DEF Labelled, n

\* A pop takes it out if it was in.
LEMMA LabelledPop ==
    ASSUME NEW s \in Seq(Activation), s # <<>>, NEW t, PopsTo(s, t), NEW labels
    PROVE  /\ Last(s).at \notin labels => Labelled(t, labels) = Labelled(s, labels)
           /\ Last(s).at \in labels =>
                  /\ Len(s) \in Labelled(s, labels)
                  /\ Labelled(t, labels) = Labelled(s, labels) \ {Len(s)}
<1> DEFINE n == Len(s)
<1>1. n \in Nat /\ n \in 1 .. n /\ Last(s) = s[n]
  BY NonEmpty DEF Last
<1>2. Len(t) = n - 1 /\ (\A i \in 1 .. n - 1 : t[i] = s[i])
  BY <1>1 DEF PopsTo
<1> HIDE DEF n
<1>3. \A i \in 1 .. n : i = n \/ i \in 1 .. n - 1
  BY <1>1
<1>4. \A i \in 1 .. n - 1 : i # n /\ i \in 1 .. n
  BY <1>1
<1> QED
  BY <1>1, <1>2, <1>3, <1>4, Zenon DEF Labelled, n

\* A push of an activation at another line changes nothing.
LEMMA LabelledPush ==
    ASSUME NEW s \in Seq(Activation), NEW t, NEW a, PushesTo(s, t, a), NEW labels,
           a.at \notin labels
    PROVE  Labelled(t, labels) = Labelled(s, labels)
<1> DEFINE n == Len(s)
<1>1. n \in Nat
  OBVIOUS
<1>2. Len(t) = n + 1 /\ (\A i \in 1 .. n : t[i] = s[i]) /\ t[n + 1] = a
  BY DEF PushesTo
<1> HIDE DEF n
<1>3. \A i \in 1 .. n + 1 : i = n + 1 \/ i \in 1 .. n
  BY <1>1
<1>4. \A i \in 1 .. n : i \in 1 .. n + 1
  BY <1>1
<1> QED
  BY <1>2, <1>3, <1>4, Zenon DEF Labelled, n

-----------------------------------------------------------------------------
(* What the actions do to the stacks *)

\* Only the stack of c may change.
Only(c) ==
    /\ stack[c] \in Seq(Activation)
    /\ stack' \in [CPU -> Seq(Activation)]
    /\ \A d \in CPU \ {c} : stack'[d] = stack[d]

\* An assignment to the stack of c.
LEMMA OnlyIs ==
    ASSUME TypeOK, NEW c \in CPU, NEW t \in Seq(Activation),
           stack' = [stack EXCEPT ![c] = t]
    PROVE  Only(c) /\ stack'[c] = t
  BY DEF TypeOK, Only

\* Goto is a move of the last activation of c.
LEMMA GotoIs ==
    ASSUME TypeOK, NEW c \in CPU, NEW from, NEW to, SameKind(from, to),
           Goto(c, from, to)
    PROVE  /\ Only(c) /\ stack[c] # <<>> /\ Last(stack[c]).at = from
           /\ MovesTo(stack[c], stack'[c], to)
<1> DEFINE t == Moved(stack[c], to)
<1>1. stack[c] \in Seq(Activation) /\ stack[c] # <<>> /\ Last(stack[c]).at = from
  BY DEF TypeOK, Goto, At
<1>2. MovesTo(stack[c], t, to) /\ t \in Seq(Activation)
  BY <1>1, MovedIs DEF MovesTo
<1>3. stack' = [stack EXCEPT ![c] = t]
  BY DEF Goto
<1> HIDE DEF t
<1>4. Only(c) /\ stack'[c] = t
  BY <1>2, <1>3, OnlyIs
<1> QED
  BY <1>1, <1>2, <1>4

\* Return is a pop.
LEMMA ReturnIs ==
    ASSUME TypeOK, NEW c \in CPU, NEW from, Return(c, from)
    PROVE  /\ Only(c) /\ stack[c] # <<>> /\ Last(stack[c]).at = from
           /\ PopsTo(stack[c], stack'[c])
<1> DEFINE t == Popped(stack[c])
<1>1. stack[c] \in Seq(Activation) /\ stack[c] # <<>> /\ Last(stack[c]).at = from
  BY DEF TypeOK, Return, At
<1>2. PopsTo(stack[c], t) /\ t \in Seq(Activation)
  BY <1>1, PoppedIs DEF PopsTo
<1>3. stack' = [stack EXCEPT ![c] = t]
  BY DEF Return
<1> HIDE DEF t
<1>4. Only(c) /\ stack'[c] = t
  BY <1>2, <1>3, OnlyIs
<1> QED
  BY <1>1, <1>2, <1>4

\* GotoCall is a move and a push.
LEMMA GotoCallIs ==
    ASSUME TypeOK, NEW c \in CPU, NEW from, NEW to, SameKind(from, to),
           NEW panic \in BOOLEAN, GotoCall(c, from, to, CallOf(panic))
    PROVE  /\ Only(c) /\ stack[c] # <<>> /\ Last(stack[c]).at = from
           /\ \E m : /\ MovesTo(stack[c], m, to)
                     /\ PushesTo(m, stack'[c], CallOf(panic))
<1> DEFINE m == Moved(stack[c], to)
           a == CallOf(panic)
           t == Append(m, a)
<1>1. stack[c] \in Seq(Activation) /\ stack[c] # <<>> /\ Last(stack[c]).at = from
  BY DEF TypeOK, GotoCall, At
<1>2. MovesTo(stack[c], m, to) /\ m \in Seq(Activation)
  BY <1>1, MovedIs DEF MovesTo
<1>3. a \in Activation
  BY CallIs
<1>4. stack' = [stack EXCEPT ![c] = t]
  BY DEF GotoCall
<1> HIDE DEF m, a
<1>5. PushesTo(m, t, a) /\ t \in Seq(Activation)
  <2>1. t = Append(m, a)
    OBVIOUS
  <2> HIDE DEF t
  <2>2. PushesTo(m, t, a)
    BY <1>2, <1>3, <2>1, AppendedIs, EmptySeq
  <2> QED
    BY <2>2 DEF PushesTo
<1> HIDE DEF t
<1>6. Only(c) /\ stack'[c] = t
  BY <1>4, <1>5, OnlyIs
<1> QED
  BY <1>1, <1>2, <1>5, <1>6 DEF a

\* The code between calls pushes a call on the empty stack.
LEMMA CallPrintkIs ==
    ASSUME TypeOK, NEW c \in CPU, CallPrintk(c)
    PROVE  /\ Only(c) /\ stack[c] = <<>>
           /\ \E panic \in BOOLEAN : PushesTo(<<>>, stack'[c], CallOf(panic))
<1>1. PICK panic \in BOOLEAN : stack' = [stack EXCEPT ![c] = <<CallOf(panic)>>]
  BY DEF CallPrintk
<1> DEFINE a == CallOf(panic)
           t == Append(<<>>, a)
<1>2. a \in Activation
  BY CallIs
<1>3. stack' = [stack EXCEPT ![c] = t]
  BY <1>1
<1> HIDE DEF a
<1>4. PushesTo(<<>>, t, a) /\ t \in Seq(Activation)
  <2>1. t = Append(<<>>, a)
    OBVIOUS
  <2> HIDE DEF t
  <2>2. PushesTo(<<>>, t, a)
    BY <1>2, <2>1, AppendedIs, EmptySeq
  <2> QED
    BY <2>2 DEF PushesTo
<1> HIDE DEF t
<1>5. Only(c) /\ stack'[c] = t
  BY <1>3, <1>4, OnlyIs
<1>6. stack[c] = <<>>
  BY DEF CallPrintk, Idle
<1> QED
  BY <1>4, <1>5, <1>6 DEF a

\* An exception that does not reset the machine is a push on the empty stack
\* or on a printing call.
LEMMA RaiseIs ==
    ASSUME TypeOK, NEW c \in CPU, Raise(c), stage' = stage
    PROVE  \/ stack' = stack
           \/ /\ Only(c)
              /\ \/ stack[c] = <<>>
                 \/ stack[c] # <<>> /\ Last(stack[c]).at = "print"
              /\ \E n \in Number :
                    PushesTo(stack[c], stack'[c], ExceptionOf(n, intr[c]))
<1> SUFFICES ASSUME stack' # stack
             PROVE  /\ Only(c)
                    /\ \/ stack[c] = <<>>
                       \/ stack[c] # <<>> /\ Last(stack[c]).at = "print"
                    /\ \E n \in Number :
                          PushesTo(stack[c], stack'[c], ExceptionOf(n, intr[c]))
  OBVIOUS
<1>1. PICK n \in Number :
          stack' = [stack EXCEPT ![c] = Append(stack[c], ExceptionOf(n, intr[c]))]
  BY DEF Raise, Reset
<1>2. stack[c] \in Seq(Activation) /\ intr[c] \in BOOLEAN
  BY DEF TypeOK
<1> DEFINE a == ExceptionOf(n, intr[c])
           t == Append(stack[c], a)
<1>3. a \in Activation
  BY <1>2, ExceptionIs
<1>4. stack' = [stack EXCEPT ![c] = t]
  BY <1>1
<1> HIDE DEF a
<1>5. PushesTo(stack[c], t, a) /\ t \in Seq(Activation)
  <2>1. t = Append(stack[c], a)
    OBVIOUS
  <2> HIDE DEF t
  <2>2. PushesTo(stack[c], t, a)
    BY <1>2, <1>3, <2>1, AppendedIs, EmptySeq
  <2> QED
    BY <2>2 DEF PushesTo
<1> HIDE DEF t
<1>6. Only(c) /\ stack'[c] = t
  BY <1>4, <1>5, OnlyIs
<1>7. stack[c] = <<>> \/ (stack[c] # <<>> /\ Last(stack[c]).at = "print")
  BY DEF Raise, Idle, At
<1> QED
  BY <1>5, <1>6, <1>7 DEF a

\* The load of the counter is a move that also keeps its value.
LEMMA CountReadIs ==
    ASSUME TypeOK, NEW c \in CPU, CountRead(c)
    PROVE  /\ Only(c) /\ stack[c] # <<>> /\ Last(stack[c]).at = "count_read"
           /\ MovesTo(stack[c], stack'[c], "count_write")
           /\ Last(stack'[c]).count = nested_counter
<1> DEFINE s == stack[c]
           n == Len(s)
           b == [s[n] EXCEPT !.at = "count_write", !.count = nested_counter]
           t == [s EXCEPT ![n] = b]
<1>1. s \in Seq(Activation) /\ s # <<>> /\ s[n].at = "count_read" /\ nested_counter \in Nat
  BY DEF TypeOK, CountRead, At, Last
<1>2. n \in Nat /\ n >= 1 /\ n \in 1 .. n /\ s[n] \in Activation
  BY <1>1, NonEmpty DEF Last
<1>3. stack' = [stack EXCEPT ![c] = t]
  BY DEF CountRead, TypeOK
<1>4. s[n] \in [number : Number, at : ExceptionLabels, eflags : BOOLEAN, count : Nat]
  BY <1>1, <1>2, Kinds DEF ExceptionLabels
<1> HIDE DEF n, s
<1>5. /\ b \in [number : Number, at : ExceptionLabels, eflags : BOOLEAN, count : Nat]
      /\ b.at = "count_write" /\ b.count = nested_counter /\ b.eflags = s[n].eflags
  BY <1>1, <1>4 DEF ExceptionLabels
<1> HIDE DEF b
<1>6. b \in Activation
  BY <1>5 DEF Activation
<1>7. /\ t \in Seq(Activation) /\ Len(t) = n
      /\ \A j \in 1 .. n : t[j] = IF j = n THEN b ELSE s[j]
  BY <1>1, <1>2, <1>6, ExceptSeq DEF n
<1>8. /\ t[n] = b /\ (\A j \in 1 .. n - 1 : t[j] = s[j]) /\ t # <<>>
  BY <1>2, <1>7, EmptySeq
<1> HIDE DEF t
<1>9. MovesTo(s, t, "count_write") /\ Last(t).count = nested_counter
  BY <1>5, <1>7, <1>8, KindsDiffer DEF MovesTo, Last, n, ExceptionLabels, CallLabels
<1>10. Only(c) /\ stack'[c] = t
  BY <1>3, <1>7, OnlyIs
<1> QED
  BY <1>1, <1>9, <1>10 DEF s, n, Last

\* A step of the code of c changes no other stack.
LEMMA StepOnly == ASSUME TypeOK, NEW c \in CPU, Step(c) PROVE Only(c)
<1>1. ASSUME NEW from \in CallLabels, NEW to \in CallLabels, Goto(c, from, to)
      PROVE  Only(c)
  BY <1>1, GotoIs DEF SameKind
<1>2. ASSUME NEW from \in ExceptionLabels, NEW to \in ExceptionLabels, Goto(c, from, to)
      PROVE  Only(c)
  BY <1>2, GotoIs DEF SameKind
<1>3. ASSUME NEW from \in ExceptionLabels, NEW to \in ExceptionLabels,
             NEW panic \in BOOLEAN, GotoCall(c, from, to, CallOf(panic))
      PROVE  Only(c)
  BY <1>3, GotoCallIs DEF SameKind
<1>4. ASSUME TakeLock(c) \/ Printed(c) \/ PanicCli(c) \/ PanicUnlock(c) \/ PanicHlt(c)
      PROVE  Only(c)
  BY <1>1, <1>4 DEF TakeLock, Printed, PanicCli, PanicUnlock, PanicHlt, CallLabels
<1>5. ASSUME Unlock(c) \/ Iret(c) PROVE Only(c)
  BY <1>5, ReturnIs DEF Unlock, Iret
<1>6. ASSUME CountRead(c) PROVE Only(c)
  BY <1>6, CountReadIs
<1>7. ASSUME CountWrite(c) \/ Uncount(c) PROVE Only(c)
  BY <1>2, <1>7 DEF CountWrite, Uncount, ExceptionLabels
<1>8. ASSUME LoopReport(c) \/ LoopPanic(c) \/ Switch(c) \/ EndTrace(c) PROVE Only(c)
  BY <1>3, <1>8 DEF LoopReport, LoopPanic, Switch, EndTrace, ExceptionLabels
<1> QED
  BY <1>4, <1>5, <1>6, <1>7, <1>8 DEF Step

-----------------------------------------------------------------------------
(* Every stack keeps its shape *)

\* The stack of every CPU has the shape of the mode.
StacksOK == \A c \in CPU : Local(stack[c], intr[c], smp)

\* Before smp_init one CPU runs, and smp_init runs once.
Modes ==
    /\ ~smp => /\ console_lock = 0
               /\ \A c \in CPU \ {Bsp} : stage[c] \in {"off", "reset"} /\ stack[c] = <<>>
    /\ stage[Bsp] = "console" => ~smp

\* It is enough to look at the stack of the CPU that moves.
LEMMA OthersLocal ==
    ASSUME StacksOK, NEW c \in CPU, smp' = smp, Only(c),
           \A d \in CPU \ {c} : intr'[d] = intr[d],
           Local(stack'[c], intr'[c], smp)
    PROVE  StacksOK'
  BY DEF StacksOK, Only

\* An assignment to the interrupt flag of c.
LEMMA MaskIs ==
    ASSUME TypeOK, NEW c \in CPU, NEW on \in BOOLEAN, intr' = [intr EXCEPT ![c] = on]
    PROVE  intr'[c] = on /\ \A d \in CPU \ {c} : intr'[d] = intr[d]
  BY DEF TypeOK

\* lock() masks interrupts with one CPU and leaves them alone with several.
LEMMA LockMasks ==
    ASSUME TypeOK, NEW c \in CPU, LockConsole(c)
    PROVE  /\ intr'[c] \in BOOLEAN
           /\ smp => intr'[c] = intr[c]
           /\ ~smp => ~intr'[c]
           /\ \A d \in CPU \ {c} : intr'[d] = intr[d]
  BY DEF TypeOK, LockConsole

\* unlock() leaves them alone with several CPUs.
LEMMA UnlockMasks ==
    ASSUME TypeOK, NEW c \in CPU, UnlockConsole(c)
    PROVE  /\ intr'[c] \in BOOLEAN
           /\ smp => intr'[c] = intr[c]
           /\ \A d \in CPU \ {c} : intr'[d] = intr[d]
  BY DEF TypeOK, UnlockConsole

\* The steps of the code a CPU is in keep its stack in shape.
LEMMA LocalStep ==
    ASSUME TypeOK, StacksOK, NEW c \in CPU, Step(c)
    PROVE  StacksOK'
<1> DEFINE s == stack[c]
           t == stack'[c]
<1>1. /\ s \in Seq(Activation) /\ smp \in BOOLEAN /\ intr[c] \in BOOLEAN
      /\ Local(s, intr[c], smp)
  BY DEF TypeOK, StacksOK
<1>2. ASSUME s # <<>>
      PROVE  /\ Last(s) \in Activation
             /\ Len(s) \in 1 .. Len(s) /\ Last(s) = s[Len(s)]
  BY <1>1, <1>2, NonEmpty DEF Last
<1> HIDE DEF s, t
<1>3. ASSUME TakeLock(c) PROVE StacksOK'
  <2>1. Goto(c, "lock", "print") /\ LockConsole(c) /\ smp' = smp
    BY <1>3 DEF TakeLock
  <2>2. SameKind("lock", "print")
    BY DEF SameKind, CallLabels
  <2>3. Only(c) /\ s # <<>> /\ Last(s).at = "lock" /\ MovesTo(s, t, "print")
    BY <2>1, <2>2, GotoIs DEF s, t
  <2>4. Local(t, intr'[c], smp)
    BY <1>1, <2>1, <2>2, <2>3, LockMasks, LocalMove
  <2> QED
    BY <2>1, <2>3, <2>4, LockMasks, OthersLocal DEF t
<1>4. ASSUME Printed(c) PROVE StacksOK'
  <2>1. smp' = smp /\ intr' = intr /\ At(c, "print")
    BY <1>4 DEF Printed
  <2>2. SameKind("print", "cli") /\ SameKind("print", "unlock")
    BY DEF SameKind, CallLabels
  <2>3. CASE Goto(c, "print", "cli")
    <3>1. Only(c) /\ s # <<>> /\ Last(s).at = "print" /\ MovesTo(s, t, "cli")
      BY <2>2, <2>3, GotoIs DEF s, t
    <3>2. Local(t, intr[c], smp)
      BY <1>1, <2>2, <3>1, LocalMove
    <3> QED
      BY <2>1, <3>1, <3>2, OthersLocal DEF t
  <2>4. CASE Goto(c, "print", "unlock") /\ ~Last(stack[c]).panic
    <3>1. Only(c) /\ s # <<>> /\ Last(s).at = "print" /\ MovesTo(s, t, "unlock")
      BY <2>2, <2>4, GotoIs DEF s, t
    <3>2. Local(t, intr[c], smp)
      BY <1>1, <2>2, <2>4, <3>1, LocalMove DEF s
    <3> QED
      BY <2>1, <3>1, <3>2, OthersLocal DEF t
  <2> QED
    BY <1>4, <2>3, <2>4 DEF Printed
<1>5. ASSUME PanicCli(c) PROVE StacksOK'
  <2>1. Goto(c, "cli", "panic_unlock") /\ smp' = smp /\ intr' = [intr EXCEPT ![c] = FALSE]
    BY <1>5 DEF PanicCli
  <2>2. SameKind("cli", "panic_unlock")
    BY DEF SameKind, CallLabels
  <2>3. Only(c) /\ s # <<>> /\ Last(s).at = "cli" /\ MovesTo(s, t, "panic_unlock")
    BY <2>1, <2>2, GotoIs DEF s, t
  <2>4. /\ intr'[c] \in BOOLEAN /\ ~intr'[c]
        /\ \A d \in CPU \ {c} : intr'[d] = intr[d]
    BY <2>1, MaskIs
  <2>5. Local(t, intr'[c], smp)
    BY <1>1, <2>2, <2>3, <2>4, LocalMove
  <2> QED
    BY <2>1, <2>3, <2>4, <2>5, OthersLocal DEF t
<1>6. ASSUME PanicUnlock(c) PROVE StacksOK'
  <2>1. Goto(c, "panic_unlock", "hlt") /\ UnlockConsole(c) /\ smp' = smp
    BY <1>6 DEF PanicUnlock
  <2>2. SameKind("panic_unlock", "hlt")
    BY DEF SameKind, CallLabels
  <2>3. Only(c) /\ s # <<>> /\ Last(s).at = "panic_unlock" /\ MovesTo(s, t, "hlt")
    BY <2>1, <2>2, GotoIs DEF s, t
  <2>4. smp => ~intr'[c]
    BY <1>1, <2>1, <2>3, UnlockMasks DEF Local, Final
  <2>5. Local(t, intr'[c], smp)
    BY <1>1, <2>1, <2>2, <2>3, <2>4, UnlockMasks, LocalMove
  <2> QED
    BY <2>1, <2>3, <2>5, UnlockMasks, OthersLocal DEF t
<1>7. ASSUME PanicHlt(c) PROVE StacksOK'
  <2>1. Goto(c, "hlt", "halted") /\ smp' = smp /\ intr' = intr
    BY <1>7 DEF PanicHlt
  <2>2. SameKind("hlt", "halted")
    BY DEF SameKind, CallLabels
  <2>3. Only(c) /\ s # <<>> /\ Last(s).at = "hlt" /\ MovesTo(s, t, "halted")
    BY <2>1, <2>2, GotoIs DEF s, t
  <2>4. smp => ~intr[c]
    BY <1>1, <2>3 DEF Local, Final
  <2>5. Local(t, intr[c], smp)
    BY <1>1, <2>2, <2>3, <2>4, LocalMove
  <2> QED
    BY <2>1, <2>3, <2>5, OthersLocal DEF t
<1>8. ASSUME Unlock(c) PROVE StacksOK'
  <2>1. Return(c, "unlock") /\ UnlockConsole(c) /\ smp' = smp
    BY <1>8 DEF Unlock
  <2>2. Only(c) /\ s # <<>> /\ Last(s).at = "unlock" /\ PopsTo(s, t)
    BY <2>1, ReturnIs DEF s, t
  <2>3. smp => ~Last(s).panic
    BY <1>1, <1>2, <2>2 DEF Local, Final
  <2>4. Last(s).at \in CallLabels
    BY <2>2 DEF CallLabels
  <2>5. Local(t, intr'[c], smp)
    BY <1>1, <2>1, <2>2, <2>3, <2>4, UnlockMasks, LocalPop
  <2> QED
    BY <2>1, <2>2, <2>5, UnlockMasks, OthersLocal DEF t
<1>9. ASSUME CountRead(c) PROVE StacksOK'
  <2>1. smp' = smp /\ intr' = intr
    BY <1>9 DEF CountRead
  <2>2. SameKind("count_read", "count_write")
    BY DEF SameKind, ExceptionLabels
  <2>3. Only(c) /\ s # <<>> /\ Last(s).at = "count_read" /\ MovesTo(s, t, "count_write")
    BY <1>9, CountReadIs DEF s, t
  <2>4. Local(t, intr[c], smp)
    BY <1>1, <2>2, <2>3, LocalMove
  <2> QED
    BY <2>1, <2>3, <2>4, OthersLocal DEF t
<1>10. ASSUME CountWrite(c) PROVE StacksOK'
  <2>1. PICK to \in {"loop_report", "switch"} :
            Goto(c, "count_write", to) /\ smp' = smp /\ intr' = intr
    BY <1>10 DEF CountWrite
  <2>2. SameKind("count_write", to)
    BY DEF SameKind, ExceptionLabels
  <2>3. Only(c) /\ s # <<>> /\ Last(s).at = "count_write" /\ MovesTo(s, t, to)
    BY <2>1, <2>2, GotoIs DEF s, t
  <2>4. Local(t, intr[c], smp)
    BY <1>1, <2>2, <2>3, LocalMove
  <2> QED
    BY <2>1, <2>3, <2>4, OthersLocal DEF t
<1>11. ASSUME NEW from \in ExceptionLabels, NEW to \in Waiting, NEW panic \in BOOLEAN,
              GotoCall(c, from, to, CallOf(panic)), to = "uncount" => panic,
              smp' = smp, intr' = intr
       PROVE  StacksOK'
  <2>1. SameKind(from, to)
    BY DEF SameKind, Waiting, ExceptionLabels
  <2>2. /\ Only(c) /\ s # <<>> /\ Last(s).at = from
        /\ \E m : MovesTo(s, m, to) /\ PushesTo(m, t, CallOf(panic))
    BY <1>11, <2>1, GotoCallIs DEF s, t
  <2>3. Local(t, intr[c], smp)
    BY <1>1, <1>11, <2>2, LocalCall
  <2> QED
    BY <1>11, <2>2, <2>3, OthersLocal DEF t
<1>12. ASSUME LoopReport(c) PROVE StacksOK'
  BY <1>11, <1>12 DEF LoopReport, ExceptionLabels, Waiting
<1>13. ASSUME LoopPanic(c) PROVE StacksOK'
  BY <1>11, <1>13 DEF LoopPanic, ExceptionLabels, Waiting
<1>14. ASSUME Switch(c) PROVE StacksOK'
  BY <1>11, <1>14 DEF Switch, ExceptionLabels, Waiting
<1>15. ASSUME EndTrace(c) PROVE StacksOK'
  BY <1>11, <1>15 DEF EndTrace, ExceptionLabels, Waiting
<1>16. ASSUME Uncount(c) PROVE StacksOK'
  <2>1. Goto(c, "uncount", "iret") /\ smp' = smp /\ intr' = intr
    BY <1>16 DEF Uncount
  <2>2. SameKind("uncount", "iret")
    BY DEF SameKind, ExceptionLabels
  <2>3. Only(c) /\ s # <<>> /\ Last(s).at = "uncount" /\ MovesTo(s, t, "iret")
    BY <2>1, <2>2, GotoIs DEF s, t
  <2>4. Local(t, intr[c], smp)
    BY <1>1, <2>2, <2>3, LocalMove
  <2> QED
    BY <2>1, <2>3, <2>4, OthersLocal DEF t
<1>17. ASSUME Iret(c) PROVE StacksOK'
  <2>1. Return(c, "iret") /\ smp' = smp /\ intr' = [intr EXCEPT ![c] = Last(s).eflags]
    BY <1>17 DEF Iret, s
  <2>2. Only(c) /\ s # <<>> /\ Last(s).at = "iret" /\ PopsTo(s, t)
    BY <2>1, ReturnIs DEF s, t
  <2>3. Last(s).at \in ExceptionLabels
    BY <2>2 DEF ExceptionLabels
  <2>4. Last(s).eflags \in BOOLEAN
    BY <1>2, <2>2, <2>3, Kinds
  <2>5. intr'[c] = Last(s).eflags /\ \A d \in CPU \ {c} : intr'[d] = intr[d]
    BY <2>1, <2>4, MaskIs
  <2>6. Local(t, Last(s).eflags, smp)
    BY <1>1, <2>2, <2>3, <2>4, LocalPop
  <2> QED
    BY <2>1, <2>2, <2>5, <2>6, OthersLocal DEF t
<1> QED
  BY <1>3, <1>4, <1>5, <1>6, <1>7, <1>8, <1>9, <1>10, <1>12, <1>13, <1>14, <1>15,
     <1>16, <1>17 DEF Step

\* Calls, exceptions, interrupts and the boot keep the stacks in shape.
LEMMA LocalEnter ==
    ASSUME TypeOK, StacksOK, NEW c \in CPU, CallPrintk(c) \/ Raise(c) \/ Interrupt(c)
    PROVE  StacksOK'
<1> DEFINE s == stack[c]
           t == stack'[c]
<1>1. /\ s \in Seq(Activation) /\ smp \in BOOLEAN /\ intr[c] \in BOOLEAN
      /\ Local(s, intr[c], smp) /\ smp' = smp /\ intr' = intr
  BY DEF TypeOK, StacksOK, CallPrintk, Raise, Interrupt
<1> HIDE DEF s, t
<1>2. ASSUME stack' = stack PROVE StacksOK'
  BY <1>1, <1>2 DEF StacksOK
<1>3. ASSUME CallPrintk(c) PROVE StacksOK'
  <2>1. Only(c) /\ s = <<>>
    BY <1>3, CallPrintkIs DEF s
  <2>2. PICK panic \in BOOLEAN : PushesTo(<<>>, t, CallOf(panic))
    BY <1>3, CallPrintkIs DEF t
  <2>3. CallOf(panic) \in Activation /\ CallOf(panic).at = "lock"
    BY CallIs
  <2>4. /\ Nested(s) /\ Masked(s, intr[c])
        /\ \A i \in 1 .. Len(s) - 1 : s[i].at = "uncount" => s[i + 1].panic
        /\ \A i \in 1 .. Len(s) : s[i].at = "unlock" => ~s[i].panic
    BY <2>1 DEF Nested, Masked
  <2>5. PushesTo(s, t, CallOf(panic))
    BY <2>1, <2>2
  <2> DEFINE a == CallOf(panic)
  <2>6. a \in Activation /\ a.at = "lock"
    BY <2>3
  <2> HIDE DEF a
  <2>7. Local(t, intr[c], smp)
    BY <1>1, <2>1, <2>4, <2>5, <2>6, LocalPush DEF a
  <2> QED
    BY <1>1, <2>1, <2>7, OthersLocal DEF t
<1>4. ASSUME Raise(c), stack' # stack PROVE StacksOK'
  <2>1. stage' = stage
    BY <1>4 DEF Raise, Reset
  <2>2. Only(c) /\ (s = <<>> \/ (s # <<>> /\ Last(s).at = "print"))
    BY <1>4, <2>1, RaiseIs DEF s
  <2>3. PICK n \in Number : PushesTo(s, t, ExceptionOf(n, intr[c]))
    BY <1>4, <2>1, RaiseIs DEF s, t
  <2> DEFINE a == ExceptionOf(n, intr[c])
  <2>4. a \in Activation /\ a.at = "count_read" /\ a.eflags = intr[c]
    BY <1>1, ExceptionIs
  <2>5. a.at \in ExceptionLabels
    BY <2>4 DEF ExceptionLabels
  <2> HIDE DEF a
  <2>6. Nested(s) /\ (~smp => Masked(s, intr[c]))
    BY <1>1 DEF Local
  <2>7. Len(s) \in Nat /\ \A i \in 1 .. Len(s) - 1 : i \in 1 .. Len(s)
    BY <1>1
  <2>8. smp => /\ \A i \in 1 .. Len(s) - 1 : s[i].at = "uncount" => s[i + 1].panic
               /\ \A i \in 1 .. Len(s) : s[i].at = "unlock" => ~s[i].panic
    BY <1>1, <2>7 DEF Local, Final
  <2>9. Local(t, intr[c], smp)
    BY <1>1, <2>2, <2>3, <2>4, <2>5, <2>6, <2>8, LocalPush DEF a
  <2> QED
    BY <1>1, <2>2, <2>9, OthersLocal DEF t
<1>5. ASSUME Interrupt(c), stack' # stack PROVE StacksOK'
  <2>1. Goto(c, "halted", "unlock") /\ intr[c]
    BY <1>5 DEF Interrupt, Reset
  <2>2. SameKind("halted", "unlock")
    BY DEF SameKind, CallLabels
  <2>3. Only(c) /\ s # <<>> /\ Last(s).at = "halted" /\ MovesTo(s, t, "unlock")
    BY <2>1, <2>2, GotoIs DEF s, t
  <2>4. ~smp
    BY <1>1, <2>1, <2>3 DEF Local, Final
  <2>5. Local(t, intr[c], smp)
    BY <1>1, <2>2, <2>3, <2>4, LocalMove
  <2> QED
    BY <1>1, <2>3, <2>5, OthersLocal DEF t
<1> QED
  BY <1>2, <1>3, <1>4, <1>5

\* When smp_init sets the mode every stack is empty, so both halves of Local
\* hold.
LEMMA LocalBoot ==
    ASSUME TypeOK, StacksOK, Modes, Boot
    PROVE  StacksOK'
<1>1. ASSUME SmpInit PROVE StacksOK'
  <2>1. ~smp /\ stack' = stack /\ intr' = intr
    BY <1>1 DEF SmpInit, Modes
  <2>2. \A c \in CPU : stack[c] = <<>>
    BY <1>1, <2>1 DEF SmpInit, Modes, Idle
  <2> QED
    BY <2>1, <2>2, LocalEmpty DEF StacksOK
<1>2. ASSUME Sti PROVE StacksOK'
  <2>1. smp' = smp /\ stack' = stack /\ intr' = [intr EXCEPT ![Bsp] = TRUE] /\ stack[Bsp] = <<>>
    BY <1>2 DEF Sti, Idle
  <2>2. \A c \in CPU \ {Bsp} : intr'[c] = intr[c]
    BY <2>1 DEF TypeOK
  <2> QED
    BY <2>1, <2>2, LocalEmpty DEF StacksOK
<1>3. ASSUME NEW c \in CPU, IdtInit(c) \/ StartAp(c) PROVE StacksOK'
  BY <1>3 DEF IdtInit, StartAp, StacksOK
<1> QED
  BY <1>1, <1>2, <1>3 DEF Boot

\* Every step keeps every stack in shape.
LEMMA LocalNext ==
    ASSUME TypeOK, StacksOK, Modes, [Next]_vars
    PROVE  StacksOK'
<1>1. CASE UNCHANGED vars
  BY <1>1 DEF vars, StacksOK
<1> QED
  BY <1>1, LocalBoot, LocalEnter, LocalStep DEF Next

-----------------------------------------------------------------------------
(* The mode of the locks *)

\* One CPU runs until smp_init has found several; smp_init never runs again.
LEMMA ModesNext ==
    ASSUME TypeOK, Modes, [Next]_vars
    PROVE  Modes'
<1>1. CASE UNCHANGED vars
  BY <1>1 DEF vars, Modes
<1>2. CASE SmpInit
  BY <1>2, BspAssumption DEF SmpInit, Modes, TypeOK
<1>3. CASE Sti
  BY <1>3 DEF Sti, Modes
<1>4. ASSUME NEW c \in CPU, IdtInit(c) PROVE Modes'
  <2>1. /\ stage[c] = "detected" /\ smp' = smp /\ console_lock' = console_lock
        /\ stack' = stack /\ stage' = [stage EXCEPT ![c] = "ready"]
    BY <1>4 DEF IdtInit
  <2>2. ~smp => c = Bsp
    BY <2>1 DEF Modes
  <2> QED
    BY <2>1, <2>2, BspAssumption DEF Modes, TypeOK
<1>5. ASSUME NEW c \in CPU, StartAp(c) PROVE Modes'
  BY <1>5, BspAssumption DEF StartAp, Modes, TypeOK
<1>6. ASSUME NEW c \in CPU, Reset, smp' = smp, console_lock' = console_lock PROVE Modes'
  BY <1>6, BspAssumption DEF Reset, Modes
<1>7. ASSUME NEW c \in CPU, Running(c), Only(c), smp' = smp, stage' = stage,
             ~smp => console_lock' = console_lock
      PROVE  Modes'
  <2>1. ~smp => c = Bsp
    BY <1>7 DEF Running, Modes
  <2> QED
    BY <1>7, <2>1 DEF Only, Modes
<1>8. ASSUME NEW c \in CPU, CallPrintk(c) PROVE Modes'
  BY <1>7, <1>8, CallPrintkIs DEF CallPrintk, Idle
<1>9. ASSUME NEW c \in CPU, Raise(c) PROVE Modes'
  <2>1. smp' = smp /\ console_lock' = console_lock /\ Running(c)
    BY <1>9 DEF Raise, Idle
  <2>2. Reset \/ stage' = stage
    BY <1>9 DEF Raise
  <2>3. CASE stage' = stage /\ stack' = stack
    BY <2>1, <2>3 DEF Modes
  <2> QED
    BY <1>6, <1>7, <1>9, <2>1, <2>2, <2>3, RaiseIs
<1>10. ASSUME NEW c \in CPU, Interrupt(c) PROVE Modes'
  <2>1. smp' = smp /\ console_lock' = console_lock /\ Running(c)
    BY <1>10 DEF Interrupt
  <2>2. Reset \/ (stage' = stage /\ Goto(c, "halted", "unlock"))
    BY <1>10 DEF Interrupt
  <2>3. SameKind("halted", "unlock")
    BY DEF SameKind, CallLabels
  <2> QED
    BY <1>6, <1>7, <2>1, <2>2, <2>3, GotoIs
<1>11. ASSUME NEW c \in CPU, Step(c) PROVE Modes'
  <2>1. Running(c) /\ smp' = smp /\ stage' = stage
    BY <1>11 DEF Step, TakeLock, Printed, PanicCli, PanicUnlock, PanicHlt, Unlock,
       CountRead, CountWrite, LoopReport, LoopPanic, Switch, EndTrace, Uncount, Iret,
       Goto, GotoCall, Return
  <2>2. ~smp => console_lock' = console_lock
    BY <1>11 DEF Step, TakeLock, Printed, PanicCli, PanicUnlock, PanicHlt, Unlock,
       CountRead, CountWrite, LoopReport, LoopPanic, Switch, EndTrace, Uncount, Iret,
       LockConsole, UnlockConsole
  <2>3. Only(c)
    BY <1>11, StepOnly
  <2> QED
    BY <1>7, <2>1, <2>2, <2>3
<1> QED
  BY <1>1, <1>2, <1>3, <1>4, <1>5, <1>8, <1>9, <1>10, <1>11 DEF Next, Boot

-----------------------------------------------------------------------------
(* One printer *)

\* With several CPUs the word tells whether there is a printer, and there is
\* at most one.
Mutex ==
    smp => \/ console_lock = 0 /\ Printers = {}
           \/ console_lock = 1 /\ \E p : Printers = {p}

\* A step that leaves the printing activations of c alone keeps the printers.
LEMMA PrintersKeep ==
    ASSUME TypeOK, NEW c \in CPU, Only(c),
           Labelled(stack'[c], Inside) = Labelled(stack[c], Inside)
    PROVE  Printers' = Printers
<1>1. ASSUME NEW d \in CPU
      PROVE  /\ Which(d, Inside) = Labelled(stack[d], Inside)
             /\ Which(d, Inside)' = Labelled(stack'[d], Inside)
  BY LenProperties DEF TypeOK, Only, Which, Labelled
<1>2. \A d \in CPU : Which(d, Inside)' = Which(d, Inside)
  BY <1>1 DEF Only
<1> QED
  BY <1>2 DEF Printers

\* A step that makes an activation of c print adds one printer.
LEMMA PrintersAdd ==
    ASSUME TypeOK, NEW c \in CPU, Only(c), NEW n,
           Labelled(stack'[c], Inside) = Labelled(stack[c], Inside) \union {n}
    PROVE  Printers' = Printers \union {<<c, n>>}
<1>1. ASSUME NEW d \in CPU
      PROVE  /\ Which(d, Inside) = Labelled(stack[d], Inside)
             /\ Which(d, Inside)' = Labelled(stack'[d], Inside)
  BY LenProperties DEF TypeOK, Only, Which, Labelled
<1>2. Which(c, Inside)' = Which(c, Inside) \union {n}
  BY <1>1
<1>3. \A d \in CPU \ {c} : Which(d, Inside)' = Which(d, Inside)
  BY <1>1 DEF Only
<1> QED
  BY <1>2, <1>3 DEF Printers

\* A step that ends the printing of one takes away one that was there.
LEMMA PrintersRemove ==
    ASSUME TypeOK, NEW c \in CPU, Only(c), NEW n \in Labelled(stack[c], Inside),
           Labelled(stack'[c], Inside) = Labelled(stack[c], Inside) \ {n}
    PROVE  Printers' = Printers \ {<<c, n>>} /\ <<c, n>> \in Printers
<1>1. ASSUME NEW d \in CPU
      PROVE  /\ Which(d, Inside) = Labelled(stack[d], Inside)
             /\ Which(d, Inside)' = Labelled(stack'[d], Inside)
  BY LenProperties DEF TypeOK, Only, Which, Labelled
<1>2. Which(c, Inside)' = Which(c, Inside) \ {n} /\ n \in Which(c, Inside)
  BY <1>1
<1>3. \A d \in CPU \ {c} : Which(d, Inside)' = Which(d, Inside)
  BY <1>1 DEF Only
<1> QED
  BY <1>2, <1>3 DEF Printers

\* A step that neither enters nor leaves the printing keeps it.
LEMMA MutexKeep ==
    ASSUME TypeOK, Mutex, NEW c \in CPU, Only(c), smp' = smp,
           smp => /\ console_lock' = console_lock
                  /\ Labelled(stack'[c], Inside) = Labelled(stack[c], Inside)
    PROVE  Mutex'
  BY PrintersKeep DEF Mutex

\* Only the exchange in lock() enters the printing, only unlock() leaves it.
LEMMA MutexStep ==
    ASSUME TypeOK, StacksOK, Mutex, NEW c \in CPU, Step(c)
    PROVE  Mutex'
<1>1. ASSUME NEW from, NEW to, SameKind(from, to), Goto(c, from, to),
             from \in Inside <=> to \in Inside,
             smp' = smp, smp => console_lock' = console_lock
      PROVE  Mutex'
  <2>1. /\ Only(c) /\ stack[c] # <<>> /\ Last(stack[c]).at = from
        /\ MovesTo(stack[c], stack'[c], to)
    BY <1>1, GotoIs
  <2>2. Labelled(stack'[c], Inside) = Labelled(stack[c], Inside)
    BY <1>1, <2>1, LabelledMove DEF Only
  <2> QED
    BY <1>1, <2>1, <2>2, MutexKeep
<1>2. ASSUME NEW from \in ExceptionLabels, NEW to \in ExceptionLabels, NEW panic \in BOOLEAN,
             GotoCall(c, from, to, CallOf(panic)), smp' = smp, console_lock' = console_lock
      PROVE  Mutex'
  <2>1. /\ Only(c) /\ stack[c] # <<>> /\ Last(stack[c]).at = from
        /\ \E m : MovesTo(stack[c], m, to) /\ PushesTo(m, stack'[c], CallOf(panic))
    BY <1>2, GotoCallIs DEF SameKind
  <2>2. PICK m : MovesTo(stack[c], m, to) /\ PushesTo(m, stack'[c], CallOf(panic))
    BY <2>1
  <2>3. from \notin Inside /\ to \notin Inside
    BY DEF Inside, ExceptionLabels
  <2>4. Labelled(m, Inside) = Labelled(stack[c], Inside)
    BY <2>1, <2>2, <2>3, LabelledMove DEF Only
  <2>5. CallOf(panic).at \notin Inside
    BY CallIs DEF Inside
  <2>6. m \in Seq(Activation)
    BY <2>2 DEF MovesTo
  <2>7. Labelled(stack'[c], Inside) = Labelled(m, Inside)
    BY <2>2, <2>5, <2>6, LabelledPush
  <2> QED
    BY <1>2, <2>1, <2>4, <2>7, MutexKeep
<1>3. ASSUME TakeLock(c) PROVE Mutex'
  <2>1. CASE ~smp
    BY <1>3, <2>1 DEF TakeLock, Mutex
  <2>2. CASE smp
    <3>1. Goto(c, "lock", "print") /\ smp' = smp /\ console_lock = 0 /\ console_lock' = 1
      BY <1>3, <2>2 DEF TakeLock, LockConsole
    <3>2. SameKind("lock", "print") /\ "lock" \notin Inside /\ "print" \in Inside
      BY DEF SameKind, CallLabels, Inside
    <3>3. /\ Only(c) /\ stack[c] # <<>> /\ Last(stack[c]).at = "lock"
          /\ MovesTo(stack[c], stack'[c], "print")
      BY <3>1, <3>2, GotoIs
    <3>4. Labelled(stack'[c], Inside) = Labelled(stack[c], Inside) \union {Len(stack[c])}
      BY <3>2, <3>3, LabelledMove DEF Only
    <3>5. Printers' = Printers \union {<<c, Len(stack[c])>>}
      BY <3>3, <3>4, PrintersAdd
    <3>6. Printers = {}
      BY <2>2, <3>1 DEF Mutex
    <3> QED
      BY <3>1, <3>5, <3>6 DEF Mutex
  <2> QED
    BY <2>1, <2>2
<1>4. ASSUME smp' = smp, smp => console_lock' = 0, Only(c),
             NEW n \in Labelled(stack[c], Inside),
             Labelled(stack'[c], Inside) = Labelled(stack[c], Inside) \ {n}
      PROVE  Mutex'
  <2>1. Printers' = Printers \ {<<c, n>>} /\ <<c, n>> \in Printers
    BY <1>4, PrintersRemove
  <2>2. smp => Printers' = {}
    BY <2>1 DEF Mutex
  <2> QED
    BY <1>4, <2>2 DEF Mutex
<1>5. ASSUME PanicUnlock(c) PROVE Mutex'
  <2>1. Goto(c, "panic_unlock", "hlt") /\ smp' = smp /\ (smp => console_lock' = 0)
    BY <1>5 DEF PanicUnlock, UnlockConsole
  <2>2. SameKind("panic_unlock", "hlt") /\ "panic_unlock" \in Inside /\ "hlt" \notin Inside
    BY DEF SameKind, CallLabels, Inside
  <2>3. /\ Only(c) /\ stack[c] # <<>> /\ Last(stack[c]).at = "panic_unlock"
        /\ MovesTo(stack[c], stack'[c], "hlt")
    BY <2>1, <2>2, GotoIs
  <2>4. /\ Len(stack[c]) \in Labelled(stack[c], Inside)
        /\ Labelled(stack'[c], Inside) = Labelled(stack[c], Inside) \ {Len(stack[c])}
    BY <2>2, <2>3, LabelledMove DEF Only
  <2> QED
    BY <1>4, <2>1, <2>3, <2>4
<1>6. ASSUME Unlock(c) PROVE Mutex'
  <2>1. Return(c, "unlock") /\ smp' = smp /\ (smp => console_lock' = 0)
    BY <1>6 DEF Unlock, UnlockConsole
  <2>2. /\ Only(c) /\ stack[c] # <<>> /\ Last(stack[c]).at = "unlock"
        /\ PopsTo(stack[c], stack'[c])
    BY <2>1, ReturnIs
  <2>3. "unlock" \in Inside
    BY DEF Inside
  <2>4. /\ Len(stack[c]) \in Labelled(stack[c], Inside)
        /\ Labelled(stack'[c], Inside) = Labelled(stack[c], Inside) \ {Len(stack[c])}
    BY <2>2, <2>3, LabelledPop DEF Only
  <2> QED
    BY <1>4, <2>1, <2>2, <2>4
<1>7. ASSUME Printed(c) \/ PanicCli(c) \/ PanicHlt(c) PROVE Mutex'
  <2>1. /\ SameKind("print", "cli") /\ SameKind("print", "unlock")
        /\ SameKind("cli", "panic_unlock") /\ SameKind("hlt", "halted")
        /\ {"print", "cli", "unlock", "panic_unlock"} \subseteq Inside
        /\ "hlt" \notin Inside /\ "halted" \notin Inside
    BY DEF SameKind, CallLabels, Inside
  <2>2. smp' = smp /\ console_lock' = console_lock
    BY <1>7 DEF Printed, PanicCli, PanicHlt
  <2>3. \/ Goto(c, "print", "cli") \/ Goto(c, "print", "unlock")
        \/ Goto(c, "cli", "panic_unlock") \/ Goto(c, "hlt", "halted")
    BY <1>7 DEF Printed, PanicCli, PanicHlt
  <2> QED
    BY <1>1, <2>1, <2>2, <2>3
<1>8. ASSUME CountRead(c) PROVE Mutex'
  <2>1. smp' = smp /\ console_lock' = console_lock
    BY <1>8 DEF CountRead
  <2>2. /\ Only(c) /\ stack[c] # <<>> /\ Last(stack[c]).at = "count_read"
        /\ MovesTo(stack[c], stack'[c], "count_write")
    BY <1>8, CountReadIs
  <2>3. "count_read" \notin Inside /\ "count_write" \notin Inside
    BY DEF Inside
  <2>4. Labelled(stack'[c], Inside) = Labelled(stack[c], Inside)
    BY <2>2, <2>3, LabelledMove DEF Only
  <2> QED
    BY <2>1, <2>2, <2>4, MutexKeep
<1>9. ASSUME CountWrite(c) \/ Uncount(c) PROVE Mutex'
  <2>1. /\ SameKind("count_write", "loop_report") /\ SameKind("count_write", "switch")
        /\ SameKind("uncount", "iret")
        /\ Inside \intersect {"count_write", "loop_report", "switch", "uncount", "iret"} = {}
    BY DEF SameKind, ExceptionLabels, Inside
  <2>2. smp' = smp /\ console_lock' = console_lock
    BY <1>9 DEF CountWrite, Uncount
  <2>3. \/ Goto(c, "count_write", "loop_report") \/ Goto(c, "count_write", "switch")
        \/ Goto(c, "uncount", "iret")
    BY <1>9 DEF CountWrite, Uncount
  <2> QED
    BY <1>1, <2>1, <2>2, <2>3
<1>10. ASSUME LoopReport(c) \/ LoopPanic(c) \/ Switch(c) \/ EndTrace(c) PROVE Mutex'
  BY <1>2, <1>10 DEF LoopReport, LoopPanic, Switch, EndTrace, ExceptionLabels
<1>11. ASSUME Iret(c) PROVE Mutex'
  <2>1. Return(c, "iret") /\ smp' = smp /\ console_lock' = console_lock
    BY <1>11 DEF Iret
  <2>2. /\ Only(c) /\ stack[c] # <<>> /\ Last(stack[c]).at = "iret"
        /\ PopsTo(stack[c], stack'[c])
    BY <2>1, ReturnIs
  <2>3. "iret" \notin Inside
    BY DEF Inside
  <2>4. Labelled(stack'[c], Inside) = Labelled(stack[c], Inside)
    BY <2>2, <2>3, LabelledPop DEF Only
  <2> QED
    BY <2>1, <2>2, <2>4, MutexKeep
<1> QED
  BY <1>3, <1>5, <1>6, <1>7, <1>8, <1>9, <1>10, <1>11 DEF Step

\* No other step does: a halted CPU, whose interrupt would bring it to
\* unlock, has interrupts off.
LEMMA MutexNext ==
    ASSUME TypeOK, StacksOK, Modes, Mutex, [Next]_vars
    PROVE  Mutex'
<1>1. ASSUME stack' = stack, smp' = smp, console_lock' = console_lock PROVE Mutex'
  BY <1>1 DEF Mutex, Printers, Which
<1>2. CASE UNCHANGED vars
  BY <1>1, <1>2 DEF vars
<1>3. CASE SmpInit
  <2>1. ~smp /\ console_lock' = 0 /\ stack' = stack
    BY <1>3 DEF SmpInit, Modes
  <2>2. \A c \in CPU : stack'[c] = <<>>
    BY <1>3, <2>1 DEF SmpInit, Modes, Idle
  <2>3. Printers' = {}
    BY <2>2, EmptySeq DEF Printers, Which
  <2> QED
    BY <2>1, <2>3 DEF Mutex
<1>4. ASSUME NEW c \in CPU, Sti \/ IdtInit(c) \/ StartAp(c) PROVE Mutex'
  BY <1>1, <1>4 DEF Sti, IdtInit, StartAp
<1>5. ASSUME NEW c \in CPU, CallPrintk(c) PROVE Mutex'
  <2>1. Only(c) /\ smp' = smp /\ console_lock' = console_lock
    BY <1>5, CallPrintkIs DEF CallPrintk
  <2>2. PICK a : PushesTo(stack[c], stack'[c], a) /\ a.at = "lock"
    BY <1>5, CallPrintkIs, CallIs
  <2>3. a.at \notin Inside
    BY <2>2 DEF Inside
  <2>4. Labelled(stack'[c], Inside) = Labelled(stack[c], Inside)
    BY <2>1, <2>2, <2>3, LabelledPush DEF Only
  <2> QED
    BY <2>1, <2>4, MutexKeep
<1>6. ASSUME NEW c \in CPU, Raise(c), stack' # stack PROVE Mutex'
  <2>1. smp' = smp /\ console_lock' = console_lock /\ stage' = stage
    BY <1>6 DEF Raise, Reset
  <2>2. Only(c)
    BY <1>6, <2>1, RaiseIs
  <2>3. PICK n \in Number : PushesTo(stack[c], stack'[c], ExceptionOf(n, intr[c]))
    BY <1>6, <2>1, RaiseIs
  <2>4. ExceptionOf(n, intr[c]).at \notin Inside
    BY DEF ExceptionOf, Inside
  <2>5. Labelled(stack'[c], Inside) = Labelled(stack[c], Inside)
    BY <2>2, <2>3, <2>4, LabelledPush DEF Only
  <2> QED
    BY <2>1, <2>2, <2>5, MutexKeep
<1>7. ASSUME NEW c \in CPU, Interrupt(c), stack' # stack PROVE Mutex'
  <2>1. smp' = smp /\ console_lock' = console_lock /\ Goto(c, "halted", "unlock") /\ intr[c]
    BY <1>7 DEF Interrupt, Reset
  <2>2. SameKind("halted", "unlock")
    BY DEF SameKind, CallLabels
  <2>3. Only(c) /\ stack[c] # <<>> /\ Last(stack[c]).at = "halted"
    BY <2>1, <2>2, GotoIs
  <2>4. ~smp
    BY <2>1, <2>3 DEF StacksOK, Local, Final
  <2> QED
    BY <2>1, <2>4 DEF Mutex
<1>8. ASSUME NEW c \in CPU, Raise(c) \/ Interrupt(c) PROVE Mutex'
  BY <1>1, <1>6, <1>7, <1>8 DEF Raise, Interrupt
<1> QED
  BY <1>2, <1>3, <1>4, <1>5, <1>8, MutexStep, BspAssumption DEF Next, Boot

-----------------------------------------------------------------------------
(* The nesting counter *)

\* With one CPU the counter is the number of handlers between the two lines
\* that count, and nothing comes between the load and the store of ++.
Exact ==
    ~smp =>
        /\ nested_counter = Cardinality(Labelled(stack[Bsp], Counted))
        /\ stack[Bsp] # <<>> /\ Last(stack[Bsp]).at = "count_write" =>
               Last(stack[Bsp]).count = nested_counter

\* The counted lines, none of which is a line of _printk.
LEMMA NotCounted ==
    /\ Counted \intersect CallLabels = {}
    /\ Counted = {"loop_report", "loop_panic", "switch", "end_trace", "uncount"}
  BY DEF Counted, CallLabels, ExceptionLabels

\* Whoever runs with one CPU is the bootstrap processor.
LEMMA OneRuns ==
    ASSUME Modes, NEW c \in CPU, Running(c), ~smp
    PROVE  c = Bsp
  BY DEF Modes, Running

\* With one CPU the two lines that count change the counter as they change
\* the number of handlers.
LEMMA ExactStep ==
    ASSUME TypeOK, StacksOK, Modes, Exact, Step(Bsp), ~smp
    PROVE  Exact' /\ nested_counter' \in Nat
<1> DEFINE s == stack[Bsp]
           t == stack'[Bsp]
           held == Labelled(s, Counted)
<1>1. /\ s \in Seq(Activation) /\ nested_counter \in Nat
      /\ nested_counter = Cardinality(held)
      /\ s # <<>> /\ Last(s).at = "count_write" => Last(s).count = nested_counter
      /\ Local(s, intr[Bsp], smp)
  BY BspAssumption DEF TypeOK, Exact, StacksOK
<1>2. IsFiniteSet(held)
  BY <1>1, LabelledFinite
<1> SUFFICES /\ nested_counter' \in Nat
             /\ nested_counter' = Cardinality(Labelled(t, Counted))
             /\ t # <<>> /\ Last(t).at = "count_write" => Last(t).count = nested_counter'
  BY DEF Exact
<1> DEFINE Kept == /\ nested_counter' = nested_counter
                   /\ Labelled(t, Counted) = held
                   /\ t # <<>> => Last(t).at # "count_write"
<1> HIDE DEF s, t, held
<1>3. ASSUME NEW from \in CallLabels, NEW to \in CallLabels, Goto(Bsp, from, to),
             nested_counter' = nested_counter
      PROVE  Kept
  <2>1. s # <<>> /\ Last(s).at = from /\ MovesTo(s, t, to)
    BY <1>3, BspAssumption, GotoIs DEF s, t, SameKind
  <2>2. Labelled(t, Counted) = held
    BY <1>1, <2>1, LabelledMove, NotCounted DEF held
  <2>3. Last(t).at # "count_write"
    BY <2>1 DEF MovesTo, CallLabels
  <2> QED
    BY <1>3, <2>2, <2>3
<1>4. ASSUME NEW from \in Counted, NEW to \in Counted, NEW panic \in BOOLEAN,
             GotoCall(Bsp, from, to, CallOf(panic)), nested_counter' = nested_counter
      PROVE  Kept
  <2>1. /\ s # <<>> /\ Last(s).at = from
        /\ \E m : MovesTo(s, m, to) /\ PushesTo(m, t, CallOf(panic))
    BY <1>4, BspAssumption, GotoCallIs DEF s, t, SameKind, Counted
  <2>2. PICK m : MovesTo(s, m, to) /\ PushesTo(m, t, CallOf(panic))
    BY <2>1
  <2>3. m \in Seq(Activation)
    BY <2>2 DEF MovesTo
  <2>4. CallOf(panic).at = "lock" /\ CallOf(panic).at \notin Counted
    BY CallIs, NotCounted
  <2>5. Labelled(m, Counted) = held
    BY <1>1, <1>4, <2>1, <2>2, LabelledMove DEF held
  <2>6. Labelled(t, Counted) = Labelled(m, Counted)
    BY <2>2, <2>3, <2>4, LabelledPush
  <2>7. Last(t).at # "count_write"
    BY <2>2, <2>4 DEF PushesTo
  <2> QED
    BY <1>4, <2>5, <2>6, <2>7
<1>5. ASSUME NEW from \in {"unlock", "iret"}, Return(Bsp, from),
             nested_counter' = nested_counter
      PROVE  Kept
  <2>1. s # <<>> /\ Last(s).at = from /\ PopsTo(s, t)
    BY <1>5, BspAssumption, ReturnIs DEF s, t
  <2>2. Labelled(t, Counted) = held
    BY <1>1, <2>1, LabelledPop, NotCounted DEF held
  <2>3. ASSUME t # <<>> PROVE Last(t).at \in Waiting \union {"print"}
    <3>1. Len(s) - 1 \in 1 .. Len(s) - 1 /\ Last(t) = s[Len(s) - 1]
      BY <2>1, <2>3 DEF PopsTo
    <3> QED
      BY <1>1, <3>1 DEF Local, Nested
  <2> QED
    BY <1>5, <2>2, <2>3 DEF Waiting
<1>6. ASSUME Kept
      PROVE  /\ nested_counter' \in Nat
             /\ nested_counter' = Cardinality(Labelled(t, Counted))
             /\ t # <<>> /\ Last(t).at = "count_write" => Last(t).count = nested_counter'
  BY <1>1, <1>6
<1> HIDE DEF Kept
<1>7. CASE TakeLock(Bsp) \/ Printed(Bsp) \/ PanicCli(Bsp) \/ PanicUnlock(Bsp) \/ PanicHlt(Bsp)
  BY <1>3, <1>6, <1>7 DEF TakeLock, Printed, PanicCli, PanicUnlock, PanicHlt, CallLabels
<1>8. CASE Unlock(Bsp) \/ Iret(Bsp)
  BY <1>5, <1>6, <1>8 DEF Unlock, Iret
<1>9. CASE LoopReport(Bsp) \/ LoopPanic(Bsp) \/ Switch(Bsp) \/ EndTrace(Bsp)
  BY <1>4, <1>6, <1>9, NotCounted DEF LoopReport, LoopPanic, Switch, EndTrace
<1>10. CASE CountRead(Bsp)
  <2>1. /\ s # <<>> /\ Last(s).at = "count_read" /\ MovesTo(s, t, "count_write")
        /\ Last(t).count = nested_counter
    BY <1>10, BspAssumption, CountReadIs DEF s, t
  <2>2. Labelled(t, Counted) = held
    BY <1>1, <2>1, LabelledMove, NotCounted DEF held
  <2>3. nested_counter' = nested_counter
    BY <1>10 DEF CountRead
  <2> QED
    BY <1>1, <2>1, <2>2, <2>3
<1>11. CASE CountWrite(Bsp)
  <2>1. PICK to \in {"loop_report", "switch"} : Goto(Bsp, "count_write", to)
    BY <1>11 DEF CountWrite
  <2>2. SameKind("count_write", to)
    BY DEF SameKind, ExceptionLabels
  <2>3. s # <<>> /\ Last(s).at = "count_write" /\ MovesTo(s, t, to)
    BY <2>1, <2>2, BspAssumption, GotoIs DEF s, t
  <2>4. nested_counter' = nested_counter + 1
    BY <1>1, <1>11, <2>3 DEF CountWrite, s
  <2>5. Labelled(t, Counted) = held \union {Len(s)} /\ Len(s) \notin held
    BY <1>1, <2>3, LabelledMove, NotCounted DEF held
  <2>6. Cardinality(Labelled(t, Counted)) = Cardinality(held) + 1
    BY <1>2, <2>5, FS_AddElement
  <2>7. Last(t).at # "count_write"
    BY <2>3 DEF MovesTo
  <2> QED
    BY <1>1, <2>4, <2>6, <2>7
<1>12. CASE Uncount(Bsp)
  <2>1. Goto(Bsp, "uncount", "iret") /\ nested_counter' = nested_counter - 1
    BY <1>12 DEF Uncount
  <2>2. SameKind("uncount", "iret")
    BY DEF SameKind, ExceptionLabels
  <2>3. s # <<>> /\ Last(s).at = "uncount" /\ MovesTo(s, t, "iret")
    BY <2>1, <2>2, BspAssumption, GotoIs DEF s, t
  <2>4. Labelled(t, Counted) = held \ {Len(s)} /\ Len(s) \in held
    BY <1>1, <2>3, LabelledMove, NotCounted DEF held
  <2>5. Cardinality(Labelled(t, Counted)) = Cardinality(held) - 1
    BY <1>2, <2>4, FS_RemoveElement
  <2>6. Cardinality(Labelled(t, Counted)) \in Nat
    BY <2>3, LabelledFinite DEF MovesTo
  <2>7. Last(t).at # "count_write"
    BY <2>3 DEF MovesTo
  <2> QED
    BY <1>1, <2>1, <2>5, <2>6, <2>7
<1> QED
  BY <1>7, <1>8, <1>9, <1>10, <1>11, <1>12 DEF Step

\* No other step changes either.
LEMMA ExactNext ==
    ASSUME TypeOK, StacksOK, Modes, Exact, [Next]_vars
    PROVE  Exact'
<1>1. ASSUME stack' = stack, smp' \/ smp' = smp, nested_counter' = nested_counter PROVE Exact'
  BY <1>1 DEF Exact
<1>2. CASE UNCHANGED vars
  BY <1>1, <1>2 DEF vars
<1>3. CASE SmpInit
  <2>1. ~smp /\ stack' = stack /\ nested_counter' = nested_counter
    BY <1>3 DEF SmpInit, Modes
  <2> QED
    BY <2>1 DEF Exact
<1>4. ASSUME NEW c \in CPU, Sti \/ IdtInit(c) \/ StartAp(c) PROVE Exact'
  BY <1>1, <1>4 DEF Sti, IdtInit, StartAp
<1>5. ASSUME NEW c \in CPU, NEW a, PushesTo(stack[c], stack'[c], a), Only(c), Running(c),
             a.at \in {"lock", "count_read"}, smp' = smp, nested_counter' = nested_counter
      PROVE  Exact'
  <2> SUFFICES ASSUME ~smp PROVE Exact'
    BY <1>5 DEF Exact
  <2>1. c = Bsp
    BY <1>5, OneRuns
  <2>2. a.at \notin Counted
    BY <1>5, NotCounted
  <2>3. Labelled(stack'[Bsp], Counted) = Labelled(stack[Bsp], Counted)
    BY <1>5, <2>1, <2>2, LabelledPush DEF Only
  <2>4. Last(stack'[Bsp]).at # "count_write"
    BY <1>5, <2>1 DEF PushesTo
  <2> QED
    BY <1>5, <2>3, <2>4 DEF Exact
<1>6. ASSUME NEW c \in CPU, CallPrintk(c) PROVE Exact'
  <2>1. Only(c) /\ stack[c] = <<>> /\ Running(c) /\ smp' = smp /\ nested_counter' = nested_counter
    BY <1>6, CallPrintkIs DEF CallPrintk, Idle
  <2>2. PICK panic \in BOOLEAN : PushesTo(stack[c], stack'[c], CallOf(panic))
    BY <1>6, <2>1, CallPrintkIs
  <2>3. CallOf(panic).at = "lock"
    BY CallIs
  <2> QED
    BY <1>5, <2>1, <2>2, <2>3
<1>7. ASSUME NEW c \in CPU, Raise(c), stack' # stack PROVE Exact'
  <2>1. smp' = smp /\ nested_counter' = nested_counter /\ stage' = stage /\ Running(c)
    BY <1>7 DEF Raise, Reset, Idle
  <2>2. Only(c)
    BY <1>7, <2>1, RaiseIs
  <2>3. PICK n \in Number : PushesTo(stack[c], stack'[c], ExceptionOf(n, intr[c]))
    BY <1>7, <2>1, RaiseIs
  <2>4. ExceptionOf(n, intr[c]).at = "count_read"
    BY DEF ExceptionOf
  <2> QED
    BY <1>5, <2>1, <2>2, <2>3, <2>4
<1>8. ASSUME NEW c \in CPU, Interrupt(c), stack' # stack PROVE Exact'
  <2>1. smp' = smp /\ nested_counter' = nested_counter /\ Goto(c, "halted", "unlock") /\ Running(c)
    BY <1>8 DEF Interrupt, Reset
  <2>2. SameKind("halted", "unlock") /\ "halted" \notin Counted /\ "unlock" \notin Counted
    BY NotCounted DEF SameKind, CallLabels
  <2>3. /\ Only(c) /\ stack[c] # <<>> /\ Last(stack[c]).at = "halted"
        /\ MovesTo(stack[c], stack'[c], "unlock")
    BY <2>1, <2>2, GotoIs
  <2>4. Labelled(stack'[c], Counted) = Labelled(stack[c], Counted)
    BY <2>2, <2>3, LabelledMove DEF Only
  <2>5. Last(stack'[c]).at # "count_write"
    BY <2>3 DEF MovesTo
  <2> QED
    BY <2>1, <2>4, <2>5, OneRuns DEF Exact
<1>9. ASSUME NEW c \in CPU, Raise(c) \/ Interrupt(c) PROVE Exact'
  BY <1>1, <1>7, <1>8, <1>9 DEF Raise, Interrupt
<1>10. ASSUME NEW c \in CPU, Step(c) PROVE Exact'
  <2>1. smp' = smp /\ Running(c)
    BY <1>10 DEF Step, TakeLock, Printed, PanicCli, PanicUnlock, PanicHlt, Unlock,
       CountRead, CountWrite, LoopReport, LoopPanic, Switch, EndTrace, Uncount, Iret,
       Goto, GotoCall, Return
  <2>2. CASE smp
    BY <2>1, <2>2 DEF Exact
  <2>3. CASE ~smp
    BY <1>10, <2>1, <2>3, OneRuns, ExactStep
  <2> QED
    BY <2>2, <2>3
<1> QED
  BY <1>2, <1>3, <1>4, <1>6, <1>9, <1>10, BspAssumption DEF Next, Boot

-----------------------------------------------------------------------------
(* Types *)

\* A step that changes one stack only keeps the types.
LEMMA TypesKeep ==
    ASSUME TypeOK, NEW c \in CPU, Only(c), smp' = smp, console_lock' = console_lock,
           nested_counter' = nested_counter, stage' = stage, intr' = intr
    PROVE  TypeOK'
  BY DEF TypeOK, Only

\* With several CPUs no handler gets to uncount itself, with one the counter
\* counts it: it is never decremented at zero.
LEMMA TypesStep ==
    ASSUME TypeOK, StacksOK, Modes, Exact, NEW c \in CPU, Step(c)
    PROVE  TypeOK'
<1>1. Only(c) /\ stack' \in [CPU -> Seq(Activation)]
  BY StepOnly DEF Only
<1>2. CASE TakeLock(c) \/ PanicUnlock(c) \/ Unlock(c)
  BY <1>1, <1>2 DEF TakeLock, PanicUnlock, Unlock, LockConsole, UnlockConsole, TypeOK
<1>3. CASE PanicCli(c)
  BY <1>1, <1>3 DEF PanicCli, TypeOK
<1>4. CASE Printed(c) \/ PanicHlt(c) \/ CountRead(c) \/ LoopReport(c) \/ LoopPanic(c)
           \/ Switch(c) \/ EndTrace(c)
  BY <1>1, <1>4, TypesKeep DEF Printed, PanicHlt, CountRead, LoopReport, LoopPanic,
     Switch, EndTrace
<1>5. CASE CountWrite(c)
  <2>1. /\ stack[c] \in Seq(Activation) /\ stack[c] # <<>>
        /\ Last(stack[c]).at = "count_write"
    BY <1>5 DEF CountWrite, At, TypeOK
  <2>2. Last(stack[c]).count \in Nat
    BY <2>1, NonEmpty, Kinds DEF ExceptionLabels
  <2>3. nested_counter' \in Nat
    BY <1>5, <2>2 DEF CountWrite
  <2> QED
    BY <1>1, <1>5, <2>3 DEF CountWrite, TypeOK
<1>6. CASE Uncount(c)
  <2>1. Running(c) /\ stack[c] # <<>> /\ Last(stack[c]).at = "uncount"
    BY <1>6 DEF Uncount, Goto, At
  <2>2. ~smp
    <3>1. Len(stack[c]) \in Nat /\ Len(stack[c]) \in 1 .. Len(stack[c])
      BY <2>1, NonEmpty DEF TypeOK
    <3>2. smp => Len(stack[c]) < Len(stack[c])
      BY <2>1, <3>1 DEF StacksOK, Local, Final, Last
    <3> QED
      BY <3>1, <3>2
  <2>3. nested_counter' \in Nat
    BY <2>1, <2>2, OneRuns, ExactStep
  <2> QED
    BY <1>1, <1>6, <2>3 DEF Uncount, TypeOK
<1>7. CASE Iret(c)
  <2>1. /\ stack[c] \in Seq(Activation) /\ stack[c] # <<>>
        /\ Last(stack[c]).at = "iret"
    BY <1>7 DEF Iret, Return, At, TypeOK
  <2>2. Last(stack[c]).eflags \in BOOLEAN
    BY <2>1, NonEmpty, Kinds DEF ExceptionLabels
  <2>3. intr' \in [CPU -> BOOLEAN]
    BY <1>7, <2>2 DEF Iret, TypeOK
  <2> QED
    BY <1>1, <1>7, <2>3 DEF Iret, TypeOK
<1> QED
  BY <1>2, <1>3, <1>4, <1>5, <1>6, <1>7 DEF Step

\* Every step keeps the types.
LEMMA TypesNext ==
    ASSUME TypeOK, StacksOK, Modes, Exact, [Next]_vars
    PROVE  TypeOK'
<1>1. CASE UNCHANGED vars
  BY <1>1 DEF vars, TypeOK
<1>2. CASE SmpInit
  BY <1>2, SmpAssumption DEF SmpInit, TypeOK, Stages
<1>3. CASE Sti
  BY <1>3 DEF Sti, TypeOK
<1>4. ASSUME NEW c \in CPU, IdtInit(c) \/ StartAp(c) PROVE TypeOK'
  BY <1>4 DEF IdtInit, StartAp, TypeOK, Stages
<1>5. ASSUME Reset, smp' = smp, console_lock' = console_lock,
             nested_counter' = nested_counter, intr' = intr
      PROVE  TypeOK'
  BY <1>5 DEF Reset, TypeOK, Stages
<1>6. ASSUME NEW c \in CPU, CallPrintk(c) PROVE TypeOK'
  BY <1>6, CallPrintkIs, TypesKeep DEF CallPrintk
<1>7. ASSUME NEW c \in CPU, Raise(c) PROVE TypeOK'
  <2>1. /\ smp' = smp /\ console_lock' = console_lock
        /\ nested_counter' = nested_counter /\ intr' = intr
    BY <1>7 DEF Raise
  <2>2. Reset \/ stage' = stage
    BY <1>7 DEF Raise
  <2>3. CASE stage' = stage /\ stack' = stack
    BY <2>1, <2>3 DEF TypeOK
  <2> QED
    BY <1>5, <1>7, <2>1, <2>2, <2>3, RaiseIs, TypesKeep
<1>8. ASSUME NEW c \in CPU, Interrupt(c) PROVE TypeOK'
  <2>1. /\ smp' = smp /\ console_lock' = console_lock
        /\ nested_counter' = nested_counter /\ intr' = intr
    BY <1>8 DEF Interrupt
  <2>2. Reset \/ (stage' = stage /\ Goto(c, "halted", "unlock"))
    BY <1>8 DEF Interrupt
  <2>3. SameKind("halted", "unlock")
    BY DEF SameKind, CallLabels
  <2> QED
    BY <1>5, <2>1, <2>2, <2>3, GotoIs, TypesKeep
<1> QED
  BY <1>1, <1>2, <1>3, <1>4, <1>6, <1>7, <1>8, TypesStep DEF Next, Boot

-----------------------------------------------------------------------------
(* The invariant and the theorems *)

\* The inductive invariant.
IInv == TypeOK /\ StacksOK /\ Modes /\ Mutex /\ Exact

\* The invariant holds at the start.
LEMMA InitHolds == Init => IInv
<1> SUFFICES ASSUME Init PROVE IInv
  OBVIOUS
<1>1. \A c \in CPU : stack[c] = <<>>
  BY DEF Init
<1>2. TypeOK
  BY EmptySeq DEF Init, TypeOK, Stages
<1>3. StacksOK
  BY <1>1, LocalEmpty DEF StacksOK
<1>4. Modes
  BY DEF Init, Modes
<1>5. Mutex
  BY DEF Init, Mutex
<1>6. Exact
  <2>1. Labelled(<<>>, Counted) = {}
    BY DEF Labelled
  <2> QED
    BY <1>1, <2>1, BspAssumption, FS_EmptySet DEF Init, Exact
<1> QED
  BY <1>2, <1>3, <1>4, <1>5, <1>6 DEF IInv

\* Every step keeps the invariant.
LEMMA StepHolds == IInv /\ [Next]_vars => IInv'
<1> SUFFICES ASSUME IInv, [Next]_vars PROVE IInv'
  OBVIOUS
<1> USE DEF IInv
<1> QED
  BY TypesNext, LocalNext, ModesNext, MutexNext, ExactNext

\* The invariant holds always.
LEMMA Invariance == Spec => []IInv
  BY InitHolds, StepHolds, PTL DEF Spec

\* Every variable keeps its type; in particular the counter of nested
\* handlers, which CPUs decrement without a lock, never gets below zero.
THEOREM TypeCorrect == Spec => []TypeOK
<1>1. IInv => TypeOK
  BY DEF IInv
<1> QED
  BY <1>1, Invariance, PTL

\* For any number of CPUs and any depth of exceptions, the word of the lock
\* counts the calls that print, once there are several CPUs.
THEOREM OneCallPrints == Spec => []OnePrinter
<1>1. IInv => OnePrinter
  <2> SUFFICES ASSUME IInv, smp PROVE console_lock = Cardinality(Printers)
    BY DEF OnePrinter
  <2>1. CASE console_lock = 0 /\ Printers = {}
    BY <2>1, FS_EmptySet
  <2>2. CASE console_lock = 1 /\ \E p : Printers = {p}
    BY <2>2, FS_Singleton
  <2> QED
    BY <2>1, <2>2 DEF IInv, Mutex
<1> QED
  BY <1>1, Invariance, PTL

\* With one CPU the counter is the depth and printing calls are masked.
THEOREM OneCpuNests == Spec => []OneCpuInOrder
<1>1. IInv => NestedExact
  <2> SUFFICES ASSUME IInv, ~smp
               PROVE  nested_counter = Cardinality(Which(Bsp, Counted))
    BY DEF NestedExact
  <2>1. Which(Bsp, Counted) = Labelled(stack[Bsp], Counted)
    BY BspAssumption, LenProperties DEF IInv, TypeOK, Which, Labelled
  <2> QED
    BY <2>1 DEF IInv, Exact
<1>2. IInv => MaskedWhilePrinting
  BY DEF IInv, StacksOK, Local, Masked, MaskedWhilePrinting, At
<1> QED
  BY <1>1, <1>2, Invariance, PTL DEF OneCpuInOrder

\* With several CPUs no step of any of them wakes a CPU that has halted in
\* panic.
THEOREM PanicIsFinal == Spec => HaltIsFinalSmp
<1>1. ASSUME IInv, [Next]_vars, smp, NEW c \in CPU, Halted(c)
      PROVE  Halted(c)'
  <2>1. /\ stack[c] \in Seq(Activation) /\ stack[c] # <<>>
        /\ Last(stack[c]).at = "halted"
    BY <1>1 DEF Halted, At, IInv, TypeOK
  <2>2. ~intr[c]
    BY <1>1, <2>1 DEF IInv, StacksOK, Local, Final
  <2> SUFFICES stack'[c] = stack[c]
    BY <2>1 DEF Halted, At
  <2>3. ASSUME NEW d \in CPU, Only(d), d # c PROVE stack'[c] = stack[c]
    BY <2>3 DEF Only
  <2>4. ASSUME Step(c) PROVE FALSE
    BY <2>1, <2>4 DEF Step, TakeLock, Printed, PanicCli, PanicUnlock, PanicHlt, Unlock,
       CountRead, CountWrite, LoopReport, LoopPanic, Switch, EndTrace, Uncount, Iret,
       Goto, GotoCall, Return, At
  <2>5. ASSUME CallPrintk(c) PROVE FALSE
    BY <2>1, <2>5 DEF CallPrintk, Idle
  <2>6. ASSUME Raise(c) PROVE FALSE
    BY <2>1, <2>6 DEF Raise, Idle, At
  <2>7. ASSUME NEW d \in CPU, Raise(d), d # c PROVE stack'[c] = stack[c]
    <3>1. CASE stage' = stage
      BY <1>1, <2>3, <2>7, <3>1, RaiseIs DEF IInv
    <3>2. CASE Reset
      BY <3>2 DEF Reset
    <3> QED
      BY <2>7, <3>1, <3>2 DEF Raise
  <2>8. ASSUME NEW d \in CPU, Interrupt(d) PROVE stack'[c] = stack[c]
    <3>1. SameKind("halted", "unlock")
      BY DEF SameKind, CallLabels
    <3>2. CASE Goto(d, "halted", "unlock") /\ intr[d]
      BY <1>1, <2>2, <2>3, <3>1, <3>2, GotoIs DEF IInv
    <3>3. CASE Reset
      BY <3>3 DEF Reset
    <3> QED
      BY <2>8, <3>2, <3>3 DEF Interrupt
  <2>9. ASSUME NEW d \in CPU, Step(d) \/ CallPrintk(d), d # c PROVE stack'[c] = stack[c]
    BY <1>1, <2>3, <2>9, StepOnly, CallPrintkIs DEF IInv
  <2>10. ASSUME Boot \/ UNCHANGED vars PROVE stack'[c] = stack[c]
    BY <2>10 DEF Boot, SmpInit, Sti, IdtInit, StartAp, vars
  <2> QED
    BY <1>1, <2>4, <2>5, <2>6, <2>7, <2>8, <2>9, <2>10 DEF Next
<1>2. IInv /\ [Next]_vars => [smp => \A c \in CPU : Halted(c) => Halted(c)']_vars
  BY <1>1
<1> QED
  BY <1>2, Invariance, PTL DEF Spec, HaltIsFinalSmp
=============================================================================
