---------------------------- MODULE MCInterrupts ----------------------------
(* Instances of Interrupts for TLC. *)
EXTENDS Interrupts

\* The timer, a line below the cascade input and one of the slave.
ThreeLines == {0, 3, 9}

\* The timer, a device of the master, a spurious number of the chips; and one
\* that is no number of the chips.
SomeNumbers == {32, 35, 39}
AlsoFree == SomeNumbers \union {48}

\* One application processor: a longer delay and a short one.
OneAp == <<2, 1>>
=============================================================================
