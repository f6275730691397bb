----------------------------- MODULE MCConsole -----------------------------
(* Instances of Console for TLC. *)
EXTENDS Console

\* With one CPU the drivers may fault, four handlers deep; with several an
\* exception comes from the code between calls.
FaultyAlone == {FALSE}
DeepAlone == [several \in BOOLEAN |-> IF several THEN 1 ELSE 9]

\* Nothing faults while it prints.
NeverFaulty == {}
Shallow == [several \in BOOLEAN |-> 1]

Either == BOOLEAN
OnlyOne == {FALSE}
=============================================================================
