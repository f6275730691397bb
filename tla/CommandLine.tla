---------------------------- MODULE CommandLine ----------------------------
(***************************************************************************)
(* parse_cmdline of arch_main.c as an operator: from the command line the  *)
(* boot loader left to the table of kernel arguments.                      *)
(*                                                                         *)
(* A line is a sequence of tokens, a token being "=", a space, the final   *)
(* NUL or what stands between those; a key or a value is the sequence of   *)
(* tokens it was copied from.                                              *)
(***************************************************************************)
EXTENDS Integers, Sequences, FiniteSets

Space == " "
NUL == "NUL"
NULL == <<"NULL">>      \* the null pointer, as a text

\* What ends an argument.
Ends(c) == c \in {Space, NUL}

NoArg == [key |-> NULL, value |-> NULL]

\* One entry for each end.
NArgs(line) == Cardinality({i \in DOMAIN line : Ends(line[i])})

Begin(n) ==
    [kargs |-> [i \in 1 .. n |-> NoArg],
     j |-> 1,           \* the entry being filled
     text |-> <<>>,     \* since the last key or value
     is_key |-> TRUE,
     twice |-> FALSE,   \* a key came twice: the kernel panics
     done |-> FALSE]

\* A mistake to test against: the entry is left behind by every end.
TakeCountsWords(p, c) ==
    CASE p.done -> p
      [] ~p.done /\ p.is_key /\ c = "=" ->
            [p EXCEPT !.kargs[p.j].key = p.text, !.text = <<>>, !.is_key = FALSE]
      [] ~p.done /\ ~p.is_key /\ Ends(c) ->
            [p EXCEPT !.kargs[p.j].value = p.text, !.text = <<>>,
                      !.is_key = FALSE, !.j = @ + 1, !.done = c = NUL]
      [] OTHER -> [p EXCEPT !.text = Append(@, c)]

\* An iteration of the loop over the string.  Only = ends a key: the words
\* and spaces before it belong to it.
Take(p, c) ==
    CASE p.done -> p
      [] ~p.done /\ p.is_key /\ c = "=" ->
            IF \E i \in DOMAIN p.kargs : p.kargs[i].key = p.text
            THEN [p EXCEPT !.twice = TRUE, !.done = TRUE]
            ELSE [p EXCEPT !.kargs[p.j].key = p.text, !.text = <<>>,
                           !.is_key = FALSE]
      [] ~p.done /\ ~p.is_key /\ Ends(c) ->
            [p EXCEPT !.kargs[p.j].value = p.text, !.text = <<>>,
                      !.is_key = TRUE, !.j = @ + 1, !.done = c = NUL]
      [] OTHER -> [p EXCEPT !.text = Append(@, c)]

\* The loop after n tokens.  (The set of one element makes TLC keep what the
\* tokens before have given.)
parsed(line) ==
    LET after[n \in 0 .. Len(line)] ==
            IF n = 0 THEN Begin(NArgs(line))
            ELSE CHOOSE q \in {Take(p, line[n]) : p \in {after[n - 1]}} : TRUE
    IN  after

\* An empty line, of 9 bytes with its header, has no table.
parse_cmdline(line) ==
    IF line = <<NUL>> THEN Begin(0) ELSE parsed(line)[Len(line)]
=============================================================================
