----------------------------- MODULE BootProofs -----------------------------
(***************************************************************************)
(* Proofs about Boot for any machines that satisfy its assumption, with    *)
(* command lines, memory maps and MP tables of any length.                 *)
(*                                                                         *)
(* The loops of the boot are recursive functions, which have values only   *)
(* if they exist: Recursion builds them, and UpTo is the induction over    *)
(* their arguments.  The invariant says that the boot is past the test of  *)
(* the magic number when it reads the map (FromLoader), what the parsers   *)
(* have left (Parsed, Copied), and where the texts printed so far are:     *)
(* all in the ring, or all on the one device chosen (OnConsole).  What     *)
(* smp_init found is a second invariant (CpusFound).                       *)
(***************************************************************************)
EXTENDS Boot, FiniteSetTheorems, SequenceTheorems, TLAPS

-----------------------------------------------------------------------------
(* Induction, for sets of numbers *)

\* A set of numbers that is not empty has a least one.
LEMMA NatLeast ==
    ASSUME NEW T, T \subseteq Nat, T # {}
    PROVE  \E m \in T : \A n \in T : m <= n
<1> DEFINE R == OpToRel(<, Nat)
<1>1. IsWellFoundedOn(R, Nat)
  BY NatLessThanWellFounded
<1>2. \A m, n \in Nat : <<m, n>> \in R <=> m < n
  BY DEF OpToRel
<1> HIDE DEF R
<1>3. \E x \in T : \A y \in T : ~ (<<y, x>> \in R)
  BY <1>1, WFMin
<1>4. PICK x \in T : \A y \in T : ~ (<<y, x>> \in R)
  BY <1>3
<1>5. \A y \in T : ~ (y < x)
  BY <1>2, <1>4
<1> QED
  BY <1>5

\* A set that holds 0, and the successor of every number up to n it holds,
\* holds every number up to n.
LEMMA UpTo ==
    ASSUME NEW N \in Nat, NEW S, 0 \in S,
           \A n \in 0 .. N : n \in S /\ n < N => n + 1 \in S
    PROVE  \A n \in 0 .. N : n \in S
<1> SUFFICES ASSUME (0 .. N) \ S # {} PROVE FALSE
  OBVIOUS
<1> DEFINE T == (0 .. N) \ S
<1>a. T \subseteq Nat /\ T # {}
  OBVIOUS
<1> HIDE DEF T
<1>b. PICK m \in T : \A n \in T : m <= n
  BY <1>a, NatLeast
<1>1. /\ m \in (0 .. N) \ S
      /\ \A n \in (0 .. N) \ S : m <= n
  BY <1>b DEF T
<1>2. m # 0 /\ m - 1 \in 0 .. N /\ m - 1 \notin (0 .. N) \ S
  BY <1>1
<1> QED
  BY <1>1, <1>2

\* f says what a loop has computed after up to N iterations.
Loop(f, N, D, base, step) ==
    /\ f \in [0 .. N -> D]
    /\ f[0] = base
    /\ \A n \in 1 .. N : f[n] = step[f[n - 1]][n]

\* What a loop computes exists.
LEMMA Recursion ==
    ASSUME NEW N \in Nat, NEW D, NEW base \in D, NEW step \in [D -> [1 .. N -> D]]
    PROVE  \E f : Loop(f, N, D, base, step)
<1> DEFINE upto(f, n) == Loop(f, n, D, base, step)
           S == {n \in 0 .. N : \E f : upto(f, n)}
<1> HIDE DEF S
<1>1. 0 \in S
  <2> DEFINE f == [i \in 0 .. 0 |-> base]
  <2>1. upto(f, 0)
    BY DEF Loop
  <2> HIDE DEF f
  <2> QED BY <2>1 DEF S
<1>2. \A n \in 0 .. N : n \in S /\ n < N => n + 1 \in S
  <2> SUFFICES ASSUME NEW n \in 0 .. N, n \in S, n < N PROVE n + 1 \in S
    OBVIOUS
  <2>1. PICK f : upto(f, n)
    BY DEF S
  <2> DEFINE last == step[f[n]][n + 1]
             g == [i \in 0 .. n + 1 |-> IF i = n + 1 THEN last ELSE f[i]]
  <2>2. last \in D
    BY <2>1 DEF Loop
  <2> HIDE DEF last
  <2>3. g \in [0 .. n + 1 -> D] /\ \A i \in 0 .. n : g[i] = f[i]
    BY <2>1, <2>2 DEF Loop
  <2>4. g[n + 1] = step[g[n]][n + 1]
    BY <2>3 DEF last
  <2>5. \A i \in 1 .. n + 1 : g[i] = step[g[i - 1]][i]
    <3> HIDE DEF g
    <3> SUFFICES ASSUME NEW i \in 1 .. n + 1 PROVE g[i] = step[g[i - 1]][i]
      OBVIOUS
    <3>1. CASE i = n + 1
      BY <2>4, <3>1
    <3>2. CASE i # n + 1
      <4>1. i \in 1 .. n /\ i - 1 \in 0 .. n
        BY <3>2
      <4>2. g[i] = f[i] /\ g[i - 1] = f[i - 1]
        BY <2>3, <4>1
      <4> QED BY <4>1, <4>2, <2>1 DEF Loop
    <3> QED BY <3>1, <3>2
  <2>6. upto(g, n + 1)
    <3> HIDE DEF g
    <3> QED BY <2>1, <2>3, <2>5 DEF Loop
  <2>7. n + 1 \in 0 .. N
    OBVIOUS
  <2> QED BY <2>6, <2>7 DEF S
<1>3. N \in S
  <2>1. \A n \in 0 .. N : n \in S
    BY <1>1, <1>2, UpTo
  <2> QED BY <2>1
<1> QED
  BY <1>3 DEF S

-----------------------------------------------------------------------------
(* The command line *)

\* Tokens (that a literal is a string is not known to the provers).
Token == STRING \union {"=", Space, NUL, "NULL"}
Text == Seq(Token)

\* What parse_cmdline has after some tokens, with a table of n entries.
Parsing(n) ==
    [kargs : [1 .. n -> [key : Text, value : Text]], j : Nat, text : Text,
     is_key : BOOLEAN, twice : BOOLEAN, done : BOOLEAN]

\* Texts of one token, and the two texts that are put together.
LEMMA OneInSeq == ASSUME NEW S, NEW s \in S PROVE <<s>> \in Seq(S)
OBVIOUS

LEMMA SeparatorsAreTexts == <<>> \in Text /\ <<Space>> \in Text /\ <<NUL>> \in Text
<1>1. Space \in Token /\ NUL \in Token
  BY DEF Token
<1> QED
  BY <1>1, OneInSeq DEF Text

LEMMA Concat ==
    ASSUME NEW s \in Text, NEW t \in Text
    PROVE  /\ s \o t \in Text /\ Len(s \o t) = Len(s) + Len(t)
           /\ Len(s) \in Nat /\ Len(t) \in Nat
           /\ \A i \in 1 .. Len(s) : (s \o t)[i] = s[i]
           /\ \A i \in 1 .. Len(t) : (s \o t)[Len(s) + i] = t[i]
BY DEF Text

\* The parser stays within its table: before the loop ...
LEMMA BeginTyped == ASSUME NEW n \in Nat PROVE Begin(n) \in Parsing(n)
<1>1. NULL \in Text
  BY OneInSeq DEF NULL, Text, Token
<1>2. NoArg \in [key : Text, value : Text]
  BY <1>1 DEF NoArg
<1>3. <<>> \in Text
  BY DEF Text
<1> QED
  BY <1>2, <1>3 DEF Begin, Parsing

\* ... and after a token.
LEMMA TakeTyped ==
    ASSUME NEW n \in Nat, NEW p \in Parsing(n), NEW c \in Token
    PROVE  Take(p, c) \in Parsing(n)
<1>1. <<>> \in Text /\ Append(p.text, c) \in Text
  BY DEF Parsing, Text
<1> USE DEF Parsing, Take
<1>2. CASE p.done
  BY <1>2
<1>3. CASE ~p.done /\ p.is_key /\ c = "="
  <2>1. CASE \E i \in DOMAIN p.kargs : p.kargs[i].key = p.text
    BY <1>3, <2>1
  <2>2. CASE ~ \E i \in DOMAIN p.kargs : p.kargs[i].key = p.text
    <3> DEFINE new == [p.kargs EXCEPT ![p.j].key = p.text]
    <3>1. new \in [1 .. n -> [key : Text, value : Text]]
      OBVIOUS
    <3> QED BY <1>1, <1>3, <2>2, <3>1
  <2> QED BY <2>1, <2>2
<1>4. CASE ~p.done /\ ~p.is_key /\ Ends(c)
  <2> DEFINE last == c = NUL
             new == [p.kargs EXCEPT ![p.j].value = p.text]
             q == [kargs |-> new, j |-> p.j + 1, text |-> <<>>, is_key |-> TRUE,
                   twice |-> p.twice, done |-> last]
  <2>1. new \in [1 .. n -> [key : Text, value : Text]]
    OBVIOUS
  <2>2. ~(p.is_key /\ c = "=")
    BY <1>4
  <2>3. Take(p, c) = q
    BY <1>4, <2>2
  <2>4. last \in BOOLEAN /\ <<>> \in Text
    BY <1>1
  <2>5. q \in Parsing(n)
    <3> HIDE DEF new, last
    <3> QED BY <2>1, <2>4
  <2> HIDE DEF q
  <2> QED BY <2>3, <2>5
<1>5. CASE ~p.done /\ ~(p.is_key /\ c = "=") /\ ~(~p.is_key /\ Ends(c))
  <2>1. Take(p, c) = [p EXCEPT !.text = Append(@, c)]
    BY <1>5
  <2> QED BY <1>1, <2>1
<1> QED
  BY <1>2, <1>3, <1>4, <1>5

\* A line has a number of ends.
LEMMA NArgsType ==
    ASSUME NEW line \in Text PROVE NArgs(line) \in Nat
<1>1. IsFiniteSet(1 .. Len(line))
  BY FS_Interval DEF Text
<1>2. {i \in DOMAIN line : Ends(line[i])} \in SUBSET (1 .. Len(line))
  BY DEF Text
<1> QED
  BY <1>1, <1>2, FS_Subset, FS_CardinalityType DEF NArgs

\* The loop of parse_cmdline, token by token.
LEMMA ParsedFrom ==
    ASSUME NEW line \in Text
    PROVE  /\ \A n \in 0 .. Len(line) : parsed(line)[n] \in Parsing(NArgs(line))
           /\ parsed(line)[0] = Begin(NArgs(line))
           /\ \A n \in 1 .. Len(line) :
                 parsed(line)[n] = Take(parsed(line)[n - 1], line[n])
<1> DEFINE N == Len(line)
           D == Parsing(NArgs(line))
           base == Begin(NArgs(line))
           step == [p \in D |-> [n \in 1 .. N |-> Take(p, line[n])]]
           next(x, n) == CHOOSE q \in {Take(p, line[n]) : p \in {x}} : TRUE
<1>1. N \in Nat /\ base \in D /\ \A n \in 1 .. N : line[n] \in Token
  BY NArgsType, BeginTyped DEF Text
<1>2. step \in [D -> [1 .. N -> D]]
  BY <1>1, NArgsType, TakeTyped
<1>3. \A p \in D, n \in 1 .. N : step[p][n] = next(p, n) /\ next(p, n) = Take(p, line[n])
  OBVIOUS
<1>4. parsed(line) = [n \in 0 .. N |-> IF n = 0 THEN base ELSE next(parsed(line)[n - 1], n)]
  <2> HIDE DEF D, step, next, base, N
  <2>1. PICK f : Loop(f, N, D, base, step)
    BY <1>1, <1>2, Recursion
  <2>2. \A n \in 0 .. N : f[n] = IF n = 0 THEN base ELSE next(f[n - 1], n)
    <3>1. f[0] = base /\ f \in [0 .. N -> D]
      BY <2>1 DEF Loop
    <3>2. ASSUME NEW n \in 1 .. N PROVE f[n] = next(f[n - 1], n)
      <4>1. f[n - 1] \in D
        BY <1>1, <3>1
      <4>2. f[n] = step[f[n - 1]][n]
        BY <2>1 DEF Loop
      <4> QED BY <1>3, <4>1, <4>2
    <3> QED BY <1>1, <3>1, <3>2
  <2>3. f = [n \in 0 .. N |-> IF n = 0 THEN base ELSE next(f[n - 1], n)]
    BY <2>1, <2>2 DEF Loop
  <2> QED BY <2>3 DEF parsed, base, next, N
<1> DEFINE g == parsed(line)
<1>5. g[0] = base /\ \A n \in 1 .. N : g[n] = next(g[n - 1], n)
  <2> HIDE DEF D, base, next, N
  <2> QED BY <1>1, <1>4
<1>6. \A n \in 1 .. N : g[n] = Take(g[n - 1], line[n])
  BY <1>5
<1>7. \A n \in 0 .. N : g[n] \in D
  <2> DEFINE S == {n \in 0 .. N : g[n] \in D}
  <2>1. 0 \in S
    BY <1>1, <1>5
  <2>2. \A n \in 0 .. N : n \in S /\ n < N => n + 1 \in S
    <3> SUFFICES ASSUME NEW n \in 0 .. N, g[n] \in D, n < N PROVE g[n + 1] \in D
      BY <1>1
    <3>1. g[n + 1] = Take(g[n], line[n + 1]) /\ line[n + 1] \in Token
      BY <1>1, <1>6
    <3> QED BY <3>1, NArgsType, TakeTyped
  <2> HIDE DEF S
  <2>3. \A n \in 0 .. N : n \in S
    BY <1>1, <2>1, <2>2, UpTo
  <2> QED BY <2>3 DEF S
<1> QED
  BY <1>5, <1>6, <1>7

\* What MachinesAssumption says of the words of a machine.
WordsOK(words) ==
    /\ words \in Seq(Seq(STRING))
    /\ \A n \in DOMAIN words :
          /\ Len(words[n]) \in {1, 2}
          /\ \A i \in DOMAIN words[n] : words[n][i] \notin {"=", Space, NUL}

\* What the line has for a word that another one follows, or not.
Piece(words, n) == Word(words[n]) \o IF n < Len(words) THEN <<Space>> ELSE <<>>

\* An assignment is three tokens, and a space if a word follows.
LEMMA PieceOf ==
    ASSUME NEW words, WordsOK(words), NEW n \in 1 .. Len(words)
    PROVE  /\ Piece(words, n) \in Text
           /\ Len(words[n]) = 2 =>
                /\ Len(Piece(words, n)) = IF n < Len(words) THEN 4 ELSE 3
                /\ Piece(words, n)[1] = words[n][1]
                /\ Piece(words, n)[2] = "="
                /\ Piece(words, n)[3] = words[n][2]
                /\ n < Len(words) => Piece(words, n)[4] = Space
<1> DEFINE w == words[n]
           sep == IF n < Len(words) THEN <<Space>> ELSE <<>>
<1>1. w \in Seq(STRING) /\ Len(w) \in {1, 2}
  BY DEF WordsOK
<1>2. sep \in Text
  BY SeparatorsAreTexts
<1> HIDE DEF w
<1>3. CASE Len(w) = 2
  <2> DEFINE x == <<w[1], "=", w[2]>>
  <2>1. Word(w) = x
    BY <1>3 DEF Word
  <2>2. w[1] \in Token /\ w[2] \in Token
    BY <1>1, <1>3 DEF Token
  <2>3. x \in Text /\ Len(x) = 3 /\ x[1] = w[1] /\ x[2] = "=" /\ x[3] = w[2]
    BY <2>2 DEF Text, Token
  <2>4. /\ Len(sep) = IF n < Len(words) THEN 1 ELSE 0
        /\ n < Len(words) => sep[1] = Space
    OBVIOUS
  <2> HIDE DEF x, sep
  <2>5. /\ x \o sep \in Text /\ Len(x \o sep) = 3 + Len(sep)
        /\ \A i \in 1 .. 3 : (x \o sep)[i] = x[i]
        /\ Len(sep) = 1 => (x \o sep)[4] = sep[1]
    <3>0. /\ x \o sep \in Text /\ Len(x \o sep) = Len(x) + Len(sep)
          /\ \A i \in 1 .. Len(x) : (x \o sep)[i] = x[i]
          /\ \A i \in 1 .. Len(sep) : (x \o sep)[Len(x) + i] = sep[i]
      BY <1>2, <2>3, Concat
    <3>1. /\ x \o sep \in Text /\ Len(x \o sep) = 3 + Len(sep)
          /\ \A i \in 1 .. 3 : (x \o sep)[i] = x[i]
          /\ \A i \in 1 .. Len(sep) : (x \o sep)[3 + i] = sep[i]
      BY <2>3, <3>0
    <3>2. Len(sep) = 1 => 1 \in 1 .. Len(sep) /\ 3 + 1 = 4
      OBVIOUS
    <3> QED BY <3>1, <3>2
  <2>6. Piece(words, n) = x \o sep
    BY <2>1 DEF Piece, w, sep
  <2> QED BY <2>3, <2>4, <2>5, <2>6 DEF w
<1>4. CASE Len(w) = 1
  <2>1. Word(w) = w /\ w \in Text
    BY <1>1, <1>4 DEF Word, Text, Token
  <2>2. w \o sep \in Text
    BY <2>1, <1>2 DEF Text
  <2> QED BY <1>4, <2>1, <2>2 DEF Piece, w
<1> QED
  BY <1>1, <1>3, <1>4

\* The loop that Line stands for, piece by piece.
LEMMA LineFrom ==
    ASSUME NEW words, WordsOK(words)
    PROVE  \E f \in [0 .. Len(words) -> Text] :
              /\ f[0] = <<>>
              /\ \A n \in 1 .. Len(words) : f[n] = f[n - 1] \o Piece(words, n)
              /\ Line(words) = f[Len(words)] \o <<NUL>>
<1> DEFINE N == Len(words)
           step == [t \in Text |-> [n \in 1 .. N |-> t \o Piece(words, n)]]
           lines(f) == f = [n \in 0 .. N |->
                              IF n = 0 THEN <<>>
                              ELSE f[n - 1] \o Word(words[n])
                                   \o IF n < N THEN <<Space>> ELSE <<>>]
<1>1. N \in Nat /\ <<>> \in Text
  BY DEF WordsOK, Text
<1>2. step \in [Text -> [1 .. N -> Text]]
  <2>1. \A t \in Text, n \in 1 .. N : t \o Piece(words, n) \in Text
    BY PieceOf DEF Text
  <2> QED BY <2>1
<1>3. PICK f : Loop(f, N, Text, <<>>, step)
  <2> HIDE DEF N, step
  <2> QED BY <1>1, <1>2, Recursion
<1>4. \A n \in 1 .. N : f[n] = f[n - 1] \o Piece(words, n)
  <2> SUFFICES ASSUME NEW n \in 1 .. N PROVE f[n] = f[n - 1] \o Piece(words, n)
    OBVIOUS
  <2>1. f[n - 1] \in Text /\ f[n] = step[f[n - 1]][n]
    <3>1. n - 1 \in 0 .. N
      BY <1>1
    <3> HIDE DEF N, step
    <3> QED BY <1>3, <3>1 DEF Loop
  <2> QED BY <2>1
<1>5. ASSUME NEW n \in 1 .. N
      PROVE  f[n] = f[n - 1] \o Word(words[n]) \o IF n < N THEN <<Space>> ELSE <<>>
  <2> DEFINE v == Word(words[n])
             sep == IF n < N THEN <<Space>> ELSE <<>>
  <2>1. f[n - 1] \in Text
    BY <1>1, <1>3 DEF Loop
  <2>2. v \in Text /\ sep \in Text
    <3>1. words[n] \in Seq(STRING) /\ Len(words[n]) \in {1, 2}
      BY DEF WordsOK
    <3>2. sep \in Text
      BY SeparatorsAreTexts
    <3>3. CASE Len(words[n]) = 1
      BY <3>1, <3>2, <3>3 DEF Word, Text, Token
    <3>4. CASE Len(words[n]) = 2
      <4>1. words[n][1] \in STRING /\ words[n][2] \in STRING
        BY <3>1, <3>4
      <4>2. <<words[n][1], "=", words[n][2]>> \in Text
        BY <4>1 DEF Text, Token
      <4> QED BY <3>2, <3>4, <4>2 DEF Word
    <3> QED BY <3>1, <3>3, <3>4
  <2>3. f[n - 1] \o (v \o sep) = f[n - 1] \o v \o sep
    <3> DEFINE t == f[n - 1]
    <3>1. t \in Seq(Token) /\ v \in Seq(Token) /\ sep \in Seq(Token)
      BY <2>1, <2>2 DEF Text
    <3> HIDE DEF v, sep, t
    <3>2. (t \o v) \o sep = t \o (v \o sep)
      BY <3>1, ConcatAssociative
    <3> QED BY <3>2 DEF t
  <2>4. f[n] = f[n - 1] \o (v \o sep)
    BY <1>4 DEF Piece
  <2> QED BY <2>3, <2>4
<1>6. lines(f)
  <2> DEFINE rest(n) == Word(words[n]) \o IF n < N THEN <<Space>> ELSE <<>>
  <2>1. f \in [0 .. N -> Text] /\ f[0] = <<>>
    BY <1>3 DEF Loop
  <2>2. \A n \in 0 .. N :
          f[n] = IF n = 0 THEN <<>>
                 ELSE f[n - 1] \o Word(words[n]) \o IF n < N THEN <<Space>> ELSE <<>>
    <3> SUFFICES ASSUME NEW n \in 0 .. N, n # 0
                 PROVE  f[n] = f[n - 1] \o Word(words[n]) \o IF n < N THEN <<Space>> ELSE <<>>
      BY <2>1
    <3>1. n \in 1 .. N
      BY <1>1
    <3> QED BY <1>5, <3>1
  <2> QED BY <2>1, <2>2
<1>7. PICK g : lines(g) /\ Line(words) = g[N] \o <<NUL>>
  BY <1>6 DEF Line
<1>8. g[N] = f[N]
  <2> DEFINE S == {n \in 0 .. N : g[n] = f[n]}
             next(t, n) == t \o Word(words[n]) \o IF n < N THEN <<Space>> ELSE <<>>
  <2>1. ASSUME NEW h, lines(h)
        PROVE  h[0] = <<>> /\ \A n \in 1 .. N : h[n] = next(h[n - 1], n)
    <3> HIDE DEF N, next
    <3>1. h = [n \in 0 .. N |-> IF n = 0 THEN <<>> ELSE next(h[n - 1], n)]
      BY <2>1 DEF next
    <3> QED BY <1>1, <3>1
  <2> HIDE DEF N, next, lines
  <2>2. 0 \in S
    BY <1>1, <1>6, <1>7, <2>1
  <2>3. \A n \in 0 .. N : n \in S /\ n < N => n + 1 \in S
    <3> SUFFICES ASSUME NEW n \in 0 .. N, g[n] = f[n], n < N PROVE g[n + 1] = f[n + 1]
      BY <1>1
    <3>1. n + 1 \in 1 .. N /\ (n + 1) - 1 = n
      BY <1>1
    <3>2. g[n + 1] = next(g[n], n + 1) /\ f[n + 1] = next(f[n], n + 1)
      BY <1>6, <1>7, <2>1, <3>1
    <3> QED BY <3>2
  <2> HIDE DEF S
  <2>4. \A n \in 0 .. N : n \in S
    BY <1>1, <2>2, <2>3, UpTo
  <2> QED BY <1>1, <2>4 DEF S
<1> QED
  BY <1>3, <1>4, <1>7, <1>8 DEF Loop

\* The text has assignment i of the words in its place.
Has(t, words, i) ==
    /\ Len(t) >= 4 * i - 1
    /\ t[4 * i - 3] = words[i][1]
    /\ t[4 * i - 2] = "="
    /\ t[4 * i - 1] = words[i][2]
    /\ i < Len(words) => Len(t) >= 4 * i /\ t[4 * i] = Space

\* What is added behind leaves an assignment where it is.
LEMMA HasStays ==
    ASSUME NEW t \in Text, NEW x \in Text, NEW words, NEW i \in Nat \ {0}, Has(t, words, i)
    PROVE  Has(t \o x, words, i)
<1>1. Len(t \o x) = Len(t) + Len(x) /\ \A k \in 1 .. Len(t) : (t \o x)[k] = t[k]
  BY DEF Text
<1>2. Len(t) \in Nat /\ Len(x) \in Nat
  BY DEF Text
<1>3. 4 * i - 3 \in 1 .. Len(t) /\ 4 * i - 2 \in 1 .. Len(t) /\ 4 * i - 1 \in 1 .. Len(t)
  BY <1>2 DEF Has
<1>4. i < Len(words) => 4 * i \in 1 .. Len(t)
  BY <1>2 DEF Has
<1> QED
  BY <1>1, <1>2, <1>3, <1>4 DEF Has

\* A line that begins with n assignments.
LEMMA LineBegins ==
    ASSUME NEW words, WordsOK(words), NEW n \in 0 .. Len(words),
           \A i \in 1 .. n : Len(words[i]) = 2
    PROVE  /\ Line(words) \in Text
           /\ Len(Line(words)) >= 4 * n
           /\ \A i \in 1 .. n : Has(Line(words), words, i)
           /\ n = Len(words) /\ n # 0 => Len(Line(words)) = 4 * n /\ Line(words)[4 * n] = NUL
<1> DEFINE N == Len(words)
<1>1. N \in Nat /\ n \in Nat /\ n <= N
  BY DEF WordsOK
<1>2. PICK f \in [0 .. N -> Text] :
         /\ f[0] = <<>>
         /\ \A m \in 1 .. N : f[m] = f[m - 1] \o Piece(words, m)
         /\ Line(words) = f[N] \o <<NUL>>
  BY LineFrom
<1> DEFINE P(m) == /\ m <= n => Len(f[m]) = IF m = N /\ m # 0 THEN 4 * m - 1 ELSE 4 * m
                   /\ m >= n /\ n < N => Len(f[m]) >= 4 * n
                   /\ \A i \in 1 .. n : i <= m => Has(f[m], words, i)
           S == {m \in 0 .. N : P(m)}
<1>3. 0 \in S
  <2> SUFFICES P(0)
    BY <1>1
  <2>1. Len(f[0]) = 0
    BY <1>2
  <2> QED BY <1>1, <2>1
<1>4. \A m \in 0 .. N : m \in S /\ m < N => m + 1 \in S
  <2> SUFFICES ASSUME NEW m \in 0 .. N, P(m), m < N PROVE P(m + 1)
    BY <1>1
  <2> DEFINE x == Piece(words, m + 1)
             t == f[m]
  <2>1. m + 1 \in 1 .. N /\ m \in Nat /\ (m + 1) - 1 = m
    BY <1>1
  <2>2. x \in Text /\ t \in Text /\ f[m + 1] = t \o x
    BY <1>2, <2>1, PieceOf
  <2>3. /\ Len(t \o x) = Len(t) + Len(x)
        /\ \A k \in 1 .. Len(x) : (t \o x)[Len(t) + k] = x[k]
        /\ Len(t) \in Nat /\ Len(x) \in Nat
    BY <2>2 DEF Text
  <2>4. CASE m + 1 <= n
    <3>1. m + 1 \in 1 .. n /\ m # N /\ Len(words[m + 1]) = 2
      BY <1>1, <2>1, <2>4
    <3>2. Len(t) = 4 * m
      BY <1>1, <2>1, <2>4
    <3>3. /\ Len(x) = IF m + 1 < N THEN 4 ELSE 3
          /\ x[1] = words[m + 1][1] /\ x[2] = "=" /\ x[3] = words[m + 1][2]
          /\ m + 1 < N => x[4] = Space
      BY <2>1, <3>1, PieceOf
    <3> HIDE DEF x, t
    <3>4. Len(t \o x) = IF m + 1 = N THEN 4 * (m + 1) - 1 ELSE 4 * (m + 1)
      <4> HIDE DEF N
      <4>1. Len(t \o x) = 4 * m + Len(x)
        BY <2>3, <3>2
      <4>2. CASE m + 1 = N
        BY <2>1, <3>3, <4>1, <4>2
      <4>3. CASE m + 1 # N
        BY <1>1, <2>1, <3>3, <4>1, <4>3
      <4> QED BY <4>2, <4>3
    <3>5. /\ (t \o x)[4 * m + 1] = x[1] /\ (t \o x)[4 * m + 2] = x[2]
          /\ (t \o x)[4 * m + 3] = x[3]
          /\ m + 1 < N => (t \o x)[4 * m + 4] = x[4]
      <4> HIDE DEF N
      <4>1. \A k \in 1 .. Len(x) : (t \o x)[4 * m + k] = x[k]
        BY <2>3, <3>2
      <4>2. 1 \in 1 .. Len(x) /\ 2 \in 1 .. Len(x) /\ 3 \in 1 .. Len(x)
            /\ (m + 1 < N => 4 \in 1 .. Len(x))
        BY <3>3
      <4> QED BY <4>1, <4>2
    <3>6. 4 * (m + 1) - 3 = 4 * m + 1 /\ 4 * (m + 1) - 2 = 4 * m + 2
          /\ 4 * (m + 1) - 1 = 4 * m + 3 /\ 4 * (m + 1) = 4 * m + 4
      BY <2>1
    <3>7. Has(t \o x, words, m + 1)
      <4> DEFINE y == t \o x
      <4> HIDE DEF y
      <4>1. Len(y) >= 4 * (m + 1) - 1 /\ (m + 1 < N => Len(y) >= 4 * (m + 1))
        BY <1>1, <2>1, <3>4 DEF y
      <4>2. /\ y[4 * (m + 1) - 3] = words[m + 1][1] /\ y[4 * (m + 1) - 2] = "="
            /\ y[4 * (m + 1) - 1] = words[m + 1][2]
            /\ m + 1 < N => y[4 * (m + 1)] = Space
        BY <3>3, <3>5, <3>6 DEF y
      <4>3. Has(y, words, m + 1)
        BY <4>1, <4>2 DEF Has
      <4> QED BY <4>3 DEF y
    <3>8. \A i \in 1 .. n : i <= m => Has(t \o x, words, i)
      BY <2>2, HasStays DEF t
    <3>9. \A i \in 1 .. n : i <= m + 1 => Has(t \o x, words, i)
      BY <1>1, <2>1, <3>7, <3>8
    <3> QED BY <1>1, <2>1, <2>2, <2>4, <3>4, <3>9
  <2>5. CASE m + 1 > n
    <3>1. m >= n
      BY <1>1, <2>1, <2>5
    <3>2. \A i \in 1 .. n : Has(t, words, i)
      BY <1>1, <2>1, <3>1
    <3>3. n < N => Len(t) >= 4 * n
      BY <3>1
    <3> HIDE DEF x, t
    <3>4. \A i \in 1 .. n : Has(t \o x, words, i)
      BY <2>2, <3>2, HasStays
    <3> QED BY <1>1, <2>1, <2>2, <2>3, <2>5, <3>3, <3>4
  <2> QED BY <1>1, <2>1, <2>4, <2>5
<1>5. P(N)
  <2> HIDE DEF S
  <2>1. \A m \in 0 .. N : m \in S
    BY <1>1, <1>3, <1>4, UpTo
  <2>2. N \in S
    BY <1>1, <2>1
  <2>3. S = {m \in 0 .. N : P(m)}
    BY DEF S
  <2> HIDE DEF P
  <2> QED BY <2>2, <2>3
<1>6. f[N] \in Text /\ <<NUL>> \in Text
  <2>1. N \in 0 .. N
    BY <1>1
  <2> HIDE DEF N
  <2> QED BY <2>1, SeparatorsAreTexts
<1> DEFINE last == f[N]
           end == <<NUL>>
<1>7. Len(end) = 1 /\ end[1] = NUL
  OBVIOUS
<1> HIDE DEF end
<1>8. /\ last \o end \in Text /\ Len(last \o end) = Len(last) + 1
      /\ (last \o end)[Len(last) + 1] = NUL /\ Len(last) \in Nat
  BY <1>6, <1>7 DEF Text, end
<1>9. \A i \in 1 .. n : Has(last \o end, words, i)
  BY <1>1, <1>5, <1>6, HasStays DEF end
<1>10. /\ n < N => Len(last) >= 4 * n
       /\ n = N /\ n # 0 => Len(last) = 4 * n - 1
       /\ n = 0 => Len(last) >= 0
  BY <1>1, <1>5, <1>8
<1>11. Line(words) = last \o end
  BY <1>2 DEF end
<1> DEFINE whole == last \o end
<1>12. /\ whole \in Text /\ Len(whole) = Len(last) + 1 /\ whole[Len(last) + 1] = NUL
       /\ Len(last) \in Nat /\ n \in Nat /\ Len(words) \in Nat
  BY <1>1, <1>8
<1> HIDE DEF last, whole
<1>13. Len(whole) >= 4 * n
  BY <1>1, <1>10, <1>12, SMTT(30)
<1>14. n = Len(words) /\ n # 0 => Len(whole) = 4 * n /\ whole[4 * n] = NUL
  BY <1>1, <1>10, <1>12, SMTT(30)
<1> QED
  BY <1>9, <1>11, <1>12, <1>13, <1>14 DEF whole

\* Each end leaves an entry, so there are entries for n assignments.
LEMMA RoomForAssignments ==
    ASSUME NEW words, WordsOK(words), NEW n \in 0 .. Len(words),
           \A i \in 1 .. n : Len(words[i]) = 2
    PROVE  NArgs(Line(words)) \in Nat /\ n <= NArgs(Line(words))
<1> DEFINE line == Line(words)
           T == {k \in DOMAIN line : Ends(line[k])}
           f == [i \in 1 .. n |-> 4 * i]
<1>1. /\ line \in Text /\ Len(line) >= 4 * n /\ n \in Nat
      /\ \A i \in 1 .. n : Has(line, words, i)
      /\ n = Len(words) /\ n # 0 => line[4 * n] = NUL
  BY LineBegins DEF WordsOK
<1>2. DOMAIN line = 1 .. Len(line) /\ Len(line) \in Nat
  BY <1>1 DEF Text
<1>3. IsFiniteSet(T) /\ NArgs(line) = Cardinality(T) /\ Cardinality(T) \in Nat
  <2>1. IsFiniteSet(1 .. Len(line))
    BY <1>2, FS_Interval
  <2>2. T \in SUBSET (1 .. Len(line))
    BY <1>2
  <2> HIDE DEF T
  <2>3. IsFiniteSet(T) /\ Cardinality(T) \in Nat
    BY <2>1, <2>2, FS_Subset, FS_CardinalityType
  <2> QED BY <2>3 DEF NArgs, T
<1>4. \A i \in 1 .. n : 4 * i \in T
  <2> SUFFICES ASSUME NEW i \in 1 .. n PROVE 4 * i \in T
    OBVIOUS
  <2>1. 4 * i \in 1 .. Len(line)
    BY <1>1, <1>2
  <2>2. line[4 * i] \in {Space, NUL}
    <3>1. CASE i < Len(words)
      BY <1>1, <3>1 DEF Has
    <3>2. CASE ~(i < Len(words))
      <4>1. i = n /\ n = Len(words)
        BY <3>2 DEF WordsOK
      <4> QED BY <1>1, <4>1
    <3> QED BY <3>1, <3>2
  <2> QED BY <1>2, <2>1, <2>2 DEF Ends
<1>5. f \in Injection(1 .. n, T)
  <2> HIDE DEF T
  <2>1. f \in [1 .. n -> T]
    BY <1>4
  <2>2. \A i, k \in 1 .. n : f[i] = f[k] => i = k
    OBVIOUS
  <2> QED BY <2>1, <2>2 DEF Injection, IsInjective
<1>6. Cardinality(1 .. n) = n
  BY <1>1, FS_Interval
<1> HIDE DEF T, f
<1> QED
  BY <1>3, <1>5, <1>6, FS_Injection

\* The four things a token can do: nothing, end a key that came before, fill
\* the key or the value of an entry, or become part of the text.
Comes(p, c, m, q) ==
    /\ ~p.done /\ p.is_key /\ c = "="
    /\ \E i \in 1 .. m : p.kargs[i].key = p.text
    /\ q.kargs = p.kargs /\ q.j = p.j /\ q.twice /\ q.done
FillsKey(p, c, m, q) ==
    /\ ~p.done /\ p.is_key /\ c = "="
    /\ \A i \in 1 .. m : p.kargs[i].key # p.text
    /\ \A i \in 1 .. m : i # p.j => q.kargs[i] = p.kargs[i]
    /\ p.j \in 1 .. m => q.kargs[p.j] = [key |-> p.text, value |-> p.kargs[p.j].value]
    /\ q.j = p.j /\ q.text = <<>> /\ ~q.is_key /\ q.twice = p.twice /\ ~q.done
FillsValue(p, c, m, q) ==
    /\ ~p.done /\ ~p.is_key /\ Ends(c)
    /\ \A i \in 1 .. m : i # p.j => q.kargs[i] = p.kargs[i]
    /\ p.j \in 1 .. m => q.kargs[p.j] = [key |-> p.kargs[p.j].key, value |-> p.text]
    /\ q.j = p.j + 1 /\ q.text = <<>> /\ q.is_key /\ q.twice = p.twice
    /\ q.done <=> c = NUL
Grows(p, c, q) ==
    /\ ~p.done /\ ~(p.is_key /\ c = "=") /\ ~(~p.is_key /\ Ends(c))
    /\ q.text = Append(p.text, c)
    /\ q.kargs = p.kargs /\ q.j = p.j /\ q.is_key = p.is_key /\ q.twice = p.twice /\ ~q.done

\* A token does one of five things.
LEMMA TakeIs ==
    ASSUME NEW m \in Nat, NEW p \in Parsing(m), NEW c \in Token
    PROVE  \/ p.done /\ Take(p, c) = p
           \/ Comes(p, c, m, Take(p, c))
           \/ FillsKey(p, c, m, Take(p, c))
           \/ FillsValue(p, c, m, Take(p, c))
           \/ Grows(p, c, Take(p, c))
<1>1. CASE p.done
  BY <1>1 DEF Take
<1>2. CASE ~p.done /\ p.is_key /\ c = "="
  <2>1. DOMAIN p.kargs = 1 .. m
    BY DEF Parsing
  <2>2. CASE \E i \in 1 .. m : p.kargs[i].key = p.text
    <3> DEFINE q == [p EXCEPT !.twice = TRUE, !.done = TRUE]
    <3>1. Take(p, c) = q
      BY <1>2, <2>1, <2>2 DEF Take
    <3>2. q.kargs = p.kargs /\ q.j = p.j /\ q.twice /\ q.done
      BY DEF Parsing
    <3> HIDE DEF q
    <3> QED BY <1>2, <2>2, <3>1, <3>2 DEF Comes
  <2>3. CASE \A i \in 1 .. m : p.kargs[i].key # p.text
    <3> DEFINE new == [p.kargs EXCEPT ![p.j].key = p.text]
               q == [p EXCEPT !.kargs = new, !.text = <<>>, !.is_key = FALSE]
    <3>1. Take(p, c) = q
      BY <1>2, <2>1, <2>3 DEF Take
    <3>2. /\ \A i \in 1 .. m : i # p.j => new[i] = p.kargs[i]
          /\ p.j \in 1 .. m => new[p.j] = [key |-> p.text, value |-> p.kargs[p.j].value]
      BY DEF Parsing
    <3> HIDE DEF new
    <3>3. /\ q.kargs = new /\ q.j = p.j /\ q.text = <<>> /\ ~q.is_key
          /\ q.twice = p.twice /\ q.done = p.done
      BY DEF Parsing
    <3> HIDE DEF q
    <3> QED BY <1>2, <2>3, <3>1, <3>2, <3>3 DEF FillsKey
  <2> QED BY <2>2, <2>3
<1>3. CASE ~p.done /\ ~p.is_key /\ Ends(c)
  <2> DEFINE new == [p.kargs EXCEPT ![p.j].value = p.text]
             last == c = NUL
             q == [p EXCEPT !.kargs = new, !.text = <<>>, !.is_key = TRUE,
                            !.j = @ + 1, !.done = last]
  <2>1. Take(p, c) = q
    BY <1>3 DEF Take
  <2>2. /\ \A i \in 1 .. m : i # p.j => new[i] = p.kargs[i]
        /\ p.j \in 1 .. m => new[p.j] = [key |-> p.kargs[p.j].key, value |-> p.text]
    BY DEF Parsing
  <2> HIDE DEF new, last
  <2>3. /\ q.kargs = new /\ q.j = p.j + 1 /\ q.text = <<>> /\ q.is_key
        /\ q.twice = p.twice /\ q.done = last
    BY DEF Parsing
  <2> HIDE DEF q
  <2> QED BY <1>3, <2>1, <2>2, <2>3 DEF FillsValue, last
<1>4. CASE ~p.done /\ ~(p.is_key /\ c = "=") /\ ~(~p.is_key /\ Ends(c))
  <2>1. Take(p, c) = [p EXCEPT !.text = Append(@, c)]
    BY <1>4 DEF Take
  <2> DEFINE q == [p EXCEPT !.text = Append(@, c)]
  <2>2. /\ q.text = Append(p.text, c) /\ q.kargs = p.kargs /\ q.j = p.j
        /\ q.is_key = p.is_key /\ q.twice = p.twice /\ q.done = p.done
    BY DEF Parsing
  <2> HIDE DEF q
  <2> QED BY <1>4, <2>1, <2>2 DEF Grows, q
<1> QED
  BY <1>1, <1>2, <1>3, <1>4

\* A token changes no entry that is filled, and nothing once a key came twice.
LEMMA TakeKeeps ==
    ASSUME NEW m \in Nat, NEW p \in Parsing(m), NEW c \in Token, p.twice => p.done,
           NEW q, q = Take(p, c)
    PROVE  /\ q.twice => q.done
           /\ p.twice => q.twice
           /\ q.j >= p.j
           /\ \A i \in 1 .. m : i < p.j => q.kargs[i] = p.kargs[i]
<1>1. p.j \in Nat /\ p.twice \in BOOLEAN
  BY DEF Parsing
<1>2. CASE p.done /\ q = p
  BY <1>1, <1>2
<1>3. CASE Comes(p, c, m, q)
  BY <1>1, <1>3 DEF Comes
<1>4. CASE FillsKey(p, c, m, q)
  BY <1>1, <1>4 DEF FillsKey
<1>5. CASE FillsValue(p, c, m, q)
  BY <1>1, <1>5 DEF FillsValue
<1>6. CASE Grows(p, c, q)
  BY <1>1, <1>6 DEF Grows
<1> QED
  BY <1>2, <1>3, <1>4, <1>5, <1>6, TakeIs

\* No two entries have one key.
KeysDiffer(table) ==
    \A i, k \in DOMAIN table : i # k /\ table[i].key = table[k].key => table[i].key = NULL

\* No token gives two entries one key.
LEMMA TakeKeepsKeys ==
    ASSUME NEW m \in Nat, NEW p \in Parsing(m), NEW c \in Token, KeysDiffer(p.kargs),
           NEW q, q = Take(p, c)
    PROVE  KeysDiffer(q.kargs)
<1>1. q \in Parsing(m)
  BY TakeTyped
<1>2. DOMAIN p.kargs = 1 .. m /\ DOMAIN q.kargs = 1 .. m
  BY <1>1 DEF Parsing
<1>3. CASE p.done /\ q = p
  BY <1>3
<1>4. CASE Comes(p, c, m, q)
  BY <1>4 DEF Comes
<1>5. CASE FillsKey(p, c, m, q)
  <2>1. \A i \in 1 .. m : q.kargs[i].key = IF i = p.j THEN p.text ELSE p.kargs[i].key
    BY <1>5 DEF FillsKey
  <2>2. \A i \in 1 .. m : p.kargs[i].key # p.text
    BY <1>5 DEF FillsKey
  <2> QED BY <1>2, <2>1, <2>2 DEF KeysDiffer
<1>6. CASE FillsValue(p, c, m, q)
  <2>1. \A i \in 1 .. m : q.kargs[i].key = p.kargs[i].key
    BY <1>6 DEF FillsValue
  <2> QED BY <1>2, <2>1 DEF KeysDiffer
<1>7. CASE Grows(p, c, q)
  BY <1>7 DEF Grows
<1> QED
  BY <1>3, <1>4, <1>5, <1>6, <1>7, TakeIs

\* After the line no two entries that are filled have one key.
LEMMA ParsedKeysDiffer ==
    ASSUME NEW line \in Text
    PROVE  KeysDiffer(parsed(line)[Len(line)].kargs)
<1> DEFINE N == Len(line)
           g == parsed(line)
           S == {t \in 0 .. N : KeysDiffer(g[t].kargs)}
<1>1. /\ N \in Nat /\ NArgs(line) \in Nat
      /\ \A t \in 0 .. N : g[t] \in Parsing(NArgs(line))
      /\ g[0] = Begin(NArgs(line))
      /\ \A t \in 1 .. N : g[t] = Take(g[t - 1], line[t])
      /\ \A t \in 1 .. N : line[t] \in Token
  BY ParsedFrom, NArgsType DEF Text
<1> HIDE DEF N, g
<1>2. 0 \in S
  BY <1>1 DEF Begin, KeysDiffer, NoArg
<1>3. \A t \in 0 .. N : t \in S /\ t < N => t + 1 \in S
  <2> SUFFICES ASSUME NEW t \in 0 .. N, KeysDiffer(g[t].kargs), t < N
               PROVE  KeysDiffer(g[t + 1].kargs)
    BY <1>1
  <2>1. t + 1 \in 1 .. N /\ (t + 1) - 1 = t
    BY <1>1
  <2>2. g[t + 1] = Take(g[t], line[t + 1]) /\ line[t + 1] \in Token
    BY <1>1, <2>1
  <2> QED BY <1>1, <2>2, TakeKeepsKeys
<1> HIDE DEF S
<1>4. N \in S
  BY <1>1, <1>2, <1>3, UpTo
<1> QED
  BY <1>4 DEF S, N, g

\* Nothing is taken after the end of the line.
LEMMA TakeDone ==
    ASSUME NEW p, NEW t, p.done
    PROVE  Take(p, t) = p
BY DEF Take

\* The four tokens of an assignment fill an entry, if its key is new.
LEMMA TakeAssignment ==
    ASSUME NEW m \in Nat, NEW p \in Parsing(m), p.j \in 1 .. m,
           ~p.done, p.is_key, p.text = <<>>, ~p.twice,
           NEW key \in Token \ {"=", Space, NUL}, NEW value \in Token \ {"=", Space, NUL},
           NEW end \in {Space, NUL}, NEW q,
           q = Take(Take(Take(Take(p, key), "="), value), end)
    PROVE  \/ q.twice
           \/ /\ q.kargs[p.j] = [key |-> <<key>>, value |-> <<value>>]
              /\ \A i \in 1 .. m : i # p.j => q.kargs[i] = p.kargs[i]
              /\ q.j = p.j + 1 /\ q.text = <<>> /\ q.is_key /\ ~q.twice
              /\ q.done <=> end = NUL
<1> DEFINE q1 == Take(p, key)
           q2 == Take(q1, "=")
           q3 == Take(q2, value)
           q4 == Take(q3, end)
<1>1. "=" \in Token /\ end \in Token
  BY DEF Token
<1>2. q1 \in Parsing(m) /\ q2 \in Parsing(m) /\ q3 \in Parsing(m)
  BY <1>1, TakeTyped
<1>3. "=" # Space /\ "=" # NUL
  BY DEF Space, NUL
<1>4. Grows(p, key, q1)
  BY TakeIs DEF Comes, FillsKey, FillsValue
<1>5. /\ q1.text = <<key>> /\ q1.kargs = p.kargs /\ q1.j = p.j /\ q1.is_key /\ ~q1.twice
      /\ ~q1.done
  BY <1>4 DEF Grows
<1>6. Comes(q1, "=", m, q2) \/ FillsKey(q1, "=", m, q2)
  <2> HIDE DEF q1
  <2> QED BY <1>1, <1>2, <1>5, TakeIs DEF FillsValue, Grows
<1>7. CASE Comes(q1, "=", m, q2)
  <2>1. q2.twice /\ q2.done
    BY <1>7 DEF Comes
  <2> HIDE DEF q2
  <2>2. q3 = q2
    BY <2>1, TakeDone
  <2> HIDE DEF q3
  <2>3. q4 = q2
    BY <2>1, <2>2, TakeDone
  <2> QED BY <2>1, <2>3 DEF q2, q3
<1>8. CASE FillsKey(q1, "=", m, q2)
  <2>1. /\ \A i \in 1 .. m : i # p.j => q2.kargs[i] = p.kargs[i]
        /\ q2.kargs[p.j] = [key |-> <<key>>, value |-> p.kargs[p.j].value]
        /\ q2.j = p.j /\ q2.text = <<>> /\ ~q2.is_key /\ ~q2.twice /\ ~q2.done
    <3> HIDE DEF q1, q2
    <3> QED BY <1>5, <1>8 DEF FillsKey
  <2> HIDE DEF q1, q2
  <2>2. Grows(q2, value, q3)
    BY <1>2, <2>1, TakeIs DEF Comes, FillsKey, FillsValue, Ends
  <2>3. q3.text = <<value>> /\ q3.kargs = q2.kargs /\ q3.j = p.j /\ ~q3.is_key /\ ~q3.twice
        /\ ~q3.done
    BY <2>1, <2>2 DEF Grows
  <2> HIDE DEF q3
  <2>4. FillsValue(q3, end, m, q4)
    BY <1>1, <1>2, <2>3, TakeIs DEF Comes, FillsKey, Grows, Ends
  <2> HIDE DEF q4
  <2>5. /\ \A i \in 1 .. m : i # p.j => q4.kargs[i] = p.kargs[i]
        /\ q4.kargs[p.j] = [key |-> <<key>>, value |-> <<value>>]
        /\ q4.j = p.j + 1 /\ q4.text = <<>> /\ q4.is_key /\ ~q4.twice
        /\ q4.done <=> end = NUL
    BY <2>1, <2>3, <2>4 DEF FillsValue
  <2> QED BY <2>5 DEF q1, q2, q3, q4
<1> QED
  BY <1>6, <1>7, <1>8

\* Assignments at the start of the line are in the table in their places.
LEMMA AssignmentsTaken ==
    ASSUME NEW words, WordsOK(words), NEW n \in 0 .. Len(words),
           \A i \in 1 .. n : Len(words[i]) = 2,
           ~parse_cmdline(Line(words)).twice
    PROVE  \A i \in 1 .. n :
              parse_cmdline(Line(words)).kargs[i] =
                  [key |-> <<words[i][1]>>, value |-> <<words[i][2]>>]
<1> DEFINE line == Line(words)
           N == Len(line)
           g == parsed(line)
           m == NArgs(line)
           Filled(k, t) == g[t].kargs[k] = [key |-> <<words[k][1]>>, value |-> <<words[k][2]>>]
<1> SUFFICES ASSUME n # 0
             PROVE  \A i \in 1 .. n :
                       parse_cmdline(line).kargs[i] =
                           [key |-> <<words[i][1]>>, value |-> <<words[i][2]>>]
  OBVIOUS
<1>1. /\ line \in Text /\ N \in Nat /\ N >= 4 * n /\ n \in Nat /\ Len(words) \in Nat
      /\ \A i \in 1 .. n : Has(line, words, i)
      /\ n = Len(words) => N = 4 * n /\ line[4 * n] = NUL
  BY LineBegins DEF WordsOK, Text
<1>2. m \in Nat /\ n <= m
  BY RoomForAssignments
<1>3. /\ \A t \in 0 .. N : g[t] \in Parsing(m)
      /\ g[0] = Begin(m)
      /\ \A t \in 1 .. N : g[t] = Take(g[t - 1], line[t])
      /\ \A t \in 1 .. N : line[t] \in Token
  BY <1>1, ParsedFrom DEF Text
<1>4. parse_cmdline(line) = g[N]
  <2>1. line # <<NUL>>
    <3>1. Len(<<NUL>>) = 1
      OBVIOUS
    <3>2. Len(line) >= 4
      BY <1>1
    <3> HIDE DEF line
    <3> QED BY <3>1, <3>2
  <2> QED BY <2>1 DEF parse_cmdline
<1> HIDE DEF g, N, m, line
<1>5. \A i \in 0 .. n : i <= n /\ 4 * i <= N
  BY <1>1
<1>8. \A t \in 0 .. N : g[t].twice => g[t].done
  <2> DEFINE T == {t \in 0 .. N : g[t].twice => g[t].done}
  <2>1. 0 \in T
    BY <1>1, <1>3 DEF Begin
  <2>2. \A t \in 0 .. N : t \in T /\ t < N => t + 1 \in T
    <3> SUFFICES ASSUME NEW t \in 0 .. N, g[t].twice => g[t].done, t < N
                 PROVE  g[t + 1].twice => g[t + 1].done
      BY <1>1
    <3>1. t + 1 \in 1 .. N /\ (t + 1) - 1 = t
      BY <1>1
    <3>2. g[t + 1] = Take(g[t], line[t + 1]) /\ line[t + 1] \in Token
      BY <1>3, <3>1
    <3> QED BY <1>2, <1>3, <3>2, TakeKeeps
  <2> HIDE DEF T
  <2>3. \A t \in 0 .. N : t \in T
    BY <1>1, <2>1, <2>2, UpTo
  <2> QED BY <2>3 DEF T

\* After each assignment.
<1> DEFINE R(i) == \/ g[4 * i].twice /\ g[4 * i].done
                   \/ /\ ~g[4 * i].twice /\ g[4 * i].is_key /\ g[4 * i].text = <<>>
                      /\ g[4 * i].j = i + 1 /\ (i < Len(words) => ~g[4 * i].done)
                      /\ \A k \in 1 .. n : k <= i => Filled(k, 4 * i)
           S == {i \in 0 .. n : R(i)}
<1>6. 0 \in S
  <2> SUFFICES R(0)
    BY <1>1
  <2>1. g[4 * 0] = g[0]
    OBVIOUS
  <2> QED BY <1>1, <1>3, <2>1 DEF Begin
<1>7. \A i \in 0 .. n : i \in S /\ i < n => i + 1 \in S
  <2> SUFFICES ASSUME NEW i \in 0 .. n, R(i), i < n PROVE R(i + 1)
    <3> HIDE DEF R
    <3> QED BY <1>1
  <2> DEFINE p == g[4 * i]
  <2>1. /\ i + 1 \in 1 .. n /\ i \in Nat
        /\ 4 * (i + 1) <= N /\ 4 * (i + 1) = 4 * i + 4
    BY <1>1
  <2>2. /\ 4 * i \in 0 .. N /\ 4 * i + 1 \in 1 .. N /\ 4 * i + 2 \in 1 .. N
        /\ 4 * i + 3 \in 1 .. N /\ 4 * i + 4 \in 1 .. N
        /\ (4 * i + 1) - 1 = 4 * i /\ (4 * i + 2) - 1 = 4 * i + 1
        /\ (4 * i + 3) - 1 = 4 * i + 2 /\ (4 * i + 4) - 1 = 4 * i + 3
    BY <1>1, <2>1
  <2>3. /\ g[4 * i + 1] = Take(g[4 * i], line[4 * i + 1])
        /\ g[4 * i + 2] = Take(g[4 * i + 1], line[4 * i + 2])
        /\ g[4 * i + 3] = Take(g[4 * i + 2], line[4 * i + 3])
        /\ g[4 * i + 4] = Take(g[4 * i + 3], line[4 * i + 4])
    BY <1>3, <2>2
  <2>4. CASE g[4 * i].twice /\ g[4 * i].done
    <3>1. g[4 * i + 1] = g[4 * i]
      BY <2>3, <2>4, TakeDone
    <3>2. g[4 * i + 2] = g[4 * i]
      BY <2>3, <2>4, <3>1, TakeDone
    <3>3. g[4 * i + 3] = g[4 * i]
      BY <2>3, <2>4, <3>2, TakeDone
    <3>4. g[4 * i + 4] = g[4 * i]
      BY <2>3, <2>4, <3>3, TakeDone
    <3> QED BY <2>1, <2>4, <3>4
  <2>5. CASE ~(g[4 * i].twice /\ g[4 * i].done)
    <3>1. /\ ~p.twice /\ p.is_key /\ p.text = <<>> /\ p.j = i + 1 /\ ~p.done
          /\ \A k \in 1 .. n : k <= i => Filled(k, 4 * i)
      <4>1. i < Len(words)
        BY <1>1, <2>1
      <4> HIDE DEF Filled
      <4> QED BY <2>5, <4>1
    <3>2. p \in Parsing(m) /\ p.j \in 1 .. m
      BY <1>2, <1>3, <2>1, <2>2, <3>1
    <3>3. Has(line, words, i + 1)
      BY <1>1, <2>1
    <3>4. /\ 4 * (i + 1) - 3 = 4 * i + 1 /\ 4 * (i + 1) - 2 = 4 * i + 2
          /\ 4 * (i + 1) - 1 = 4 * i + 3
      BY <2>1
    <3> DEFINE key == words[i + 1][1]
               value == words[i + 1][2]
               end == line[4 * i + 4]
    <3>5. line[4 * i + 1] = key /\ line[4 * i + 2] = "=" /\ line[4 * i + 3] = value
      BY <3>3, <3>4 DEF Has
    <3>6. /\ key \in Token \ {"=", Space, NUL} /\ value \in Token \ {"=", Space, NUL}
      <4>1. words[i + 1] \in Seq(STRING) /\ Len(words[i + 1]) = 2 /\ i + 1 \in DOMAIN words
        BY <1>1, <2>1 DEF WordsOK
      <4>2. DOMAIN words[i + 1] = 1 .. 2
        BY <4>1
      <4> QED BY <4>1, <4>2 DEF WordsOK, Token
    <3>7. end \in {Space, NUL} /\ (i + 1 < Len(words) => end = Space)
      <4>1. CASE i + 1 < Len(words)
        BY <2>1, <3>3, <4>1 DEF Has
      <4>2. CASE ~(i + 1 < Len(words))
        <5>1. i + 1 = n /\ n = Len(words)
          BY <1>1, <2>1, <4>2
        <5> QED BY <1>1, <2>1, <4>2, <5>1
      <4> QED BY <4>1, <4>2
    <3> DEFINE q == g[4 * i + 4]
    <3>8. q = Take(Take(Take(Take(p, key), "="), value), end)
      BY <2>3, <3>5
    <3> HIDE DEF p, q, key, value, end
    <3>9. \/ q.twice
          \/ /\ q.kargs[p.j] = [key |-> <<key>>, value |-> <<value>>]
             /\ \A k \in 1 .. m : k # p.j => q.kargs[k] = p.kargs[k]
             /\ q.j = p.j + 1 /\ q.text = <<>> /\ q.is_key /\ ~q.twice
             /\ q.done <=> end = NUL
      BY <1>2, <3>1, <3>2, <3>6, <3>7, <3>8, TakeAssignment, SMTT(30)
    <3>10. CASE q.twice
      <4>1. g[4 * (i + 1)].twice /\ g[4 * (i + 1)].done
        BY <1>8, <2>1, <2>2, <3>10 DEF q
      <4> QED BY <4>1
    <3>11. CASE ~q.twice
      <4>1. /\ q.kargs[i + 1] = [key |-> <<key>>, value |-> <<value>>]
            /\ \A k \in 1 .. m : k # i + 1 => q.kargs[k] = p.kargs[k]
            /\ q.j = i + 2 /\ q.text = <<>> /\ q.is_key
            /\ q.done <=> end = NUL
        BY <2>1, <3>1, <3>9, <3>11
      <4>2. i + 1 < Len(words) => ~q.done
        BY <3>7, <4>1 DEF Space, NUL
      <4>3. \A k \in 1 .. n : k <= i + 1 => Filled(k, 4 * (i + 1))
        <5> SUFFICES ASSUME NEW k \in 1 .. n, k <= i + 1
                     PROVE  q.kargs[k] = [key |-> <<words[k][1]>>, value |-> <<words[k][2]>>]
          BY <2>1 DEF q
        <5>1. CASE k = i + 1
          BY <4>1, <5>1 DEF key, value
        <5>2. CASE k # i + 1
          <6>1. k <= i /\ k \in 1 .. m
            BY <1>1, <1>2, <2>1, <5>2
          <6>2. q.kargs[k] = p.kargs[k]
            BY <4>1, <5>2, <6>1
          <6> QED BY <3>1, <6>1, <6>2 DEF p
        <5> QED BY <5>1, <5>2
      <4>4. i + 2 = (i + 1) + 1
        BY <2>1
      <4>5. q = g[4 * (i + 1)]
        BY <2>1 DEF q
      <4> QED BY <3>11, <4>1, <4>2, <4>3, <4>4, <4>5
    <3> QED BY <3>10, <3>11
  <2> QED BY <2>4, <2>5
<1> HIDE DEF S
<1>9. R(n)
  <2>1. \A i \in 0 .. n : i \in S
    BY <1>1, <1>6, <1>7, UpTo
  <2> QED BY <1>1, <2>1 DEF S
<1> HIDE DEF R

\* The rest of the line.
<1> DEFINE Q(t) == \/ g[4 * n + t].twice
                   \/ g[4 * n + t].j > n /\ \A k \in 1 .. n : Filled(k, 4 * n + t)
           U == {t \in 0 .. N - 4 * n : Q(t)}
<1>10. 0 \in U
  <2>1. Q(0)
    <3>1. 4 * n + 0 = 4 * n
      BY <1>1
    <3> QED BY <1>1, <1>9, <3>1 DEF R
  <2> QED BY <1>1, <2>1
<1>11. \A t \in 0 .. N - 4 * n : t \in U /\ t < N - 4 * n => t + 1 \in U
  <2> SUFFICES ASSUME NEW t \in 0 .. N - 4 * n, Q(t), t < N - 4 * n PROVE Q(t + 1)
    <3> HIDE DEF Q
    <3> QED BY <1>1
  <2> DEFINE p == g[4 * n + t]
             q == g[4 * n + (t + 1)]
  <2>1. /\ 4 * n + t \in 0 .. N /\ 4 * n + (t + 1) \in 1 .. N
        /\ (4 * n + (t + 1)) - 1 = 4 * n + t
    BY <1>1
  <2>2. /\ p \in Parsing(m) /\ q = Take(p, line[4 * n + (t + 1)])
        /\ line[4 * n + (t + 1)] \in Token /\ (p.twice => p.done)
        /\ q \in Parsing(m)
    BY <1>3, <1>8, <2>1
  <2> HIDE DEF p, q
  <2>3. /\ p.twice => q.twice
        /\ q.j >= p.j
        /\ \A k \in 1 .. m : k < p.j => q.kargs[k] = p.kargs[k]
    BY <1>2, <2>2, TakeKeeps
  <2>4. p.j \in Nat /\ q.j \in Nat
    BY <2>2 DEF Parsing
  <2>5. CASE p.twice
    BY <2>3, <2>5 DEF q
  <2>6. CASE ~p.twice
    <3>1. p.j > n /\ \A k \in 1 .. n : p.kargs[k] = [key |-> <<words[k][1]>>, value |-> <<words[k][2]>>]
      BY <2>6 DEF p
    <3>2. \A k \in 1 .. n : q.kargs[k] = p.kargs[k]
      BY <1>1, <1>2, <2>3, <2>4, <3>1
    <3>3. q.j > n
      BY <1>1, <2>3, <2>4, <3>1
    <3> QED BY <3>1, <3>2, <3>3 DEF q
  <2> QED BY <2>5, <2>6
<1> HIDE DEF U
<1>12. Q(N - 4 * n)
  <2>1. N - 4 * n \in Nat
    BY <1>1
  <2> DEFINE M == N - 4 * n
  <2> HIDE DEF M
  <2>2. \A t \in 0 .. M : t \in U
    BY <1>10, <1>11, <2>1, UpTo DEF M
  <2> QED BY <2>1, <2>2 DEF U, M
<1>13. 4 * n + (N - 4 * n) = N
  BY <1>1
<1>14. ~g[N].twice
  BY <1>4 DEF line
<1> QED
  BY <1>4, <1>12, <1>13, <1>14

-----------------------------------------------------------------------------
(* The memory map and the regions *)

MemoryEntry == [base : Nat, length : Nat, type : {"available", "reclaimable", "reserved"}]

RegionRecord ==
    [first : Nat, last : Int, total_blocks : Nat, bitmap_size : Nat, bitmap : Int,
     bits : SUBSET Int, reserved_blocks : Nat]

\* The entries of some types are found one entry of the map after the other.
LEMMA OfTypeFrom ==
    ASSUME NEW mem \in Seq(MemoryEntry), NEW types
    PROVE  \E g :
              /\ g[0] = <<>>
              /\ \A n \in 1 .. Len(mem) :
                    g[n] = IF mem[n].type \in types THEN Append(g[n - 1], mem[n])
                           ELSE g[n - 1]
              /\ OfType(mem, types) = g[Len(mem)]
<1> DEFINE N == Len(mem)
           D == Seq(MemoryEntry)
           next(s, n) == IF mem[n].type \in types THEN Append(s, mem[n]) ELSE s
           step == [s \in D |-> [n \in 1 .. N |-> next(s, n)]]
           takes(f) == f = [n \in 0 .. N |->
                              CASE n = 0 -> <<>>
                                [] n # 0 /\ mem[n].type \in types ->
                                      Append(f[n - 1], mem[n])
                                [] OTHER -> f[n - 1]]
<1>1. N \in Nat /\ <<>> \in D
  OBVIOUS
<1>2. step \in [D -> [1 .. N -> D]]
  <2>1. \A s \in D, n \in 1 .. N : next(s, n) \in D
    OBVIOUS
  <2> HIDE DEF D, N, next
  <2> QED BY <2>1
<1>3. PICK f : Loop(f, N, D, <<>>, step)
  <2> HIDE DEF N, D, step
  <2> QED BY <1>1, <1>2, Recursion
<1>4. takes(f)
  <2>1. f \in [0 .. N -> D] /\ f[0] = <<>>
    <3> HIDE DEF N, D, step
    <3> QED BY <1>3 DEF Loop
  <2>2. \A n \in 1 .. N : f[n] = next(f[n - 1], n)
    <3> SUFFICES ASSUME NEW n \in 1 .. N PROVE f[n] = next(f[n - 1], n)
      OBVIOUS
    <3>1. n - 1 \in 0 .. N
      BY <1>1
    <3> HIDE DEF N, D, next
    <3>2. f[n - 1] \in D /\ f[n] = step[f[n - 1]][n]
      BY <1>3, <3>1 DEF Loop
    <3> QED BY <3>2
  <2>3. \A n \in 0 .. N : f[n] = CASE n = 0 -> <<>>
                                   [] n # 0 /\ mem[n].type \in types ->
                                         Append(f[n - 1], mem[n])
                                   [] OTHER -> f[n - 1]
    <3> SUFFICES ASSUME NEW n \in 0 .. N
                 PROVE  f[n] = CASE n = 0 -> <<>>
                                   [] n # 0 /\ mem[n].type \in types ->
                                         Append(f[n - 1], mem[n])
                                   [] OTHER -> f[n - 1]
      OBVIOUS
    <3>1. CASE n = 0
      BY <2>1, <3>1
    <3>2. CASE n # 0 /\ mem[n].type \in types
      <4>1. n \in 1 .. N
        BY <1>1, <3>2
      <4> QED BY <2>2, <3>2, <4>1
    <3>3. CASE n # 0 /\ mem[n].type \notin types
      <4>1. n \in 1 .. N
        BY <1>1, <3>3
      <4> QED BY <2>2, <3>3, <4>1
    <3> QED BY <3>1, <3>2, <3>3
  <2> HIDE DEF N, D
  <2> QED BY <2>1, <2>3
<1>5. PICK g : takes(g) /\ OfType(mem, types) = g[N]
  BY <1>4 DEF OfType
<1>6. g[0] = <<>> /\ \A n \in 1 .. N : g[n] = next(g[n - 1], n)
  <2> HIDE DEF N
  <2>1. g[0] = <<>>
    BY <1>1, <1>5
  <2>2. ASSUME NEW n \in 1 .. N PROVE g[n] = next(g[n - 1], n)
    <3>1. n \in 0 .. N /\ n # 0
      BY <1>1
    <3>2. CASE mem[n].type \in types
      BY <1>5, <3>1, <3>2
    <3>3. CASE mem[n].type \notin types
      BY <1>5, <3>1, <3>3
    <3> QED BY <3>2, <3>3
  <2> QED BY <2>1, <2>2
<1> QED
  BY <1>5, <1>6

\* The entries of some types come from the map, in its order.
LEMMA OfTypeIs ==
    ASSUME NEW mem \in Seq(MemoryEntry), NEW types
    PROVE  /\ OfType(mem, types) \in Seq(MemoryEntry)
           /\ \A i \in 1 .. Len(OfType(mem, types)) :
                 OfType(mem, types)[i].type \in types
<1> DEFINE N == Len(mem)
           D == Seq(MemoryEntry)
           next(s, n) == IF mem[n].type \in types THEN Append(s, mem[n]) ELSE s
<1>1. N \in Nat /\ <<>> \in D
  OBVIOUS
<1>2. PICK g : /\ g[0] = <<>> /\ \A n \in 1 .. N : g[n] = next(g[n - 1], n)
               /\ OfType(mem, types) = g[N]
  BY OfTypeFrom
<1> DEFINE S == {n \in 0 .. N : g[n] \in D /\ \A i \in 1 .. Len(g[n]) : g[n][i].type \in types}
<1>3. 0 \in S
  <2>1. 0 \in 0 .. N /\ g[0] = <<>> /\ Len(<<>>) = 0
    BY <1>1, <1>2
  <2>2. g[0] \in D /\ 1 .. Len(g[0]) = {}
    BY <1>1, <2>1
  <2> HIDE DEF N, D
  <2> QED BY <2>1, <2>2
<1>4. \A n \in 0 .. N : n \in S /\ n < N => n + 1 \in S
  <2> SUFFICES ASSUME NEW n \in 0 .. N, n < N, g[n] \in D,
                      \A i \in 1 .. Len(g[n]) : g[n][i].type \in types
               PROVE  g[n + 1] \in D /\ \A i \in 1 .. Len(g[n + 1]) : g[n + 1][i].type \in types
    BY <1>1
  <2>1. n + 1 \in 1 .. N /\ (n + 1) - 1 = n /\ mem[n + 1] \in MemoryEntry
    BY <1>1
  <2>2. g[n + 1] = next(g[n], n + 1)
    BY <1>2, <2>1
  <2>3. CASE mem[n + 1].type \in types
    BY <2>1, <2>2, <2>3
  <2>4. CASE mem[n + 1].type \notin types
    BY <2>1, <2>2, <2>4
  <2> QED BY <2>3, <2>4
<1>5. N \in S
  <2> HIDE DEF N, S
  <2>1. N \in Nat
    BY <1>1
  <2>2. \A n \in 0 .. N : n \in S
    BY <1>3, <1>4, <2>1, UpTo
  <2> QED BY <2>1, <2>2
<1> QED
  BY <1>2, <1>5

\* The bytes of the bitmaps before each region.
LEMMA SizesBeforeIs ==
    ASSUME NEW rs \in Seq(RegionRecord)
    PROVE  /\ SizesBefore(rs, 1) = 0
           /\ \A i \in 1 .. Len(rs) :
                 SizesBefore(rs, i + 1) = SizesBefore(rs, i) + rs[i].bitmap_size
           /\ \A i \in 1 .. Len(rs) + 1 : SizesBefore(rs, i) \in Nat
<1> DEFINE N == Len(rs)
           size(n) == rs[n].bitmap_size
           step == [s \in Nat |-> [n \in 1 .. N |-> s + size(n)]]
           sums(f) == f = [n \in 0 .. N |-> IF n = 0 THEN 0 ELSE f[n - 1] + size(n)]
<1>1. N \in Nat /\ \A n \in 1 .. N : size(n) \in Nat
  <2>1. \A n \in 1 .. N : rs[n] \in RegionRecord
    OBVIOUS
  <2>2. \A r \in RegionRecord : r.bitmap_size \in Nat
    BY DEF RegionRecord
  <2> QED BY <2>1, <2>2
<1>2. step \in [Nat -> [1 .. N -> Nat]]
  <2> HIDE DEF N, size
  <2> QED BY <1>1
<1>3. PICK f : Loop(f, N, Nat, 0, step)
  <2> HIDE DEF N, step
  <2> QED BY <1>1, <1>2, Recursion
<1>4. sums(f)
  <2>1. f \in [0 .. N -> Nat] /\ f[0] = 0
    BY <1>3 DEF Loop
  <2>2. \A n \in 1 .. N : f[n] = f[n - 1] + size(n)
    <3> HIDE DEF N, size
    <3> SUFFICES ASSUME NEW n \in 1 .. N PROVE f[n] = f[n - 1] + size(n)
      OBVIOUS
    <3>1. f[n - 1] \in Nat /\ f[n] = step[f[n - 1]][n]
      <4> HIDE DEF step
      <4>1. n - 1 \in 0 .. N
        BY <1>1
      <4> QED BY <1>3, <4>1 DEF Loop
    <3> QED BY <3>1
  <2> HIDE DEF N, size
  <2> QED BY <1>1, <2>1, <2>2
<1>5. ASSUME NEW f1, sums(f1), NEW f2, sums(f2) PROVE f1 = f2
  <2> DEFINE S == {n \in 0 .. N : f1[n] = f2[n]}
  <2> HIDE DEF N, size
  <2>1. ASSUME NEW g, sums(g) PROVE g[0] = 0 /\ \A n \in 1 .. N : g[n] = g[n - 1] + size(n)
    BY <1>1, <2>1
  <2>2. 0 \in S
    BY <1>1, <1>5, <2>1
  <2>3. \A n \in 0 .. N : n \in S /\ n < N => n + 1 \in S
    <3> SUFFICES ASSUME NEW n \in 0 .. N, f1[n] = f2[n], n < N PROVE f1[n + 1] = f2[n + 1]
      BY <1>1
    <3>1. n + 1 \in 1 .. N /\ (n + 1) - 1 = n
      BY <1>1
    <3>2. f1[n + 1] = f1[n] + size(n + 1) /\ f2[n + 1] = f2[n] + size(n + 1)
      BY <1>5, <2>1, <3>1
    <3> QED BY <3>2
  <2> HIDE DEF S
  <2>4. \A n \in 0 .. N : n \in S
    BY <1>1, <2>2, <2>3, UpTo
  <2> QED BY <1>5, <2>4 DEF S
<1>6. \A i : SizesBefore(rs, i) = f[i - 1]
  <2> DEFINE F == CHOOSE g : sums(g)
  <2>1. sums(F)
    BY <1>4
  <2>2. F = f
    BY <1>4, <1>5, <2>1
  <2>3. \A i : SizesBefore(rs, i) = F[i - 1]
    BY DEF SizesBefore
  <2> QED BY <2>2, <2>3
<1>7. f \in [0 .. N -> Nat] /\ f[0] = 0 /\ \A n \in 1 .. N : f[n] = f[n - 1] + size(n)
  <2> HIDE DEF N, size
  <2>1. f \in [0 .. N -> Nat] /\ f[0] = 0
    BY <1>3 DEF Loop
  <2>2. \A n \in 1 .. N : f[n] = f[n - 1] + size(n)
    BY <1>1, <1>4
  <2> QED BY <2>1, <2>2
<1> HIDE DEF N, size
<1>8. \A i \in 1 .. N : (i + 1) - 1 = i /\ i - 1 \in 0 .. N
  BY <1>1
<1>9. \A i \in 1 .. N + 1 : i - 1 \in 0 .. N
  BY <1>1
<1>10. SizesBefore(rs, 1) = 0
  BY <1>6, <1>7
<1>11. \A i \in 1 .. N : SizesBefore(rs, i + 1) = SizesBefore(rs, i) + size(i)
  <2> SUFFICES ASSUME NEW i \in 1 .. N
               PROVE  SizesBefore(rs, i + 1) = SizesBefore(rs, i) + size(i)
    OBVIOUS
  <2>1. SizesBefore(rs, i + 1) = f[i]
    BY <1>6, <1>8
  <2>2. SizesBefore(rs, i) = f[i - 1]
    BY <1>6
  <2> QED BY <1>7, <2>1, <2>2
<1>12. \A i \in 1 .. N + 1 : SizesBefore(rs, i) \in Nat
  BY <1>6, <1>7, <1>9
<1> QED
  BY <1>10, <1>11, <1>12 DEF N, size

\* Rounding to pages.
LEMMA Rounded ==
    ASSUME NEW a \in Nat
    PROVE  /\ RoundUp(a) \in Nat /\ RoundDown(a) \in Nat
           /\ RoundDown(a) <= a /\ a < RoundDown(a) + PAGE_SIZE
           /\ a <= RoundUp(a) /\ RoundUp(a) < a + PAGE_SIZE
BY DEF RoundUp, RoundDown, PAGE_SIZE

\* The list of the regions has the fields of bitmap_list_t.
LEMMA RegionsTyped ==
    ASSUME NEW mem \in Seq(MemoryEntry)
    PROVE  Regions(mem) \in Seq(RegionRecord)
<1> DEFINE u == OfType(mem, Pool)
<1>1. u \in Seq(MemoryEntry)
  BY OfTypeIs
<1>2. ASSUME NEW e \in MemoryEntry PROVE NewRegion(e) \in RegionRecord
  <2>1. e.base \in Nat /\ e.length \in Nat
    BY DEF MemoryEntry
  <2>2. RoundUp(e.base) \in Nat
    BY <2>1, Rounded
  <2>3. RoundDown(e.base + e.length - 1) \in Int
    BY <2>1 DEF RoundDown, PAGE_SIZE
  <2>4. e.length \div BLOCK_SIZE \in Nat
    BY <2>1 DEF BLOCK_SIZE, PAGE_SIZE
  <2> DEFINE blocks == e.length \div BLOCK_SIZE
  <2> HIDE DEF blocks
  <2>5. blocks \in Nat /\ (blocks + 7) \div 8 \in Nat
    BY <2>4 DEF blocks
  <2>6. NewRegion(e) = [first |-> RoundUp(e.base), last |-> RoundDown(e.base + e.length - 1),
         total_blocks |-> blocks, bitmap_size |-> (blocks + 7) \div 8,
         bitmap |-> 0, bits |-> {}, reserved_blocks |-> 0]
    BY DEF NewRegion, blocks
  <2> QED BY <2>2, <2>3, <2>5, <2>6 DEF RegionRecord
<1> HIDE DEF u
<1>3. Regions(mem) = [i \in DOMAIN u |-> NewRegion(u[i])]
  BY DEF Regions, u
<1>4. \A i \in DOMAIN u : NewRegion(u[i]) \in RegionRecord
  BY <1>1, <1>2
<1> QED
  BY <1>1, <1>3, <1>4

\* The bytes of all bitmaps are a number.
LEMMA AllSizes ==
    ASSUME NEW rs \in Seq(RegionRecord) PROVE AllBitmapsSize(rs) \in Nat
<1>1. Len(rs) + 1 \in 1 .. Len(rs) + 1
  OBVIOUS
<1> QED
  BY <1>1, SizesBeforeIs DEF AllBitmapsSize

\* The least number of a set that has one.
LEMMA MinIs ==
    ASSUME NEW T, T \subseteq Nat, T # {}
    PROVE  Min(T) \in T /\ \A n \in T : Min(T) <= n
BY NatLeast DEF Min

\* The search for room returns an address, -1 or NULL.
LEMMA StartTyped ==
    ASSUME NEW mem \in Seq(MemoryEntry), NEW kernel \in [start : Nat, end : Nat],
           NEW size \in Nat
    PROVE  StartAvailableMemory(mem, kernel, size) \in Int
<1>1. ASSUME NEW m \in MemoryEntry PROVE RoomIn(m, kernel, size) \in Int
  <2>1. RoundUp(m.base) \in Int /\ RoundUp(kernel.end) \in Int /\ NoRoom \in Int
    BY Rounded DEF MemoryEntry, NoRoom
  <2> DEFINE x == RoomIn(m, kernel, size)
  <2>2. x \in {RoundUp(m.base), RoundUp(kernel.end), NoRoom}
    BY DEF RoomIn
  <2> QED BY <2>1, <2>2
<1> DEFINE fits == {i \in DOMAIN mem : RoomIn(mem[i], kernel, size) # NoRoom}
<1>2. CASE mem = <<>>
  BY <1>2 DEF StartAvailableMemory, Null
<1>3. CASE mem # <<>> /\ fits = {}
  BY <1>3 DEF StartAvailableMemory, NoRoom
<1>4. CASE mem # <<>> /\ fits # {}
  <2>1. fits \subseteq DOMAIN mem /\ fits \subseteq Nat
    OBVIOUS
  <2> HIDE DEF fits
  <2>2. Min(fits) \in DOMAIN mem
    BY <1>4, <2>1, MinIs
  <2>3. StartAvailableMemory(mem, kernel, size) = RoomIn(mem[Min(fits)], kernel, size)
    BY <1>4 DEF StartAvailableMemory, fits
  <2> QED BY <1>1, <2>2, <2>3
<1> QED
  BY <1>2, <1>3, <1>4

\* Placing the bitmaps changes only where they are.
LEMMA PlacedTyped ==
    ASSUME NEW rs \in Seq(RegionRecord), NEW start \in Int
    PROVE  Placed(rs, start) \in Seq(RegionRecord) /\ Len(Placed(rs, start)) = Len(rs)
<1>1. ASSUME NEW i \in DOMAIN rs
      PROVE  [rs[i] EXCEPT !.bitmap = start + SizesBefore(rs, i)] \in RegionRecord
  <2>1. SizesBefore(rs, i) \in Nat
    BY SizesBeforeIs
  <2>2. start + SizesBefore(rs, i) \in Int
    BY <2>1
  <2>3. rs[i] \in RegionRecord
    OBVIOUS
  <2> QED BY <2>2, <2>3 DEF RegionRecord
<1> QED
  BY <1>1 DEF Placed

\* The region of an address is one of the list, or there is none.
LEMMA RegionFound ==
    ASSUME NEW rs, Len(rs) \in Nat, NEW address, addr_to_bitmap(rs, address) # 0
    PROVE  /\ addr_to_bitmap(rs, address) \in 1 .. Len(rs)
           /\ address <= rs[addr_to_bitmap(rs, address)].last
<1> DEFINE T == {i \in 1 .. Len(rs) : address <= rs[i].last}
<1>1. addr_to_bitmap(rs, address) = IF T # {} THEN Min(T) ELSE 0
  BY DEF addr_to_bitmap, SelectInSeq
<1>2. T \subseteq Nat
  OBVIOUS
<1> HIDE DEF T
<1>3. addr_to_bitmap(rs, address) \in T
  BY <1>1, <1>2, MinIs
<1> QED
  BY <1>3 DEF T

\* reserve_region changes only the bits and the count of a region.
LEMMA ReserveTyped ==
    ASSUME NEW rs \in Seq(RegionRecord), NEW start \in Int, NEW size \in Int,
           addr_to_bitmap(rs, start) # 0
    PROVE  /\ reserve_region(rs, start, size) \in Seq(RegionRecord)
           /\ Len(reserve_region(rs, start, size)) = Len(rs)
<1> DEFINE i == addr_to_bitmap(rs, start)
           blocks == IF size < BLOCK_SIZE THEN 1 ELSE size \div BLOCK_SIZE
           bit == BitOf(rs[i], start)
           bits == bit .. bit + blocks - 1
<1>1. i \in 1 .. Len(rs)
  BY RegionFound
<1>2. rs[i] \in RegionRecord
  BY <1>1
<1>3. blocks \in Int /\ bit \in Int
  <2>1. rs[i].first \in Int
    BY <1>2 DEF RegionRecord
  <2> HIDE DEF i
  <2> QED BY <2>1 DEF BLOCK_SIZE, PAGE_SIZE, BitOf
<1> HIDE DEF i, blocks, bit
<1>4. bits \subseteq Int /\ IsFiniteSet(bits)
  BY <1>3, FS_Interval
<1>5. IsFiniteSet(bits \ rs[i].bits) /\ Cardinality(bits \ rs[i].bits) \in Nat
  <2>1. bits \ rs[i].bits \in SUBSET bits
    OBVIOUS
  <2> HIDE DEF bits
  <2> QED BY <1>4, <2>1, FS_Subset, FS_CardinalityType
<1> HIDE DEF bits
<1>6. CountNew(rs[i], bits) \in RegionRecord
  <2>1. rs[i].bits \union bits \in SUBSET Int
    BY <1>2, <1>4 DEF RegionRecord
  <2>2. rs[i].reserved_blocks + Cardinality(bits \ rs[i].bits) \in Nat
    <3>1. rs[i].reserved_blocks \in Nat
      BY <1>2 DEF RegionRecord
    <3> QED BY <1>5, <3>1
  <2> QED BY <1>2, <2>1, <2>2 DEF CountNew, RegionRecord
<1>7. reserve_region(rs, start, size) = [rs EXCEPT ![i] = CountNew(@, bits)]
  BY DEF reserve_region, i, blocks, bit, bits
<1> QED
  BY <1>1, <1>6, <1>7

Request == [start : Int, size : Int]

\* How many requests there are does not depend on where the bitmaps are.
LEMMA RequestsTyped ==
    ASSUME NEW mem \in Seq(MemoryEntry), NEW kernel \in [start : Nat, end : Nat],
           NEW smp \in BOOLEAN, NEW rs \in Seq(RegionRecord)
    PROVE  /\ ToReserve(mem, kernel, smp, rs) \in Seq(Request)
           /\ Len(ToReserve(mem, kernel, smp, rs)) =
                 (IF smp THEN 5 ELSE 4) + Len(rs) + Len(OfType(mem, {"reclaimable"}))
<1> DEFINE a == <<Reserved(0, 1023), Reserved(1024, 255), Reserved(524288, 131071),
                  Reserved(kernel.start, kernel.end - kernel.start)>>
           b == IF smp THEN <<Reserved(4096, 8192)>> ELSE <<>>
           c == [i \in DOMAIN rs |-> Reserved(rs[i].bitmap, rs[i].bitmap_size)]
           u == OfType(mem, {"reclaimable"})
           d == [i \in DOMAIN u |-> Reserved(u[i].base, u[i].length)]
<1>1. \A x, y \in Int : Reserved(x, y) \in Request
  BY DEF Reserved, Request
<1>2. a \in Seq(Request) /\ Len(a) = 4
  <2>1. kernel.start \in Int /\ kernel.end - kernel.start \in Int
    OBVIOUS
  <2> DEFINE r1 == Reserved(0, 1023)
             r2 == Reserved(1024, 255)
             r3 == Reserved(524288, 131071)
             r4 == Reserved(kernel.start, kernel.end - kernel.start)
  <2>2. r1 \in Request /\ r2 \in Request /\ r3 \in Request /\ r4 \in Request
    BY <1>1, <2>1
  <2> HIDE DEF r1, r2, r3, r4
  <2>3. <<r1, r2, r3, r4>> \in Seq(Request) /\ Len(<<r1, r2, r3, r4>>) = 4
    BY <2>2
  <2> QED BY <2>3 DEF r1, r2, r3, r4
<1>3. b \in Seq(Request) /\ Len(b) = IF smp THEN 1 ELSE 0
  <2> DEFINE r5 == Reserved(4096, 8192)
  <2>1. r5 \in Request
    BY <1>1
  <2> HIDE DEF r5
  <2>2. <<r5>> \in Seq(Request) /\ Len(<<r5>>) = 1 /\ <<>> \in Seq(Request) /\ Len(<<>>) = 0
    BY <2>1, OneInSeq
  <2> QED BY <2>2 DEF r5
<1>4. c \in Seq(Request) /\ Len(c) = Len(rs)
  <2>1. \A i \in DOMAIN rs : rs[i].bitmap \in Int /\ rs[i].bitmap_size \in Int
    <3>1. \A i \in DOMAIN rs : rs[i] \in RegionRecord
      OBVIOUS
    <3>2. \A r \in RegionRecord : r.bitmap \in Int /\ r.bitmap_size \in Int
      BY DEF RegionRecord
    <3> QED BY <3>1, <3>2
  <2>2. \A i \in DOMAIN rs : Reserved(rs[i].bitmap, rs[i].bitmap_size) \in Request
    BY <1>1, <2>1
  <2> QED BY <2>2
<1>5. d \in Seq(Request) /\ Len(d) = Len(u)
  <2>1. u \in Seq(MemoryEntry)
    BY OfTypeIs
  <2> HIDE DEF u
  <2>2. \A i \in DOMAIN u : u[i].base \in Int /\ u[i].length \in Int
    <3>1. \A i \in DOMAIN u : u[i] \in MemoryEntry
      BY <2>1
    <3>2. \A e \in MemoryEntry : e.base \in Int /\ e.length \in Int
      BY DEF MemoryEntry
    <3> QED BY <3>1, <3>2
  <2>3. \A i \in DOMAIN u : Reserved(u[i].base, u[i].length) \in Request
    BY <1>1, <2>2
  <2> QED BY <2>1, <2>3
<1>6. ToReserve(mem, kernel, smp, rs) = a \o b \o c \o d
  BY DEF ToReserve, FixedMemory, Reclaimable
<1>7. Len(rs) \in Nat /\ Len(u) \in Nat
  <2>1. u \in Seq(MemoryEntry)
    BY OfTypeIs
  <2> QED BY <2>1
<1> HIDE DEF a, b, c, d, u
<1>8. a \o b \in Seq(Request) /\ Len(a \o b) = IF smp THEN 5 ELSE 4
  <2>1. a \o b \in Seq(Request) /\ Len(a \o b) = Len(a) + Len(b)
    BY <1>2, <1>3, ConcatProperties
  <2> QED BY <1>2, <1>3, <2>1
<1> DEFINE ab == a \o b
<1> HIDE DEF ab
<1>9. ab \o c \in Seq(Request) /\ Len(ab \o c) = Len(ab) + Len(rs)
  BY <1>4, <1>8 DEF ab
<1> DEFINE abc == ab \o c
<1> HIDE DEF abc
<1>10. abc \o d \in Seq(Request) /\ Len(abc \o d) = Len(abc) + Len(u)
  <2>1. abc \in Seq(Request)
    BY <1>9 DEF abc
  <2>2. abc \o d \in Seq(Request) /\ Len(abc \o d) = Len(abc) + Len(d)
    BY <1>5, <2>1, ConcatProperties
  <2> QED BY <1>5, <2>2
<1> QED
  BY <1>6, <1>7, <1>8, <1>9, <1>10 DEF u, ab, abc

\* The copy of a map has the entries that were counted.
LEMMA MapCopied ==
    ASSUME NEW map \in Seq(MapEntry)
    PROVE  /\ NumberEntries(map) \in 0 .. Len(map)
           /\ parse_memory_map(map) \in Seq(MemoryEntry)
           /\ Len(parse_memory_map(map)) = NumberEntries(map)
<1> DEFINE above == {i \in DOMAIN map : map[i].above}
<1>1. NumberEntries(map) \in 0 .. Len(map)
  <2>1. CASE above = {}
    BY <2>1 DEF NumberEntries
  <2>2. CASE above # {}
    <3>1. above \subseteq 1 .. Len(map) /\ above \subseteq Nat
      OBVIOUS
    <3>2. NumberEntries(map) = Min(above) - 1
      BY <2>2 DEF NumberEntries
    <3> HIDE DEF above
    <3>3. Min(above) \in 1 .. Len(map)
      BY <2>2, <3>1, MinIs
    <3> QED BY <3>2, <3>3
  <2> QED BY <2>1, <2>2
<1>2. ASSUME NEW i \in 1 .. NumberEntries(map)
      PROVE  [base |-> map[i].base, length |-> map[i].length, type |-> Kind(map[i].type)]
               \in MemoryEntry
  <2>1. map[i] \in MapEntry
    BY <1>1
  <2>2. Kind(map[i].type) \in {"available", "reclaimable", "reserved"}
    BY DEF Kind
  <2> QED BY <2>1, <2>2 DEF MapEntry, MemoryEntry
<1> HIDE DEF above
<1> QED
  BY <1>1, <1>2 DEF parse_memory_map

-----------------------------------------------------------------------------
(* The console *)

Shows == {"serial", "vga"}

Console ==
    [device : Devices, ring : [0 .. BUF_SIZE - 1 -> Nat], index : 0 .. BUF_SIZE - 1,
     shown : [Shows -> Seq(Nat)], printed : Nat]

\* No device is chosen, and n texts are in the ring.
Unchosen(c, n) ==
    /\ c \in Console /\ c.device = "mem" /\ c.printed = n /\ c.index = n
    /\ \A i \in 0 .. n - 1 : c.ring[i] = i + 1
    /\ \A d \in Shows : c.shown[d] = <<>>

\* The texts up to n, in their order.
Texts(n) == [i \in 1 .. n |-> i]

\* Device d is chosen and has shown everything, the other one nothing.
Full(c, d) ==
    /\ c \in Console /\ c.device = d
    /\ c.shown[d] = Texts(c.printed)
    /\ \A e \in Shows \ {d} : c.shown[e] = <<>>

Works(d, serial) == d \in Shows /\ (d = "serial" => serial)

\* The ring has room for more than two texts.
LEMMA BufSize == BUF_SIZE \in Nat /\ BUF_SIZE > 2
BY BufAssumption

\* At first no device is chosen and the ring is empty.
LEMMA InitialConsole == Unchosen(bootconsole_mem_init, 0)
<1>1. 0 \in 0 .. BUF_SIZE - 1
  BY BufSize
<1>2. [d \in Shows |-> <<>>] \in [Shows -> Seq(Nat)]
  OBVIOUS
<1>3. [i \in 0 .. BUF_SIZE - 1 |-> 0] \in [0 .. BUF_SIZE - 1 -> Nat]
  OBVIOUS
<1> QED
  BY <1>1, <1>2, <1>3 DEF Unchosen, bootconsole_mem_init, Console, Shows, Devices

\* The next text comes last.
LEMMA AppendText ==
    ASSUME NEW n \in Nat
    PROVE  Append(Texts(n), n + 1) = Texts(n + 1) /\ Texts(n) \in Seq(Nat)
BY DEF Texts

\* A text that is printed has the next number.  On a device that does not
\* work it is lost.
LEMMA PrintTyped ==
    ASSUME NEW c \in Console, NEW serial \in BOOLEAN
    PROVE  /\ printk(c, serial) \in Console
           /\ printk(c, serial).device = c.device
           /\ printk(c, serial).printed = c.printed + 1
<1> DEFINE n == c.printed + 1
           said == [c EXCEPT !.printed = @ + 1]
<1>1. /\ said \in Console /\ said.device = c.device /\ said.printed = n
      /\ said.index = c.index /\ said.ring = c.ring /\ said.shown = c.shown /\ n \in Nat
  BY DEF Console
<1>2. printk(c, serial) = bootconsole_put_string(said, n, serial)
  BY DEF printk
<1> HIDE DEF said, n
<1>3. CASE said.device = "mem"
  <2> DEFINE ring == [said.ring EXCEPT ![said.index] = n]
             index == (said.index + 1) % BUF_SIZE
             q == [said EXCEPT !.ring[said.index] = n, !.index = (@ + 1) % BUF_SIZE]
  <2>1. ring \in [0 .. BUF_SIZE - 1 -> Nat] /\ index \in 0 .. BUF_SIZE - 1
    BY <1>1, BufSize DEF Console
  <2>2. q = [said EXCEPT !.ring = ring, !.index = index]
    BY <1>1 DEF Console
  <2> HIDE DEF ring, index
  <2>3. q \in Console /\ q.device = said.device /\ q.printed = said.printed
    BY <1>1, <2>1, <2>2 DEF Console
  <2>4. printk(c, serial) = q
    BY <1>2, <1>3 DEF bootconsole_put_string, bootconsole_mem_put
  <2> HIDE DEF q
  <2> QED BY <1>1, <2>3, <2>4 DEF n
<1>4. CASE said.device = "serial" /\ ~serial
  <2>1. printk(c, serial) = said
    BY <1>2, <1>4 DEF bootconsole_put_string
  <2> QED BY <1>1, <2>1 DEF n
<1>5. CASE said.device # "mem" /\ ~(said.device = "serial" /\ ~serial)
  <2> DEFINE shown == [said.shown EXCEPT ![said.device] = Append(@, n)]
             q == [said EXCEPT !.shown[said.device] = Append(@, n)]
  <2>1. shown \in [Shows -> Seq(Nat)]
    <3>1. said.device \in Shows /\ said.shown \in [Shows -> Seq(Nat)]
      BY <1>1, <1>5 DEF Console, Devices, Shows
    <3>2. Append(said.shown[said.device], n) \in Seq(Nat)
      BY <1>1, <3>1
    <3> QED BY <3>1, <3>2
  <2>2. q = [said EXCEPT !.shown = shown]
    BY <1>1 DEF Console
  <2> HIDE DEF shown
  <2>3. q \in Console /\ q.device = said.device /\ q.printed = said.printed
    BY <1>1, <2>1, <2>2 DEF Console
  <2>4. printk(c, serial) = q
    BY <1>2, <1>5 DEF bootconsole_put_string
  <2> HIDE DEF q
  <2> QED BY <1>1, <2>3, <2>4 DEF n
<1> QED
  BY <1>3, <1>4, <1>5

\* On the device chosen, if it works, a text follows those before it.
LEMMA PrintShown ==
    ASSUME NEW c, NEW serial \in BOOLEAN, NEW d, Works(d, serial), Full(c, d)
    PROVE  Full(printk(c, serial), d)
<1> DEFINE n == c.printed + 1
           said == [c EXCEPT !.printed = @ + 1]
<1>1. /\ said.device = d /\ said.printed = n /\ said.shown = c.shown /\ n \in Nat
      /\ said \in Console
  BY SMTT(30) DEF Console, Full
<1>2. printk(c, serial) = bootconsole_put_string(said, n, serial)
  BY DEF printk
<1> HIDE DEF said
<1>3. d \in Shows /\ d # "mem" /\ ~(d = "serial" /\ ~serial)
  BY DEF Works, Shows
<1> DEFINE q == [said EXCEPT !.shown[said.device] = Append(@, n)]
<1>4. printk(c, serial) = q
  BY <1>1, <1>2, <1>3 DEF bootconsole_put_string
<1>5. /\ q.shown[d] = Append(c.shown[d], n)
      /\ \A e \in Shows \ {d} : q.shown[e] = c.shown[e]
      /\ q.device = d /\ q.printed = n
  BY <1>1, <1>3 DEF Console
<1> HIDE DEF q
<1>6. c.printed \in Nat /\ c \in Console
  BY DEF Full, Console
<1>7. q.shown[d] = Texts(n)
  BY <1>5, <1>6, AppendText DEF Full
<1>8. q \in Console
  BY <1>4, <1>6, PrintTyped
<1> QED
  BY <1>4, <1>5, <1>7, <1>8 DEF Full

\* A text printed before a device is chosen is kept in the ring.
LEMMA PrintKept ==
    ASSUME NEW c, NEW n \in {0, 1}, Unchosen(c, n), NEW serial \in BOOLEAN
    PROVE  Unchosen(printk(c, serial), n + 1)
<1> DEFINE said == [c EXCEPT !.printed = @ + 1]
           q == [said EXCEPT !.ring[said.index] = n + 1, !.index = (@ + 1) % BUF_SIZE]
<1>1. /\ said.device = "mem" /\ said.printed = n + 1 /\ said.index = n /\ said.ring = c.ring
      /\ said.shown = c.shown /\ said \in Console
  BY DEF Console, Unchosen
<1>2. printk(c, serial) = q
  BY <1>1 DEF printk, bootconsole_put_string, bootconsole_mem_put, Unchosen
<1> HIDE DEF said
<1>3. (n + 1) % BUF_SIZE = n + 1 /\ n \in 0 .. BUF_SIZE - 1
  BY BufSize
<1>4. /\ q.index = n + 1 /\ q.shown = c.shown /\ q.printed = n + 1 /\ q.device = "mem"
      /\ \A i \in 0 .. n : q.ring[i] = IF i = n THEN n + 1 ELSE c.ring[i]
  BY <1>1, <1>3, BufSize DEF Console
<1> HIDE DEF q
<1>5. q \in Console
  BY <1>2, PrintTyped DEF Unchosen
<1>6. \A i \in 0 .. (n + 1) - 1 : q.ring[i] = i + 1
  BY <1>4 DEF Unchosen
<1> QED
  BY <1>2, <1>4, <1>5, <1>6 DEF Unchosen

\* A switch to a device that works shows what is in the ring, and itself.
LEMMA SwitchWorks ==
    ASSUME NEW c, NEW n \in {0, 1}, Unchosen(c, n), NEW serial \in BOOLEAN,
           NEW d, Works(d, serial)
    PROVE  Full(SwitchTo(c, d, serial), d)
<1> DEFINE said == printk(c, serial)
           buf == bootconsole_mem_flush_buffer(said)
           on == [said EXCEPT !.device = d]
           shown == [said.shown EXCEPT ![d] = @ \o buf]
           q == [on EXCEPT !.shown[d] = @ \o buf]
<1>1. Unchosen(said, n + 1)
  BY PrintKept
<1> HIDE DEF said
<1>2. d \in Shows /\ d \in Devices /\ bootconsole_init(d, serial) = 0
  BY DEF Works, Shows, Devices, bootconsole_init
<1>3. buf = Texts(n + 1)
  BY <1>1 DEF bootconsole_mem_flush_buffer, Unchosen, Texts
<1> HIDE DEF buf
<1>4. said.shown \in [Shows -> Seq(Nat)] /\ said \in Console /\ said.printed = n + 1
  BY <1>1 DEF Unchosen, Console
<1>5. said.shown[d] \o buf = Texts(n + 1) /\ Texts(n + 1) \in Seq(Nat)
  <2>1. said.shown[d] = <<>>
    BY <1>1, <1>2 DEF Unchosen
  <2>2. Texts(n + 1) \in Seq(Nat)
    BY DEF Texts
  <2>3. <<>> \o Texts(n + 1) = Texts(n + 1)
    BY <2>2
  <2> QED BY <1>3, <2>1, <2>2, <2>3
<1>6. shown \in [Shows -> Seq(Nat)] /\ shown[d] = Texts(n + 1)
      /\ \A e \in Shows \ {d} : shown[e] = <<>>
  BY <1>1, <1>2, <1>4, <1>5 DEF Unchosen
<1>7. q = [said EXCEPT !.device = d, !.shown = shown]
  BY <1>4 DEF Console
<1> HIDE DEF shown
<1>8. q \in Console /\ q.device = d /\ q.shown = shown /\ q.printed = n + 1
  BY <1>2, <1>4, <1>6, <1>7 DEF Console
<1>9. SwitchTo(c, d, serial) = printk(q, serial)
  BY <1>2 DEF SwitchTo, said, buf
<1> HIDE DEF q
<1>10. Full(q, d)
  BY <1>6, <1>8 DEF Full
<1> QED
  BY <1>9, <1>10, PrintShown

\* A switch to a serial port that does not work leaves the ring alone.
LEMMA SwitchFails ==
    ASSUME NEW c, Unchosen(c, 0)
    PROVE  /\ SwitchTo(c, "serial", FALSE) \in Console
           /\ SwitchTo(c, "serial", FALSE).device = "serial"
           /\ Unchosen([SwitchTo(c, "serial", FALSE) EXCEPT !.device = "mem"], 1)
<1> DEFINE said == printk(c, FALSE)
           on == [said EXCEPT !.device = "serial"]
<1>1. Unchosen(said, 1)
  <2>1. Unchosen(said, 0 + 1)
    BY PrintKept
  <2>2. 0 + 1 = 1
    OBVIOUS
  <2> HIDE DEF said
  <2> QED BY <2>1, <2>2, Zenon
<1>2. SwitchTo(c, "serial", FALSE) = on
  BY DEF SwitchTo, bootconsole_init
<1> HIDE DEF said
<1>3. [on EXCEPT !.device = "mem"] = said
  BY <1>1 DEF Unchosen, Console
<1>4. on \in Console /\ on.device = "serial"
  BY <1>1 DEF Unchosen, Console, Devices
<1> QED
  BY <1>1, <1>2, <1>3, <1>4

\* From a console that has a device already, too.
LEMMA SwitchAway ==
    ASSUME NEW c \in Console
    PROVE  /\ SwitchTo(c, "serial", FALSE) \in Console
           /\ SwitchTo(c, "serial", FALSE).device = "serial"
<1> DEFINE said == printk(c, FALSE)
<1>1. said \in Console
  BY PrintTyped
<1>2. SwitchTo(c, "serial", FALSE) = [said EXCEPT !.device = "serial"]
  BY DEF SwitchTo, bootconsole_init
<1> HIDE DEF said
<1> QED
  BY <1>1, <1>2 DEF Console, Devices

\* What an argument does before a device is chosen.
LEMMA TryFirst ==
    ASSUME NEW c, Unchosen(c, 0), NEW karg, NEW serial \in BOOLEAN
    PROVE  LET tried == TryArg(c, karg, serial)
           IN  \/ /\ tried.result = "done"
                  /\ \E d \in Shows : Works(d, serial) /\ Full(tried.con, d)
               \/ /\ tried.result = "next" /\ ~serial
                  /\ karg.key = <<"bootconsole">> /\ Full(tried.con, "vga")
               \/ /\ tried.result = "failed" /\ ~serial
                  /\ tried.con \in Console /\ tried.con.device = "serial"
<1> DEFINE asked == IF karg.key = <<"bootconsole">> THEN karg.value ELSE <<>>
           onSerial == SwitchTo(c, "serial", serial)
           onVga == SwitchTo(c, "vga", serial)
           back == SwitchTo([onSerial EXCEPT !.device = "mem"], "vga", serial)
           tried == TryArg(c, karg, serial)
<1>1. "vga" \in Shows /\ Works("vga", serial) /\ Full(onVga, "vga")
  BY SwitchWorks DEF Works, Shows
<1>2. /\ serial => bootconsole_init("serial", serial) = 0 /\ bootconsole_init("serial", serial) # -1
      /\ ~serial => bootconsole_init("serial", serial) = -1 /\ bootconsole_init("serial", serial) # 0
  BY DEF bootconsole_init
<1>3. <<"serial">> # <<"vga">> /\ <<>> # <<"serial">>
  OBVIOUS
<1>4. tried = CASE asked = <<"vga">> -> [con |-> onVga, result |-> "done"]
                [] asked # <<"vga">> /\ bootconsole_init("serial", serial) = 0 ->
                      [con |-> onSerial, result |-> "done"]
                [] asked = <<"serial">> /\ bootconsole_init("serial", serial) = -1 ->
                      [con |-> back, result |-> "next"]
                [] OTHER -> [con |-> onSerial, result |-> "failed"]
  BY DEF TryArg
<1>5. "serial" \in Shows /\ (serial => Works("serial", serial) /\ Full(onSerial, "serial"))
  BY SwitchWorks DEF Works, Shows
<1>6. ASSUME ~serial
      PROVE  onSerial \in Console /\ onSerial.device = "serial" /\ Full(back, "vga")
  <2>1. serial = FALSE
    BY <1>6
  <2>2. onSerial \in Console /\ onSerial.device = "serial"
        /\ Unchosen([onSerial EXCEPT !.device = "mem"], 1)
    BY <2>1, SwitchFails
  <2> HIDE DEF onSerial
  <2> QED BY <1>1, <2>2, SwitchWorks
<1>7. asked = <<"serial">> => karg.key = <<"bootconsole">>
  BY <1>3
<1> HIDE DEF asked, onSerial, onVga, back, tried
<1>8. CASE asked = <<"vga">>
  BY <1>1, <1>4, <1>8 DEF tried
<1>9. CASE asked # <<"vga">> /\ serial
  <2>1. tried = [con |-> onSerial, result |-> "done"]
    BY <1>2, <1>4, <1>9
  <2>2. tried.result = "done" /\ tried.con = onSerial
    BY <2>1
  <2>3. \E d \in Shows : Works(d, serial) /\ Full(tried.con, d)
    BY <1>5, <1>9, <2>2, Zenon
  <2> QED BY <2>2, <2>3 DEF tried
<1>10. CASE asked = <<"serial">> /\ ~serial
  BY <1>2, <1>3, <1>4, <1>6, <1>7, <1>10 DEF tried
<1>11. CASE asked # <<"vga">> /\ asked # <<"serial">> /\ ~serial
  BY <1>2, <1>4, <1>6, <1>11 DEF tried
<1> QED
  BY <1>8, <1>9, <1>10, <1>11

\* After the fallback to the text mode an argument that is not for the
\* console asks for the serial port again.
LEMMA TryNext ==
    ASSUME NEW c \in Console, NEW karg, karg.key # <<"bootconsole">>
    PROVE  LET tried == TryArg(c, karg, FALSE)
           IN  /\ tried.result = "failed"
               /\ tried.con \in Console /\ tried.con.device = "serial"
<1> DEFINE onSerial == SwitchTo(c, "serial", FALSE)
<1>1. onSerial \in Console /\ onSerial.device = "serial"
  BY SwitchAway
<1>2. <<>> # <<"vga">> /\ <<>> # <<"serial">>
  OBVIOUS
<1>3. bootconsole_init("serial", FALSE) = -1 /\ bootconsole_init("serial", FALSE) # 0
  BY DEF bootconsole_init
<1> DEFINE asked == IF karg.key = <<"bootconsole">> THEN karg.value ELSE <<>>
           tried == TryArg(c, karg, FALSE)
           onVga == SwitchTo(c, "vga", FALSE)
           back == SwitchTo([onSerial EXCEPT !.device = "mem"], "vga", FALSE)
<1>4. tried = CASE asked = <<"vga">> -> [con |-> onVga, result |-> "done"]
                [] asked # <<"vga">> /\ bootconsole_init("serial", FALSE) = 0 ->
                      [con |-> onSerial, result |-> "done"]
                [] asked = <<"serial">> /\ bootconsole_init("serial", FALSE) = -1 ->
                      [con |-> back, result |-> "next"]
                [] OTHER -> [con |-> onSerial, result |-> "failed"]
  BY DEF TryArg
<1>5. asked = <<>>
  OBVIOUS
<1> HIDE DEF asked, onSerial, onVga, back, tried
<1>6. tried = [con |-> onSerial, result |-> "failed"]
  BY <1>2, <1>3, <1>4, <1>5
<1>7. tried.result = "failed" /\ tried.con = onSerial
  BY <1>6
<1>8. onSerial \in Console /\ onSerial.device = "serial"
  BY <1>1 DEF onSerial
<1> QED
  BY <1>7, <1>8 DEF tried

-----------------------------------------------------------------------------
(* The inductive invariant *)

Karg == [key : Text, value : Text]

Typed ==
    /\ machine \in Machines /\ stage \in Stages /\ at \in Nat
    /\ kargs \in Seq(Karg) /\ memory \in Seq(MemoryEntry)
    /\ con \in Console /\ cpus.smp \in BOOLEAN /\ regions \in Seq(RegionRecord)

\* What comes after the test of the magic number.
Checked == {"parse_memory_map", "smp_init", "gdt_init", "pmm_init", "bitmaps",
            "reserve", "kernel_main", "running", "corrupt", "page_fault", "stuck"}

FromLoader == stage \in Checked \/ memory # <<>> => machine.magic

\* The line that has been parsed had no key twice.
Parsed ==
    stage = "boot_console_init" =>
        /\ KeysDiffer(kargs)
        /\ machine.words # NoLine =>
              /\ ~parse_cmdline(Line(machine.words)).twice
              /\ kargs = parse_cmdline(Line(machine.words)).kargs

Copied ==
    stage = "smp_init" =>
        memory = parse_memory_map(machine.map) /\ ~CopyOverflows(machine.map)

InRange ==
    stage = "reserve" =>
        at \in 1 .. Len(ToReserve(memory, machine.kernel, cpus.smp, regions))

\* While no device is chosen everything is in the ring; only the second
\* argument finds a device chosen, after bootconsole=serial has fallen back
\* to the text mode.
OnConsole ==
    /\ stage \in {"start", "parse_cmdline"} => at = 0 /\ Unchosen(con, 0)
    /\ stage = "boot_console_init" =>
          \/ at = 1 /\ Unchosen(con, 0)
          \/ /\ at = 2 /\ 2 <= Len(kargs) /\ kargs[1].key = <<"bootconsole">>
             /\ ~machine.serial /\ Full(con, "vga")
    /\ stage = "console failed" => con.device = "serial" /\ ~machine.serial
    /\ Chosen => \E d \in Shows : Works(d, machine.serial) /\ Full(con, d)
    /\ PanicIsShown

IInv == Typed /\ FromLoader /\ Parsed /\ Copied /\ InRange /\ OnConsole

\* What is known of a machine.
LEMMA Machine ==
    ASSUME NEW m \in Machines
    PROVE  /\ m.magic \in BOOLEAN /\ m.serial \in BOOLEAN /\ WordsOK(m.words)
           /\ m.map \in Seq(MapEntry) /\ m.kernel \in [start : Nat, end : Nat]
           /\ m.fails \in Allocates \union {None}
BY MachinesAssumption DEF WordsOK

\* The command line of a machine is a text.
LEMMA LineIsText ==
    ASSUME NEW words, WordsOK(words)
    PROVE  Line(words) \in Text
<1>1. Len(words) \in Nat
  BY DEF WordsOK
<1>2. 0 \in 0 .. Len(words) /\ \A i \in 1 .. 0 : Len(words[i]) = 2
  BY <1>1
<1> QED
  BY <1>2, LineBegins

\* The table parse_cmdline leaves.
LEMMA TableTyped ==
    ASSUME NEW line \in Text
    PROVE  /\ parse_cmdline(line).kargs \in Seq(Karg)
           /\ KeysDiffer(parse_cmdline(line).kargs)
<1>1. CASE line = <<NUL>>
  <2>1. Begin(0).kargs = <<>>
    BY DEF Begin
  <2>2. parse_cmdline(line).kargs = <<>>
    BY <1>1, <2>1 DEF parse_cmdline
  <2> QED BY <2>2 DEF KeysDiffer
<1>2. CASE line # <<NUL>>
  <2> DEFINE p == parsed(line)[Len(line)]
             N == NArgs(line)
  <2>1. Len(line) \in Nat /\ N \in Nat
    BY NArgsType DEF Text
  <2>2. Len(line) \in 0 .. Len(line)
    BY <2>1
  <2>3. p \in Parsing(N)
    BY <2>2, ParsedFrom
  <2>4. parse_cmdline(line) = p
    BY <1>2 DEF parse_cmdline
  <2>5. KeysDiffer(p.kargs)
    BY ParsedKeysDiffer
  <2> HIDE DEF p, N
  <2>6. p.kargs \in [1 .. N -> Karg]
    BY <2>3 DEF Parsing, Karg
  <2> QED BY <2>1, <2>4, <2>5, <2>6
<1> QED
  BY <1>1, <1>2

\* smp_init finds several processors or not.
LEMMA SmpTyped == ASSUME NEW f, NEW h PROVE smp_init(f, h).smp \in BOOLEAN
<1>1. OneCpu.smp = FALSE
  BY DEF OneCpu
<1>2. \A config : init_cpu_data(config, h).smp \in BOOLEAN
  BY <1>1 DEF init_cpu_data
<1> QED
  BY <1>1, <1>2 DEF smp_init

\* Once a console is chosen the texts that follow are shown, too.
LEMMA StillChosen ==
    ASSUME IInv, Chosen, machine' = machine, con' = con \/ Prints,
           stage' \in Stages, Chosen'
    PROVE  OnConsole'
<1>1. machine \in Machines
  BY DEF IInv, Typed
<1>2. PICK d \in Shows : Works(d, machine.serial) /\ Full(con, d)
  BY DEF IInv, OnConsole
<1>3. machine.serial \in BOOLEAN
  BY <1>1, Machine
<1>4. Full(con', d)
  <2>1. CASE con' = con
    BY <1>2, <2>1
  <2>2. CASE Prints
    BY <1>2, <1>3, <2>2, PrintShown DEF Prints
  <2> QED BY <2>1, <2>2
<1> QED
  BY <1>2, <1>4 DEF OnConsole, Chosen, PanicIsShown

\* A device that has shown all texts has shown each of them.
LEMMA TextsSeen ==
    ASSUME NEW c, NEW d \in Shows, Full(c, d)
    PROVE  ToSet(c.shown.serial) \union ToSet(c.shown.vga) = 1 .. c.printed
<1>1. c.printed \in Nat
  BY DEF Full, Console
<1>2. c.shown[d] = Texts(c.printed) /\ \A e \in Shows \ {d} : c.shown[e] = <<>>
  BY DEF Full
<1>3. ToSet(Texts(c.printed)) = 1 .. c.printed
  BY <1>1 DEF ToSet, Texts
<1>4. ToSet(<<>>) = {}
  BY DEF ToSet
<1>5. CASE d = "serial"
  <2>1. c.shown.serial = Texts(c.printed) /\ c.shown.vga = <<>>
    BY <1>2, <1>5 DEF Shows
  <2> QED BY <1>3, <1>4, <2>1
<1>6. CASE d = "vga"
  <2>1. c.shown.vga = Texts(c.printed) /\ c.shown.serial = <<>>
    BY <1>2, <1>6 DEF Shows
  <2> QED BY <1>3, <1>4, <2>1
<1> QED
  BY <1>5, <1>6 DEF Shows

\* A panic is shown if a device that works is chosen.
LEMMA PanicStep ==
    ASSUME IInv, NEW from \in Stages \ {"panic"}, Panic(from)
    PROVE  IInv'
<1>1. /\ stage = from /\ stage' = "panic" /\ machine' = machine /\ at' = at
      /\ kargs' = kargs /\ memory' = memory /\ cpus' = cpus /\ regions' = regions
      /\ con' = printk(con, machine.serial)
  BY DEF Panic, Prints, info
<1>2. machine \in Machines /\ con \in Console /\ machine.serial \in BOOLEAN
  BY Machine DEF IInv, Typed
<1>3. con' \in Console /\ con'.device = con.device /\ con'.printed = con.printed + 1
  BY <1>1, <1>2, PrintTyped
<1>4. Typed'
  BY <1>1, <1>3 DEF IInv, Typed, Stages, Ended
<1>5. FromLoader' /\ Parsed' /\ Copied' /\ InRange'
  BY <1>1 DEF IInv, FromLoader, Parsed, Copied, InRange, Checked
<1>6. ASSUME NEW d \in Shows, Works(d, machine.serial), Full(con, d)
      PROVE  con'.printed \in Seen'
  <2>1. Full(con', d)
    BY <1>1, <1>2, <1>6, PrintShown
  <2>2. Seen' = 1 .. con'.printed
    BY <2>1, TextsSeen DEF Seen
  <2>3. con'.printed \in Nat /\ con'.printed >= 1
    BY <1>2, <1>3 DEF Console
  <2> QED BY <2>2, <2>3
<1>7. PanicIsShown'
  <2>1. CASE stage \in {"start", "parse_cmdline"}
    BY <1>1, <2>1 DEF PanicIsShown, IInv, OnConsole
  <2>2. CASE stage = "boot_console_init"
    <3>1. CASE at = 1
      BY <1>1, <3>1 DEF PanicIsShown
    <3>2. CASE Full(con, "vga")
      BY <1>1, <1>6, <3>2 DEF PanicIsShown, Works, Shows
    <3> QED BY <2>2, <3>1, <3>2 DEF IInv, OnConsole
  <2>3. CASE stage = "console failed"
    BY <1>1, <1>3, <2>3 DEF PanicIsShown, IInv, OnConsole
  <2>4. CASE Chosen
    BY <1>1, <1>6, <2>4 DEF PanicIsShown, IInv, OnConsole
  <2> QED BY <1>1, <2>1, <2>2, <2>3, <2>4 DEF Chosen
<1>8. OnConsole'
  BY <1>1, <1>7 DEF OnConsole, Chosen
<1> QED
  BY <1>4, <1>5, <1>8 DEF IInv

\* Each action keeps the invariant.  First the calls up to the console.
LEMMA NoMemoryStep == ASSUME IInv, NoMemory PROVE IInv'
<1>1. stage = machine.fails /\ machine \in Machines /\ stage \in Stages
  BY DEF NoMemory, Panic, IInv, Typed
<1>2. machine.fails \in Allocates \union {None}
  BY <1>1, Machine
<1>3. machine.fails \in Stages \ {"panic"}
  BY <1>1, <1>2 DEF Allocates, None
<1> QED
  BY <1>3, PanicStep DEF NoMemory

LEMMA BootInfoStep == ASSUME IInv, BootInfo PROVE IInv'
<1>1. stage = "start" /\ stage' = "parse_cmdline" /\ UNCHANGED <<machine, info, con, at, cpus, regions>>
  BY DEF BootInfo, Goto
<1>2. kargs' = kargs /\ memory' = memory
  BY <1>1 DEF info
<1>3. Typed'
  BY <1>1, <1>2 DEF IInv, Typed, Stages, Allocates
<1>4. FromLoader' /\ Parsed' /\ Copied' /\ InRange'
  BY <1>1, <1>2 DEF IInv, FromLoader, Parsed, Copied, InRange, Checked
<1>5. OnConsole'
  BY <1>1, <1>2 DEF IInv, OnConsole, Chosen, PanicIsShown
<1> QED
  BY <1>3, <1>4, <1>5 DEF IInv

LEMMA ParseCmdlineStep == ASSUME IInv, ParseCmdline PROVE IInv'
<1> DEFINE p == IF machine.words = NoLine THEN Begin(0)
                ELSE parse_cmdline(Line(machine.words))
<1>1. machine \in Machines
  BY DEF IInv, Typed
<1>2. WordsOK(machine.words)
  BY <1>1, Machine
<1>3. p.kargs \in Seq(Karg) /\ KeysDiffer(p.kargs)
  <2>1. CASE machine.words = NoLine
    <3>1. p.kargs = <<>>
      BY <2>1 DEF Begin
    <3>2. <<>> \in Seq(Karg) /\ KeysDiffer(<<>>)
      BY DEF KeysDiffer
    <3> HIDE DEF p
    <3> QED BY <3>1, <3>2
  <2>2. CASE machine.words # NoLine
    BY <1>2, <2>2, LineIsText, TableTyped
  <2> QED BY <2>1, <2>2
<1>4. CASE p.twice
  <2>1. Panic("parse_cmdline")
    BY <1>4 DEF ParseCmdline
  <2> QED BY <2>1, PanicStep DEF Stages, Allocates
<1>5. CASE ~p.twice
  <2>1. /\ stage = "parse_cmdline" /\ stage' = "boot_console_init" /\ kargs' = p.kargs
        /\ at' = 1 /\ UNCHANGED <<machine, memory, con, cpus, regions>>
    BY <1>5 DEF ParseCmdline, Goto
  <2>2. machine'.words # NoLine =>
           /\ ~parse_cmdline(Line(machine'.words)).twice
           /\ kargs' = parse_cmdline(Line(machine'.words)).kargs
    BY <1>5, <2>1
  <2> HIDE DEF p
  <2>3. Typed'
    BY <1>3, <2>1 DEF IInv, Typed, Stages, Allocates
  <2>4. Parsed'
    BY <1>3, <2>1, <2>2 DEF Parsed
  <2>5. FromLoader' /\ Copied' /\ InRange'
    BY <2>1 DEF IInv, FromLoader, Copied, InRange, Checked
  <2>6. OnConsole'
    BY <2>1 DEF IInv, OnConsole, Chosen, PanicIsShown
  <2> QED BY <2>3, <2>4, <2>5, <2>6 DEF IInv
<1> QED
  BY <1>4, <1>5

LEMMA ConsoleFailedStep == ASSUME IInv, ConsoleFailed PROVE IInv'
BY PanicStep DEF ConsoleFailed, Stages

\* Steps that only go on to the next call, or panic.
LEMMA PassStep ==
    ASSUME IInv, NEW from, NEW to, Goto(from, to),
           UNCHANGED <<machine, info, at, cpus, regions>>, con' = con \/ Prints,
           Chosen, to \in Stages, Chosen', to \notin {"smp_init", "reserve"},
           to \in Checked => machine.magic
    PROVE  IInv'
<1>1. /\ stage' = to /\ machine' = machine /\ at' = at
      /\ kargs' = kargs /\ memory' = memory /\ cpus' = cpus /\ regions' = regions
  BY DEF Goto, info
<1>2. machine.serial \in BOOLEAN /\ con \in Console
  BY Machine DEF IInv, Typed
<1>3. con' \in Console
  <2>1. CASE con' = con
    BY <1>2, <2>1
  <2>2. CASE Prints
    BY <1>2, <2>2, PrintTyped DEF Prints
  <2> QED BY <2>1, <2>2
<1>4. Typed'
  BY <1>1, <1>3 DEF IInv, Typed
<1>5. FromLoader'
  BY <1>1 DEF IInv, FromLoader
<1>6. Parsed' /\ Copied' /\ InRange'
  BY <1>1 DEF Parsed, Copied, InRange, Chosen
<1>7. OnConsole'
  BY <1>1, StillChosen
<1> QED
  BY <1>4, <1>5, <1>6, <1>7 DEF IInv

\* The calls that only test, set up tables or end the boot.
LEMMA CheckCpuStep == ASSUME IInv, CheckCpu PROVE IInv'
<1>1. CASE machine.missing # None
  <2>1. Panic("check_cpu")
    BY <1>1 DEF CheckCpu
  <2> QED BY <2>1, PanicStep DEF Stages
<1>2. CASE machine.missing = None
  <2>1. Goto("check_cpu", "magic") /\ UNCHANGED <<machine, info, con, at, cpus, regions>>
    BY <1>2 DEF CheckCpu
  <2>2. Chosen /\ Chosen'
    BY <2>1 DEF Goto, Chosen
  <2> QED BY <2>1, <2>2, PassStep DEF Stages, Checked
<1> QED
  BY <1>1, <1>2

LEMMA CheckMagicStep == ASSUME IInv, CheckMagic PROVE IInv'
<1>1. CASE ~machine.magic
  <2>1. Panic("magic")
    BY <1>1 DEF CheckMagic
  <2> QED BY <2>1, PanicStep DEF Stages
<1>2. CASE machine.magic
  <2>1. Goto("magic", "parse_memory_map") /\ UNCHANGED <<machine, info, con, at, cpus, regions>>
    BY <1>2 DEF CheckMagic
  <2>2. Chosen /\ Chosen'
    BY <2>1 DEF Goto, Chosen
  <2> QED BY <1>2, <2>1, <2>2, PassStep DEF Stages, Allocates
<1> QED
  BY <1>1, <1>2

LEMMA TablesStep == ASSUME IInv, Tables PROVE IInv'
<1>1. Goto("gdt_init", "pmm_init") /\ UNCHANGED <<machine, info, con, at, cpus, regions>>
  BY DEF Tables
<1>2. Chosen /\ Chosen' /\ machine.magic
  BY <1>1 DEF Goto, Chosen, IInv, FromLoader, Checked
<1> QED
  BY <1>1, <1>2, PassStep DEF Stages, Allocates

LEMMA KernelMainStep == ASSUME IInv, KernelMain PROVE IInv'
<1> DEFINE to == IF machine.words = NoLine THEN "page_fault" ELSE "running"
<1>1. Goto("kernel_main", to) /\ Prints /\ UNCHANGED <<machine, info, at, cpus, regions>>
  BY DEF KernelMain
<1>2. to \in {"page_fault", "running"}
  OBVIOUS
<1> HIDE DEF to
<1>3. Chosen /\ Chosen' /\ machine.magic
  BY <1>1, <1>2 DEF Goto, Chosen, IInv, FromLoader, Checked
<1> QED
  BY <1>1, <1>2, <1>3, PassStep DEF Stages, Ended

LEMMA PageFaultStep == ASSUME IInv, PageFault PROVE IInv'
<1>1. CASE ~cpus.smp
  <2>1. Panic("page_fault")
    BY <1>1 DEF PageFault
  <2> QED BY <2>1, PanicStep DEF Stages
<1>2. CASE cpus.smp
  <2>1. Goto("page_fault", "stuck") /\ UNCHANGED <<machine, info, con, at, cpus, regions>>
    BY <1>2 DEF PageFault
  <2>2. Chosen /\ Chosen' /\ machine.magic
    BY <2>1 DEF Goto, Chosen, IInv, FromLoader, Checked
  <2> QED BY <2>1, <2>2, PassStep DEF Stages, Ended
<1> QED
  BY <1>1, <1>2

\* The first argument finds no device; the second one finds the text mode,
\* and is not for the console, for keys differ.
LEMMA BootConsoleInitStep == ASSUME IInv, BootConsoleInit PROVE IInv'
<1> DEFINE karg == IF kargs = <<>> THEN NoArg ELSE kargs[at]
           tried == TryArg(con, karg, machine.serial)
           to == CASE tried.result = "failed" -> "console failed"
                   [] tried.result = "next" /\ at < Len(kargs) -> "boot_console_init"
                   [] OTHER -> "check_cpu"
<1>1. /\ stage = "boot_console_init" /\ stage' = to /\ con' = tried.con /\ at' = at + 1
      /\ machine' = machine /\ kargs' = kargs /\ memory' = memory
      /\ cpus' = cpus /\ regions' = regions
  BY DEF BootConsoleInit, Goto, info
<1>2. /\ machine \in Machines /\ machine.serial \in BOOLEAN /\ at \in Nat /\ con \in Console
      /\ kargs \in Seq(Karg) /\ Len(kargs) \in Nat /\ KeysDiffer(kargs)
  <2>1. /\ machine \in Machines /\ at \in Nat /\ con \in Console /\ kargs \in Seq(Karg)
    BY DEF IInv, Typed
  <2>2. KeysDiffer(kargs)
    BY <1>1 DEF IInv, Parsed
  <2> QED BY <2>1, <2>2, Machine
<1> HIDE DEF tried, karg
<1>3. \/ /\ tried.result = "done"
         /\ \E d \in Shows : Works(d, machine.serial) /\ Full(tried.con, d)
      \/ /\ tried.result = "next" /\ ~machine.serial /\ at = 1
         /\ karg.key = <<"bootconsole">> /\ Full(tried.con, "vga")
      \/ /\ tried.result = "failed" /\ ~machine.serial
         /\ tried.con \in Console /\ tried.con.device = "serial"
  <2>1. CASE at = 1 /\ Unchosen(con, 0)
    BY <1>2, <2>1, TryFirst DEF tried
  <2>2. CASE /\ at = 2 /\ 2 <= Len(kargs) /\ kargs[1].key = <<"bootconsole">>
             /\ ~machine.serial /\ Full(con, "vga")
    <3>1. machine.serial = FALSE
      BY <1>2, <2>2
    <3>2. kargs # <<>> /\ karg = kargs[2] /\ 1 \in DOMAIN kargs /\ 2 \in DOMAIN kargs
      BY <1>2, <2>2 DEF karg
    <3>3. kargs[2].key # <<"bootconsole">>
      BY <1>2, <2>2, <3>2 DEF KeysDiffer, NULL
    <3>4. karg.key # <<"bootconsole">>
      BY <3>2, <3>3
    <3> QED BY <1>2, <2>2, <3>1, <3>4, TryNext DEF tried
  <2> QED BY <1>1, <2>1, <2>2 DEF IInv, OnConsole
<1>4. tried.con \in Console
  BY <1>3 DEF Full
<1>5. stage' \in {"console failed", "boot_console_init", "check_cpu"}
  BY <1>1
<1>6. Typed'
  <2>1. stage' \in Stages
    BY <1>5 DEF Stages, Allocates
  <2> HIDE DEF to
  <2>2. at' \in Nat /\ con' \in Console
    <3>1. at + 1 \in Nat
      BY <1>2
    <3> QED BY <1>1, <1>4, <3>1
  <2> QED BY <1>1, <2>1, <2>2 DEF IInv, Typed
<1>7. FromLoader' /\ Parsed' /\ Copied' /\ InRange'
  BY <1>1, <1>5 DEF IInv, FromLoader, Parsed, Copied, InRange, Checked
<1>8. stage' = "console failed" => tried.result = "failed"
  BY <1>1
<1>9. stage' = "boot_console_init" => tried.result = "next" /\ at < Len(kargs)
  BY <1>1
<1>10. stage' = "check_cpu" => tried.result # "failed"
  BY <1>1
<1> HIDE DEF to
<1>11. OnConsole'
  <2>1. CASE stage' = "console failed"
    BY <1>1, <1>3, <1>8, <2>1 DEF OnConsole, Chosen, PanicIsShown
  <2>2. CASE stage' = "boot_console_init"
    <3>1. karg.key = <<"bootconsole">> /\ at = 1 /\ Full(tried.con, "vga") /\ ~machine.serial
          /\ 2 <= Len(kargs)
      BY <1>2, <1>3, <1>9, <2>2
    <3>2. kargs[1].key = <<"bootconsole">>
      <4>1. kargs # <<>>
        BY <3>1
      <4> QED BY <3>1, <4>1 DEF karg
    <3> QED BY <1>1, <2>2, <3>1, <3>2 DEF OnConsole, Chosen, PanicIsShown
  <2>3. CASE stage' = "check_cpu"
    <3>1. \E d \in Shows : Works(d, machine.serial) /\ Full(tried.con, d)
      BY <1>3, <1>10, <2>3 DEF Works, Shows
    <3> QED BY <1>1, <2>3, <3>1 DEF OnConsole, Chosen, PanicIsShown
  <2> QED BY <1>5, <2>1, <2>2, <2>3
<1> QED
  BY <1>6, <1>7, <1>11 DEF IInv

\* The memory map is read behind the test of the magic number.
LEMMA ParseMemoryMapStep == ASSUME IInv, ParseMemoryMap PROVE IInv'
<1>1. /\ stage = "parse_memory_map" /\ machine' = machine /\ kargs' = kargs /\ con' = con
      /\ stage' = IF CopyOverflows(machine.map) THEN "corrupt" ELSE "smp_init"
      /\ at' = at /\ cpus' = cpus /\ regions' = regions
      /\ memory' = parse_memory_map(machine.map)
  BY DEF ParseMemoryMap, Goto
<1>2. machine \in Machines /\ machine.map \in Seq(MapEntry)
  BY Machine DEF IInv, Typed
<1>3. memory' \in Seq(MemoryEntry) /\ stage' \in {"corrupt", "smp_init"}
  BY <1>1, <1>2, MapCopied
<1>4. Typed'
  BY <1>1, <1>3 DEF IInv, Typed, Stages, Allocates, Ended
<1>5. FromLoader'
  BY <1>1 DEF IInv, FromLoader, Checked
<1>6. Copied'
  BY <1>1 DEF Copied
<1>7. Parsed' /\ InRange'
  BY <1>1, <1>3 DEF Parsed, InRange
<1>8. Chosen /\ Chosen'
  BY <1>1, <1>3 DEF Chosen
<1>9. OnConsole'
  BY <1>1, <1>4, <1>8, StillChosen DEF Typed
<1> QED
  BY <1>4, <1>5, <1>6, <1>7, <1>9 DEF IInv

LEMMA SmpInitStep == ASSUME IInv, SmpInit PROVE IInv'
<1>1. /\ stage = "smp_init" /\ stage' = "gdt_init" /\ machine' = machine /\ kargs' = kargs
      /\ con' = con /\ at' = at /\ regions' = regions /\ memory' = memory
      /\ cpus' = smp_init(machine.firmware, machine.hyperthreading)
  BY DEF SmpInit, Goto, info
<1>2. cpus'.smp \in BOOLEAN
  BY <1>1, SmpTyped
<1>3. Typed'
  BY <1>1, <1>2 DEF IInv, Typed, Stages, Allocates
<1>4. FromLoader' /\ Parsed' /\ Copied' /\ InRange'
  BY <1>1 DEF IInv, FromLoader, Parsed, Copied, InRange, Checked
<1>5. Chosen /\ Chosen'
  BY <1>1 DEF Chosen
<1>6. OnConsole'
  BY <1>1, <1>3, <1>5, StillChosen DEF Typed
<1> QED
  BY <1>3, <1>4, <1>6 DEF IInv

\* The regions, their bitmaps and the memory in use, a request a step.
LEMMA PmmRegionsStep == ASSUME IInv, PmmRegions PROVE IInv'
<1>1. CASE memory = <<>> \/ ListHasNoHead(memory)
  <2>1. Panic("pmm_init")
    BY <1>1 DEF PmmRegions
  <2> QED BY <2>1, PanicStep DEF Stages, Allocates
<1>2. CASE ~(memory = <<>> \/ ListHasNoHead(memory))
  <2>1. /\ stage = "pmm_init" /\ stage' = "bitmaps" /\ machine' = machine /\ kargs' = kargs
        /\ con' = con /\ at' = at /\ cpus' = cpus /\ memory' = memory
        /\ regions' = Regions(memory)
    BY <1>2 DEF PmmRegions, Goto, info
  <2>2. regions' \in Seq(RegionRecord)
    BY <2>1, RegionsTyped DEF IInv, Typed
  <2>3. Typed'
    BY <2>1, <2>2 DEF IInv, Typed, Stages
  <2>4. FromLoader' /\ Parsed' /\ Copied' /\ InRange'
    BY <2>1 DEF IInv, FromLoader, Parsed, Copied, InRange, Checked
  <2>5. Chosen /\ Chosen'
    BY <2>1 DEF Chosen
  <2>6. OnConsole'
    BY <2>1, <2>3, <2>5, StillChosen DEF Typed
  <2> QED BY <2>3, <2>4, <2>6 DEF IInv
<1> QED
  BY <1>1, <1>2

LEMMA PmmBitmapsStep == ASSUME IInv, PmmBitmaps PROVE IInv'
<1> DEFINE start == StartAvailableMemory(memory, machine.kernel, AllBitmapsSize(regions))
<1>1. CASE ~HasRoom(start, regions)
  <2>1. Panic("bitmaps")
    BY <1>1 DEF PmmBitmaps
  <2> QED BY <2>1, PanicStep DEF Stages
<1>2. CASE HasRoom(start, regions)
  <2>1. /\ stage = "bitmaps" /\ stage' = "reserve" /\ machine' = machine /\ kargs' = kargs
        /\ con' = con /\ at' = 1 /\ cpus' = cpus /\ memory' = memory
        /\ regions' = Placed(regions, start)
    BY <1>2 DEF PmmBitmaps, Goto, info
  <2>2. /\ memory \in Seq(MemoryEntry) /\ machine \in Machines /\ cpus.smp \in BOOLEAN
        /\ regions \in Seq(RegionRecord)
    BY DEF IInv, Typed
  <2>3. machine.kernel \in [start : Nat, end : Nat]
    BY <2>2, Machine
  <2>4. start \in Int
    BY <2>2, <2>3, AllSizes, StartTyped
  <2> HIDE DEF start
  <2>5. regions' \in Seq(RegionRecord)
    BY <2>1, <2>2, <2>4, PlacedTyped
  <2>6. Typed'
    BY <2>1, <2>5 DEF IInv, Typed, Stages
  <2>7. FromLoader' /\ Parsed' /\ Copied'
    BY <2>1 DEF IInv, FromLoader, Parsed, Copied, Checked
  <2>8. InRange'
    <3> DEFINE requests == ToReserve(memory, machine.kernel, cpus.smp, regions')
    <3>1. Len(requests) = (IF cpus.smp THEN 5 ELSE 4) + Len(regions')
                           + Len(OfType(memory, {"reclaimable"}))
      BY <2>2, <2>3, <2>5, RequestsTyped
    <3>2. Len(regions') \in Nat /\ Len(OfType(memory, {"reclaimable"})) \in Nat
      BY <2>2, <2>5, OfTypeIs
    <3> HIDE DEF requests
    <3>3. 1 \in 1 .. Len(requests)
      BY <3>1, <3>2
    <3> QED BY <2>1, <3>3 DEF InRange, requests
  <2>9. Chosen /\ Chosen'
    BY <2>1 DEF Chosen
  <2>10. OnConsole'
    BY <2>1, <2>6, <2>9, StillChosen DEF Typed
  <2> QED BY <2>6, <2>7, <2>8, <2>10 DEF IInv
<1> QED
  BY <1>1, <1>2

LEMMA PmmReserveStep == ASSUME IInv, PmmReserve PROVE IInv'
<1> DEFINE requests == ToReserve(memory, machine.kernel, cpus.smp, regions)
           q == requests[at]
           last == at = Len(requests)
<1>1. CASE addr_to_bitmap(regions, q.start) = 0
  <2>1. Panic("reserve")
    BY <1>1 DEF PmmReserve
  <2> QED BY <2>1, PanicStep DEF Stages
<1>2. CASE addr_to_bitmap(regions, q.start) # 0
  <2>1. /\ stage = "reserve" /\ stage' = (IF last THEN "kernel_main" ELSE "reserve")
        /\ machine' = machine /\ kargs' = kargs /\ memory' = memory /\ cpus' = cpus
        /\ at' = at + 1 /\ (con' = con \/ Prints)
        /\ regions' = reserve_region(regions, q.start, q.size)
    BY <1>2 DEF PmmReserve, Goto, info
  <2>2. /\ memory \in Seq(MemoryEntry) /\ machine \in Machines /\ cpus.smp \in BOOLEAN
        /\ regions \in Seq(RegionRecord) /\ con \in Console /\ at \in Nat
    BY DEF IInv, Typed
  <2>3. machine.kernel \in [start : Nat, end : Nat] /\ machine.serial \in BOOLEAN
    BY <2>2, Machine
  <2>4. requests \in Seq(Request)
    BY <2>2, <2>3, RequestsTyped
  <2>5. at \in 1 .. Len(requests)
    BY <2>1 DEF IInv, InRange
  <2> HIDE DEF requests
  <2>6. q.start \in Int /\ q.size \in Int
    <3>1. q \in Request
      BY <2>4, <2>5
    <3> QED BY <3>1 DEF Request
  <2> HIDE DEF q
  <2>7. regions' \in Seq(RegionRecord) /\ Len(regions') = Len(regions)
    BY <1>2, <2>1, <2>2, <2>6, ReserveTyped
  <2>8. con' \in Console
    <3>1. CASE con' = con
      BY <2>2, <3>1
    <3>2. CASE Prints
      BY <2>2, <2>3, <3>2, PrintTyped DEF Prints
    <3> QED BY <2>1, <3>1, <3>2
  <2>9. stage' \in {"kernel_main", "reserve"} /\ (stage' = "reserve" => at # Len(requests))
    BY <2>1
  <2>10. Typed'
    <3>1. stage' \in Stages /\ at' \in Nat
      BY <2>1, <2>2, <2>9 DEF Stages
    <3> QED BY <2>1, <2>7, <2>8, <3>1 DEF IInv, Typed
  <2>11. FromLoader' /\ Parsed' /\ Copied'
    BY <2>1, <2>9 DEF IInv, FromLoader, Parsed, Copied, Checked
  <2>12. InRange'
    <3> DEFINE after == ToReserve(memory, machine.kernel, cpus.smp, regions')
    <3>1. Len(after) = Len(requests) /\ Len(requests) \in Nat
      <4>1. Len(after) = (IF cpus.smp THEN 5 ELSE 4) + Len(regions')
                             + Len(OfType(memory, {"reclaimable"}))
        BY <2>2, <2>3, <2>7, RequestsTyped
      <4>2. Len(requests) = (IF cpus.smp THEN 5 ELSE 4) + Len(regions)
                             + Len(OfType(memory, {"reclaimable"}))
        BY <2>2, <2>3, RequestsTyped DEF requests
      <4> QED BY <2>4, <2>7, <4>1, <4>2
    <3> HIDE DEF after
    <3>2. stage' = "reserve" => at + 1 \in 1 .. Len(after)
      BY <2>2, <2>5, <2>9, <3>1
    <3> QED BY <2>1, <3>2 DEF InRange, after
  <2>13. Chosen /\ Chosen'
    BY <2>1, <2>9 DEF Chosen
  <2>14. OnConsole'
    BY <2>1, <2>10, <2>13, StillChosen DEF Typed
  <2> QED BY <2>10, <2>11, <2>12, <2>14 DEF IInv
<1> QED
  BY <1>1, <1>2

-----------------------------------------------------------------------------
(* Theorems *)

\* The first state.
LEMMA InitInv == ASSUME Init PROVE IInv
<1>1. /\ machine \in Machines /\ stage = "start" /\ kargs = <<>> /\ memory = <<>> /\ at = 0
      /\ con = bootconsole_mem_init /\ cpus = OneCpu /\ regions = <<>>
  BY DEF Init
<1>2. Unchosen(con, 0) /\ con \in Console
  BY <1>1, InitialConsole DEF Unchosen
<1>3. cpus.smp \in BOOLEAN
  BY <1>1 DEF OneCpu
<1>4. Typed
  BY <1>1, <1>2, <1>3 DEF Typed, Stages, Allocates
<1>5. FromLoader /\ Parsed /\ Copied /\ InRange
  BY <1>1 DEF FromLoader, Parsed, Copied, InRange, Checked
<1>6. OnConsole
  BY <1>1, <1>2 DEF OnConsole, Chosen, PanicIsShown
<1> QED
  BY <1>4, <1>5, <1>6 DEF IInv

LEMMA StutterStep == ASSUME IInv, UNCHANGED vars PROVE IInv'
<1>1. /\ machine' = machine /\ stage' = stage /\ kargs' = kargs /\ memory' = memory
      /\ con' = con /\ at' = at /\ cpus' = cpus /\ regions' = regions
  BY DEF vars, info
<1>2. Typed' /\ FromLoader' /\ Parsed' /\ Copied' /\ InRange'
  BY <1>1 DEF IInv, Typed, FromLoader, Parsed, Copied, InRange
<1>3. OnConsole'
  BY <1>1 DEF IInv, OnConsole, Chosen, PanicIsShown, Seen
<1> QED
  BY <1>2, <1>3 DEF IInv

\* The inductive invariant: in any machine each step of arch_main leaves
\* the parsers' results, the console and the regions as the next one needs.
THEOREM Invariant == Spec => []IInv
<1>1. Init => IInv
  BY InitInv
<1>2. IInv /\ [Next]_vars => IInv'
  <2> SUFFICES ASSUME IInv, [Next]_vars PROVE IInv'
    OBVIOUS
  <2>1. CASE NoMemory
    BY <2>1, NoMemoryStep
  <2>2. CASE BootInfo
    BY <2>2, BootInfoStep
  <2>3. CASE ParseCmdline
    BY <2>3, ParseCmdlineStep
  <2>4. CASE BootConsoleInit
    BY <2>4, BootConsoleInitStep
  <2>5. CASE ConsoleFailed
    BY <2>5, ConsoleFailedStep
  <2>6. CASE CheckCpu
    BY <2>6, CheckCpuStep
  <2>7. CASE CheckMagic
    BY <2>7, CheckMagicStep
  <2>8. CASE ParseMemoryMap
    BY <2>8, ParseMemoryMapStep
  <2>9. CASE SmpInit
    BY <2>9, SmpInitStep
  <2>10. CASE Tables
    BY <2>10, TablesStep
  <2>11. CASE PmmRegions
    BY <2>11, PmmRegionsStep
  <2>12. CASE PmmBitmaps
    BY <2>12, PmmBitmapsStep
  <2>13. CASE PmmReserve
    BY <2>13, PmmReserveStep
  <2>14. CASE KernelMain
    BY <2>14, KernelMainStep
  <2>15. CASE PageFault
    BY <2>15, PageFaultStep
  <2>16. CASE UNCHANGED vars
    BY <2>16, StutterStep
  <2> QED
    BY <2>1, <2>2, <2>3, <2>4, <2>5, <2>6, <2>7, <2>8, <2>9, <2>10, <2>11, <2>12, <2>13,
       <2>14, <2>15, <2>16 DEF Next
<1> QED
  BY <1>1, <1>2, PTL DEF Spec

\* What the invariant says of the properties, one by one.
LEMMA TypesFollow == ASSUME IInv PROVE TypeOK
<1>1. Typed
  BY DEF IInv
<1>2. \A i \in DOMAIN kargs : DOMAIN kargs[i] = {"key", "value"}
  <2>1. \A i \in DOMAIN kargs : kargs[i] \in Karg
    BY <1>1 DEF Typed
  <2>2. \A k \in Karg : DOMAIN k = {"key", "value"}
    BY DEF Karg
  <2> QED BY <2>1, <2>2
<1>3. \A i \in DOMAIN memory : InPool(memory[i]) \/ memory[i].type = "reserved"
  <2>1. \A i \in DOMAIN memory : memory[i] \in MemoryEntry
    BY <1>1 DEF Typed
  <2>2. \A m \in MemoryEntry : InPool(m) \/ m.type = "reserved"
    BY DEF MemoryEntry, InPool, Pool
  <2> QED BY <2>1, <2>2
<1>4. con.device \in Devices /\ con.index \in 0 .. BUF_SIZE - 1
  BY <1>1 DEF Typed, Console
<1>5. \A i \in DOMAIN regions : regions[i].bits \subseteq Int
  <2>1. \A i \in DOMAIN regions : regions[i] \in RegionRecord
    BY <1>1 DEF Typed
  <2>2. \A r \in RegionRecord : r.bits \subseteq Int
    BY DEF RegionRecord
  <2> QED BY <2>1, <2>2
<1> QED
  BY <1>1, <1>2, <1>3, <1>4, <1>5 DEF TypeOK, Typed

LEMMA AssignmentsFollow == ASSUME IInv PROVE LeadingAssignmentsTaken
<1> SUFFICES ASSUME stage = "boot_console_init", machine.words # NoLine,
                    NEW n \in DOMAIN machine.words,
                    \A i \in 1 .. n : Len(machine.words[i]) = 2
             PROVE  kargs[n] = [key |-> <<machine.words[n][1]>>,
                                value |-> <<machine.words[n][2]>>]
  BY DEF LeadingAssignmentsTaken
<1> DEFINE words == machine.words
           p == parse_cmdline(Line(words))
<1>1. WordsOK(words)
  BY Machine DEF IInv, Typed
<1>2. ~p.twice /\ kargs = p.kargs
  BY DEF IInv, Parsed
<1>3. n \in 0 .. Len(words) /\ n \in 1 .. n /\ \A i \in 1 .. n : Len(words[i]) = 2
  BY <1>1 DEF WordsOK
<1> HIDE DEF words
<1>4. \A i \in 1 .. n : p.kargs[i] = [key |-> <<words[i][1]>>, value |-> <<words[i][2]>>]
  BY <1>1, <1>2, <1>3, AssignmentsTaken
<1> HIDE DEF p
<1> QED
  BY <1>2, <1>3, <1>4 DEF words

LEMMA MapFollows == ASSUME IInv PROVE MapComplete
<1> SUFFICES ASSUME stage = "smp_init", NEW i \in DOMAIN machine.map, ~machine.map[i].above
             PROVE  /\ memory[i].base = machine.map[i].base
                    /\ memory[i].length = machine.map[i].length
                    /\ InPool(memory[i]) <=> machine.map[i].type \in {1, 3}
  BY DEF MapComplete
<1> DEFINE map == machine.map
<1>1. map \in Seq(MapEntry)
  BY Machine DEF IInv, Typed
<1>2. memory = parse_memory_map(map) /\ ~CopyOverflows(map)
  BY DEF IInv, Copied
<1>3. i \in DOMAIN map /\ ~map[i].above
  OBVIOUS
<1> HIDE DEF map
<1>4. i \in 1 .. NumberEntries(map)
  <2>1. ~(i > NumberEntries(map))
    BY <1>2, <1>3 DEF CopyOverflows
  <2>2. NumberEntries(map) \in Nat /\ i \in 1 .. Len(map) /\ Len(map) \in Nat
    BY <1>1, <1>3, MapCopied
  <2> QED BY <2>1, <2>2
<1>5. memory[i] = [base |-> map[i].base, length |-> map[i].length, type |-> Kind(map[i].type)]
  BY <1>2, <1>4 DEF parse_memory_map
<1>6. Kind(map[i].type) \in Pool <=> map[i].type \in {1, 3}
  <2>1. map[i].type \in Nat
    <3>1. map[i] \in MapEntry
      BY <1>1, <1>3
    <3> QED BY <3>1 DEF MapEntry
  <2>2. CASE map[i].type = 1
    BY <2>2 DEF Kind, Pool
  <2>3. CASE map[i].type = 3
    BY <2>3 DEF Kind, Pool
  <2>4. CASE map[i].type \notin {1, 3}
    BY <2>1, <2>4 DEF Kind, Pool
  <2> QED BY <2>2, <2>3, <2>4
<1> QED
  BY <1>5, <1>6 DEF map, InPool

\* What the boot loader says reaches the kernel as it said it: the
\* assignments at the start of the command line are in the table in their
\* places, and the memory map is the loader's, complete below 4 GiB.
THEOREM BootInfoKeptHolds == Spec => []BootInfoKept
<1>1. IInv => BootInfoKept
  <2> SUFFICES ASSUME IInv PROVE BootInfoKept
    OBVIOUS
  <2>1. MapOnlyFromLoader
    BY DEF IInv, FromLoader, MapOnlyFromLoader
  <2> QED BY <2>1, TypesFollow, AssignmentsFollow, MapFollows DEF BootInfoKept
<1> QED
  BY <1>1, Invariant, PTL

\* Whatever is printed during the boot is shown once and in order once a
\* console is chosen, and a panic from then on is shown.
THEOREM ConsoleKeepsAllHolds == Spec => []ConsoleKeepsAll
<1>1. IInv => ConsoleKeepsAll
  <2> SUFFICES ASSUME IInv PROVE ConsoleKeepsAll
    OBVIOUS
  <2>1. PanicIsShown
    BY DEF IInv, OnConsole
  <2>2. ASSUME Chosen
        PROVE  /\ Seen = 1 .. con.printed
               /\ \A d \in {"serial", "vga"} : \A i \in 1 .. Len(con.shown[d]) - 1 :
                      con.shown[d][i] < con.shown[d][i + 1]
    <3>1. PICK d \in Shows : Full(con, d)
      BY <2>2 DEF IInv, OnConsole
    <3>2. Seen = 1 .. con.printed
      BY <3>1, TextsSeen DEF Seen
    <3>3. con.printed \in Nat /\ con.shown[d] = Texts(con.printed)
          /\ \A e \in Shows \ {d} : con.shown[e] = <<>>
      BY <3>1 DEF Full, Console
    <3>4. ASSUME NEW e \in Shows, NEW i \in 1 .. Len(con.shown[e]) - 1
          PROVE  con.shown[e][i] < con.shown[e][i + 1]
      <4>1. CASE e = d
        BY <3>3, <3>4, <4>1 DEF Texts
      <4>2. CASE e # d
        <5>1. Len(con.shown[e]) = 0
          BY <3>3, <4>2
        <5> QED BY <3>4, <5>1
      <4> QED BY <4>1, <4>2
    <3> QED BY <3>2, <3>4 DEF Shows
  <2> QED BY <2>1, <2>2 DEF ConsoleKeepsAll, NothingLost
<1> QED
  BY <1>1, Invariant, PTL

-----------------------------------------------------------------------------
(* The processors *)

\* Sequences put one behind the other are found one after the other.
LEMMA FlattenFrom ==
    ASSUME NEW D, NEW seqs \in Seq(Seq(D))
    PROVE  \E g :
              /\ \A n \in 0 .. Len(seqs) : g[n] \in Seq(D)
              /\ g[0] = <<>>
              /\ \A n \in 1 .. Len(seqs) : g[n] = g[n - 1] \o seqs[n]
              /\ FlattenSeq(seqs) = g[Len(seqs)]
<1> DEFINE N == Len(seqs)
           T == Seq(D)
           step == [s \in T |-> [n \in 1 .. N |-> s \o seqs[n]]]
           flat(f) == f = [n \in 1 .. N |-> IF n = 1 THEN seqs[n] ELSE f[n - 1] \o seqs[n]]
<1>1. N \in Nat /\ <<>> \in T /\ \A n \in 1 .. N : seqs[n] \in T
  OBVIOUS
<1>2. \A s, t \in T : s \o t \in T
  OBVIOUS
<1>3. \A s \in T : <<>> \o s = s
  OBVIOUS
<1>4. step \in [T -> [1 .. N -> T]]
  <2> HIDE DEF T, N
  <2> QED BY <1>1, <1>2
<1>5. PICK f : Loop(f, N, T, <<>>, step)
  <2> HIDE DEF T, N, step
  <2> QED BY <1>1, <1>4, Recursion
<1>6. /\ f[0] = <<>> /\ f \in [0 .. N -> T]
      /\ \A n \in 1 .. N : f[n] = f[n - 1] \o seqs[n]
  <2>1. f[0] = <<>> /\ f \in [0 .. N -> T]
    <3> HIDE DEF T, N, step
    <3> QED BY <1>5 DEF Loop
  <2>2. ASSUME NEW n \in 1 .. N PROVE f[n] = f[n - 1] \o seqs[n]
    <3>1. n - 1 \in 0 .. N
      BY <1>1
    <3> HIDE DEF T, N
    <3>2. f[n - 1] \in T /\ f[n] = step[f[n - 1]][n]
      <4> HIDE DEF step
      <4> QED BY <1>5, <3>1 DEF Loop
    <3> QED BY <3>2
  <2> QED BY <2>1, <2>2
<1> HIDE DEF T, N
<1>7. CASE N = 0
  <2>1. seqs = <<>> /\ FlattenSeq(seqs) = seqs
    BY <1>7 DEF FlattenSeq, N
  <2> QED BY <1>6, <1>7, <2>1 DEF N, T
<1>8. CASE N # 0
  <2> DEFINE h == [n \in 1 .. N |-> f[n]]
  <2>1. ASSUME NEW n \in 1 .. N
        PROVE  h[n] = IF n = 1 THEN seqs[n] ELSE h[n - 1] \o seqs[n]
    <3>1. CASE n = 1
      BY <1>1, <1>3, <1>6, <3>1
    <3>2. CASE n # 1
      <4>1. n - 1 \in 1 .. N
        BY <1>1, <3>2
      <4> QED BY <1>6, <3>2, <4>1
    <3> QED BY <3>1, <3>2
  <2>2. flat(h)
    <3>1. h = [n \in 1 .. N |-> h[n]]
      OBVIOUS
    <3> HIDE DEF h
    <3> QED BY <2>1, <3>1
  <2>3. PICK e : flat(e) /\ FlattenSeq(seqs) = e[N]
    <3> HIDE DEF h
    <3> QED BY <1>8, <2>2 DEF FlattenSeq, N
  <2> DEFINE g == [n \in 0 .. N |-> IF n = 0 THEN <<>> ELSE e[n]]
             S == {n \in 0 .. N : g[n] \in T}
  <2>4. \A n \in 1 .. N : e[n] = IF n = 1 THEN seqs[n] ELSE e[n - 1] \o seqs[n]
    BY <2>3
  <2>5. g[0] = <<>> /\ 0 \in 0 .. N /\ N \in 1 .. N
    BY <1>1, <1>8
  <2>6. ASSUME NEW n \in 1 .. N PROVE g[n] = g[n - 1] \o seqs[n]
    <3>1. n \in 0 .. N /\ n - 1 \in 0 .. N /\ g[n] = e[n]
      BY <1>1
    <3>2. CASE n = 1
      <4>1. n - 1 = 0 /\ g[n - 1] = <<>>
        BY <2>5, <3>2
      <4>2. e[n] = seqs[n] /\ seqs[n] \in T
        BY <1>1, <2>4, <3>2
      <4> HIDE DEF g
      <4>3. g[n - 1] \o seqs[n] = seqs[n]
        BY <1>3, <4>1, <4>2
      <4> QED BY <3>1, <4>2, <4>3
    <3>3. CASE n # 1
      <4>1. g[n - 1] = e[n - 1]
        BY <1>1, <3>1, <3>3
      <4> QED BY <2>4, <3>1, <3>3, <4>1
    <3> QED BY <3>2, <3>3
  <2>7. g[N] = e[N]
    BY <1>1, <1>8
  <2> HIDE DEF g
  <2>8. 0 \in S
    BY <1>1, <2>5
  <2>9. \A n \in 0 .. N : n \in S /\ n < N => n + 1 \in S
    <3> SUFFICES ASSUME NEW n \in 0 .. N, g[n] \in T, n < N PROVE g[n + 1] \in T
      BY <1>1
    <3>1. n + 1 \in 1 .. N /\ (n + 1) - 1 = n
      BY <1>1
    <3> QED BY <1>1, <1>2, <2>6, <3>1
  <2> HIDE DEF S
  <2>10. \A n \in 0 .. N : n \in S
    BY <1>1, <2>8, <2>9, UpTo
  <2>11. \A n \in 0 .. N : g[n] \in T
    BY <2>10 DEF S
  <2> QED BY <2>3, <2>5, <2>6, <2>7, <2>11 DEF N, T
<1> QED
  BY <1>7, <1>8

\* The lengths of sequences put together add up, and each is found behind
\* those before it.
LEMMA FlattenIs ==
    ASSUME NEW D, NEW seqs \in Seq(Seq(D))
    PROVE  /\ FlattenSeq(seqs) \in Seq(D)
           /\ \E off :
                 /\ \A n \in 0 .. Len(seqs) : off[n] \in Nat
                 /\ off[0] = 0
                 /\ \A n \in 1 .. Len(seqs) : off[n] = off[n - 1] + Len(seqs[n])
                 /\ \A n \in 1 .. Len(seqs) : \A k \in 1 .. Len(seqs[n]) :
                       /\ off[n - 1] + k \in 1 .. Len(FlattenSeq(seqs))
                       /\ FlattenSeq(seqs)[off[n - 1] + k] = seqs[n][k]
<1> DEFINE N == Len(seqs)
           T == Seq(D)
<1>1. N \in Nat /\ \A n \in 1 .. N : seqs[n] \in T
  OBVIOUS
<1>2. PICK g : /\ \A n \in 0 .. N : g[n] \in T
               /\ g[0] = <<>>
               /\ \A n \in 1 .. N : g[n] = g[n - 1] \o seqs[n]
               /\ FlattenSeq(seqs) = g[N]
  BY FlattenFrom
<1>3. \A s \in T : Len(s) \in Nat
  OBVIOUS
<1>4. ASSUME NEW s \in T, NEW t \in T
      PROVE  /\ Len(s \o t) = Len(s) + Len(t)
             /\ \A k \in 1 .. Len(s) : (s \o t)[k] = s[k]
             /\ \A k \in 1 .. Len(t) : (s \o t)[Len(s) + k] = t[k]
  OBVIOUS
<1>5. Len(<<>>) = 0
  OBVIOUS
<1> DEFINE off == [n \in 0 .. N |-> Len(g[n])]
           Found(n, m) == \A k \in 1 .. Len(seqs[m]) :
                             /\ off[m - 1] + k \in 1 .. Len(g[n])
                             /\ g[n][off[m - 1] + k] = seqs[m][k]
           S == {n \in 0 .. N : \A m \in 1 .. n : Found(n, m)}
<1> HIDE DEF T, N
<1>6. \A n \in 0 .. N : off[n] = Len(g[n]) /\ off[n] \in Nat
  BY <1>2, <1>3
<1> HIDE DEF off
<1>7. ASSUME NEW n \in 1 .. N
      PROVE  /\ n \in 0 .. N /\ n - 1 \in 0 .. N /\ seqs[n] \in T /\ g[n - 1] \in T
             /\ Len(seqs[n]) \in Nat /\ g[n] = g[n - 1] \o seqs[n]
             /\ off[n - 1] = Len(g[n - 1]) /\ off[n - 1] \in Nat
  <2>1. n \in 0 .. N /\ n - 1 \in 0 .. N
    BY <1>1
  <2> QED BY <1>1, <1>2, <1>3, <1>6, <2>1
<1>8. \A n \in 1 .. N : off[n] = off[n - 1] + Len(seqs[n])
  <2> SUFFICES ASSUME NEW n \in 1 .. N PROVE off[n] = off[n - 1] + Len(seqs[n])
    OBVIOUS
  <2> DEFINE s == g[n - 1]
             t == seqs[n]
  <2>0. s \in T /\ t \in T /\ g[n] = s \o t
    BY <1>7
  <2> HIDE DEF s, t
  <2>a. Len(s \o t) = Len(s) + Len(t)
    BY <1>4, <2>0
  <2>1. Len(g[n]) = Len(g[n - 1]) + Len(seqs[n])
    BY <2>0, <2>a DEF s, t
  <2> QED BY <1>6, <1>7, <2>1
<1>9. 0 \in S
  BY <1>1
<1>10. \A n \in 0 .. N : n \in S /\ n < N => n + 1 \in S
  <2> SUFFICES ASSUME NEW n \in 0 .. N, n < N, \A m \in 1 .. n : Found(n, m),
                      NEW m \in 1 .. n + 1
               PROVE  Found(n + 1, m)
    <3> HIDE DEF Found
    <3> QED BY <1>1
  <2> SUFFICES ASSUME NEW k \in 1 .. Len(seqs[m])
               PROVE  /\ off[m - 1] + k \in 1 .. Len(g[n + 1])
                      /\ g[n + 1][off[m - 1] + k] = seqs[m][k]
    OBVIOUS
  <2> DEFINE s == g[n]
             t == seqs[n + 1]
  <2>1. n + 1 \in 1 .. N /\ (n + 1) - 1 = n
    BY <1>1
  <2>2. s \in T /\ t \in T /\ g[n + 1] = s \o t /\ Len(s) \in Nat /\ Len(t) \in Nat
        /\ off[n] = Len(s)
    BY <1>3, <1>7, <2>1
  <2> HIDE DEF s, t
  <2>3. /\ Len(s \o t) = Len(s) + Len(t)
        /\ \A i \in 1 .. Len(s) : (s \o t)[i] = s[i]
        /\ \A i \in 1 .. Len(t) : (s \o t)[Len(s) + i] = t[i]
    BY <1>4, <2>2
  <2>4. CASE m = n + 1
    <3>1. m - 1 = n /\ k \in 1 .. Len(t)
      BY <2>4 DEF t
    <3>2. Len(s) + k \in 1 .. Len(s) + Len(t)
      BY <2>2, <3>1
    <3>3. (s \o t)[Len(s) + k] = t[k]
      BY <2>3, <3>1
    <3> QED BY <2>2, <2>3, <2>4, <3>1, <3>2, <3>3 DEF t
  <2>5. CASE m # n + 1
    <3>1. m \in 1 .. n
      BY <2>5
    <3>2. off[m - 1] + k \in 1 .. Len(s) /\ s[off[m - 1] + k] = seqs[m][k]
      BY <3>1 DEF s
    <3> DEFINE p == off[m - 1] + k
    <3> HIDE DEF p
    <3>3. p \in 1 .. Len(s) /\ s[p] = seqs[m][k]
      BY <3>2 DEF p
    <3>4. p \in 1 .. Len(s \o t) /\ (s \o t)[p] = seqs[m][k]
      BY <2>2, <2>3, <3>3
    <3> QED BY <2>2, <3>4 DEF p
  <2> QED BY <2>4, <2>5
<1>11. N \in S
  <2> HIDE DEF S
  <2>1. \A n \in 0 .. N : n \in S
    BY <1>1, <1>9, <1>10, UpTo
  <2>2. N \in 0 .. N
    BY <1>1
  <2> QED BY <2>1, <2>2
<1>12. FlattenSeq(seqs) \in T
  <2>1. N \in 0 .. N
    BY <1>1
  <2> QED BY <1>2, <2>1
<1>13. off[0] = 0
  <2>1. 0 \in 0 .. N
    BY <1>1
  <2> QED BY <1>2, <1>5, <1>6, <2>1
<1> QED
  BY <1>2, <1>6, <1>8, <1>11, <1>12, <1>13 DEF N, T

\* Eight bytes, and twenty.
LEMMA EightBytes ==
    ASSUME NEW a \in Nat, NEW b \in Nat, NEW c \in Nat, NEW d \in Nat,
           NEW e \in Nat, NEW f \in Nat, NEW g \in Nat, NEW h \in Nat
    PROVE  /\ <<a, b, c, d, e, f, g, h>> \in Seq(Nat)
           /\ Len(<<a, b, c, d, e, f, g, h>>) = 8
           /\ <<a, b, c, d, e, f, g, h>>[1] = a
           /\ <<a, b, c, d, e, f, g, h>>[3] = c
           /\ <<a, b, c, d, e, f, g, h>>[8] = h
<1>1. <<a, b, c, d, e, f, g, h>> \in Seq(Nat)
  BY SMT
<1>2. /\ Len(<<a, b, c, d, e, f, g, h>>) = 8
      /\ <<a, b, c, d, e, f, g, h>>[1] = a
      /\ <<a, b, c, d, e, f, g, h>>[3] = c
      /\ <<a, b, c, d, e, f, g, h>>[8] = h
  BY SMT
<1> QED
  BY <1>1, <1>2

LEMMA TwentyBytes ==
    ASSUME NEW a \in Nat, NEW b \in Nat, NEW c \in Nat, NEW d \in Nat
    PROVE  LET bytes == <<a, b, c, d>> \o [i \in 1 .. 16 |-> 0]
           IN  /\ bytes \in Seq(Nat) /\ Len(bytes) = 20
               /\ bytes[1] = a /\ bytes[2] = b /\ bytes[4] = d
<1> DEFINE s == <<a, b, c, d>>
           t == [i \in 1 .. 16 |-> 0]
           D == Seq(Nat)
<1>1. s \in D
  BY SMT
<1>2. Len(s) = 4 /\ s[1] = a /\ s[2] = b /\ s[4] = d
  BY SMT
<1>3. t \in D /\ Len(t) = 16
  BY SMT
<1>4. \A x, y \in D : /\ x \o y \in D /\ Len(x \o y) = Len(x) + Len(y)
                      /\ \A k \in 1 .. Len(x) : (x \o y)[k] = x[k]
  OBVIOUS
<1> HIDE DEF s, t
<1>5. s \o t \in D /\ Len(s \o t) = Len(s) + Len(t)
      /\ \A k \in 1 .. Len(s) : (s \o t)[k] = s[k]
  <2> HIDE DEF D
  <2> QED BY <1>1, <1>3, <1>4
<1>6. 1 \in 1 .. 4 /\ 2 \in 1 .. 4 /\ 4 \in 1 .. 4
  OBVIOUS
<1> QED
  BY <1>2, <1>3, <1>5, <1>6 DEF s, t

\* The bytes of an entry.
BytesOf(e) ==
    LET bytes == EntryBytes(e)
    IN  /\ bytes \in Seq(Nat)
        /\ e.kind = "processor" =>
              Len(bytes) = 20 /\ bytes[1] = 0 /\ bytes[2] = e.id /\ bytes[4] = e.flags
        /\ e.kind = "local interrupt" =>
              Len(bytes) = 8 /\ bytes[1] = 4 /\ bytes[3] = e.flags /\ bytes[8] = e.id
        /\ e.kind \notin {"processor", "local interrupt"} =>
              Len(bytes) = 8 /\ bytes[1] \in {1, 2, 3}

LEMMA EntryIs == ASSUME NEW e \in TableEntry PROVE BytesOf(e)
<1> DEFINE i == e.id
           f == e.flags
           b == EntryBytes(e)
<1>1. /\ i \in 0 .. 255 /\ f \in 0 .. 255
      /\ e.kind \in {"processor", "bus", "io apic", "io interrupt", "local interrupt"}
  BY DEF TableEntry
<1>2. i \in Nat /\ f \in Nat
  <2>1. \A n \in 0 .. 255 : n \in Nat
    OBVIOUS
  <2> HIDE DEF i, f
  <2> QED BY <1>1, <2>1
<1>3. CASE e.kind = "processor"
  <2>1. b = <<0, i, 0, f>> \o [n \in 1 .. 16 |-> 0]
    BY <1>3 DEF EntryBytes
  <2> HIDE DEF b, i, f
  <2>2. b \in Seq(Nat) /\ Len(b) = 20 /\ b[1] = 0 /\ b[2] = i /\ b[4] = f
    BY <1>2, <2>1, TwentyBytes
  <2> QED BY <1>3, <2>2 DEF BytesOf, b, i, f
<1>4. CASE e.kind \in {"bus", "io apic", "io interrupt"}
  <2>1. \/ b = <<1, i, 0, 0, 0, 0, 0, 0>>
        \/ b = <<2, i, 0, f, 0, 0, 0, 0>>
        \/ b = <<3, 0, f, 0, 0, 0, 0, 0>>
    <3>1. CASE e.kind = "bus"
      BY <3>1 DEF EntryBytes
    <3>2. CASE e.kind = "io apic"
      BY <3>2 DEF EntryBytes
    <3>3. CASE e.kind = "io interrupt"
      BY <3>3 DEF EntryBytes
    <3> QED BY <1>4, <3>1, <3>2, <3>3
  <2> HIDE DEF b, i, f
  <2>2. ASSUME b = <<1, i, 0, 0, 0, 0, 0, 0>>
        PROVE  b \in Seq(Nat) /\ Len(b) = 8 /\ b[1] = 1
    BY <1>2, <2>2, EightBytes
  <2>3. ASSUME b = <<2, i, 0, f, 0, 0, 0, 0>>
        PROVE  b \in Seq(Nat) /\ Len(b) = 8 /\ b[1] = 2
    BY <1>2, <2>3, EightBytes
  <2>4. ASSUME b = <<3, 0, f, 0, 0, 0, 0, 0>>
        PROVE  b \in Seq(Nat) /\ Len(b) = 8 /\ b[1] = 3
    BY <1>2, <2>4, EightBytes
  <2>5. b \in Seq(Nat) /\ Len(b) = 8 /\ b[1] \in {1, 2, 3}
    BY <2>1, <2>2, <2>3, <2>4
  <2> QED BY <1>4, <2>5 DEF BytesOf, b
<1>5. CASE e.kind = "local interrupt"
  <2>1. b = <<4, 3, f, 0, 0, 0, 255, i>>
    BY <1>5 DEF EntryBytes
  <2> HIDE DEF b, i, f
  <2>2. b \in Seq(Nat) /\ Len(b) = 8 /\ b[1] = 4 /\ b[3] = f /\ b[8] = i
    BY <1>2, <2>1, EightBytes
  <2> QED BY <1>5, <2>2 DEF BytesOf, b, i, f
<1> QED
  BY <1>1, <1>3, <1>4, <1>5

\* The bytes of a table: where each entry begins.
LEMMA TableIs ==
    ASSUME NEW entries \in Seq(TableEntry)
    PROVE  /\ TableBytes(entries) \in Seq(Nat)
           /\ \E off :
                 /\ \A n \in 0 .. Len(entries) : off[n] \in Nat
                 /\ off[0] = 0
                 /\ \A n \in 1 .. Len(entries) :
                       off[n] = off[n - 1] + Len(EntryBytes(entries[n]))
                 /\ \A n \in 1 .. Len(entries) : \A k \in 1 .. Len(EntryBytes(entries[n])) :
                       ByteAt(TableBytes(entries), off[n - 1] + k) = EntryBytes(entries[n])[k]
<1> DEFINE bs == [i \in DOMAIN entries |-> EntryBytes(entries[i])]
           flat == FlattenSeq(bs)
<1>1. /\ bs \in Seq(Seq(Nat)) /\ Len(bs) = Len(entries) /\ DOMAIN entries = 1 .. Len(entries)
      /\ \A n \in 1 .. Len(entries) : bs[n] = EntryBytes(entries[n])
  <2>1. DOMAIN entries = 1 .. Len(entries) /\ Len(entries) \in Nat
    OBVIOUS
  <2>2. \A n \in DOMAIN entries : entries[n] \in TableEntry
    OBVIOUS
  <2>3. \A n \in DOMAIN entries : EntryBytes(entries[n]) \in Seq(Nat)
    BY <2>2, EntryIs DEF BytesOf
  <2>4. bs \in [1 .. Len(entries) -> Seq(Nat)]
    BY <2>1, <2>3
  <2>5. bs \in Seq(Seq(Nat)) /\ Len(bs) = Len(entries)
    <3> HIDE DEF bs
    <3> QED BY <2>1, <2>4
  <2> QED BY <2>1, <2>5
<1>2. flat = TableBytes(entries)
  BY DEF TableBytes
<1> HIDE DEF bs, flat
<1>3. /\ flat \in Seq(Nat)
      /\ \E off :
            /\ \A n \in 0 .. Len(bs) : off[n] \in Nat
            /\ off[0] = 0
            /\ \A n \in 1 .. Len(bs) : off[n] = off[n - 1] + Len(bs[n])
            /\ \A n \in 1 .. Len(bs) : \A k \in 1 .. Len(bs[n]) :
                  off[n - 1] + k \in 1 .. Len(flat) /\ flat[off[n - 1] + k] = bs[n][k]
  <2>1. bs \in Seq(Seq(Nat))
    BY <1>1
  <2> QED BY <2>1, FlattenIs DEF flat
<1>4. PICK off :
            /\ \A n \in 0 .. Len(bs) : off[n] \in Nat
            /\ off[0] = 0
            /\ \A n \in 1 .. Len(bs) : off[n] = off[n - 1] + Len(bs[n])
            /\ \A n \in 1 .. Len(bs) : \A k \in 1 .. Len(bs[n]) :
                  off[n - 1] + k \in 1 .. Len(flat) /\ flat[off[n - 1] + k] = bs[n][k]
  BY <1>3
<1>5. ASSUME NEW n \in 1 .. Len(entries), NEW k \in 1 .. Len(EntryBytes(entries[n]))
      PROVE  ByteAt(flat, off[n - 1] + k) = EntryBytes(entries[n])[k]
  <2> DEFINE p == off[n - 1] + k
  <2>1. p \in 1 .. Len(flat) /\ flat[p] = bs[n][k]
    BY <1>1, <1>4
  <2> HIDE DEF p
  <2>2. p \in DOMAIN flat
    BY <1>3, <2>1
  <2> QED BY <1>1, <2>1, <2>2 DEF ByteAt, p
<1>6. \A n \in 1 .. Len(entries) : off[n] = off[n - 1] + Len(EntryBytes(entries[n]))
  BY <1>1, <1>4
<1>7. \A n \in 1 .. Len(entries) : \A k \in 1 .. Len(EntryBytes(entries[n])) :
         ByteAt(flat, off[n - 1] + k) = EntryBytes(entries[n])[k]
  BY <1>5
<1>8. (\A n \in 0 .. Len(entries) : off[n] \in Nat) /\ off[0] = 0
  BY <1>1, <1>4
<1> QED
  BY <1>2, <1>3, <1>6, <1>7, <1>8

\* A processor of cpu_data, and what the walk over a table keeps.
FoundCpu == [lapic_id : Nat, bsp : BOOLEAN]
Walking == [at : Nat, cores : Nat, cpus : Seq(FoundCpu), io_apic_address : Nat]
WalkStart == [at |-> 1, cores |-> 0, cpus |-> <<>>, io_apic_address |-> 0]

LEMMA BytesAre ==
    ASSUME NEW bytes \in Seq(Nat), NEW i PROVE ByteAt(bytes, i) \in Nat
BY DEF ByteAt

\* What a processor that may be used adds to cpu_data.
AddedFor(p, id, flags, h) ==
    /\ p \in Seq(FoundCpu)
    /\ Len(p) = IF h THEN 2 ELSE 1
    /\ p[1].lapic_id = id
    /\ p[1].bsp = IsBsp(flags)
    /\ h => p[2].lapic_id = (id + 1) % 256

LEMMA ProcessorsAre ==
    ASSUME NEW id \in Nat, NEW flags \in Nat, NEW h \in BOOLEAN
    PROVE  AddedFor(Processors(id, flags, h), id, flags, h)
<1> DEFINE a == [lapic_id |-> id, bsp |-> IsBsp(flags)]
           b == [lapic_id |-> (id + 1) % 256, bsp |-> FALSE]
<1>1. /\ a \in FoundCpu /\ a.lapic_id = id /\ a.bsp = IsBsp(flags)
      /\ b \in FoundCpu /\ b.lapic_id = (id + 1) % 256
  <2>1. IsBsp(flags) \in BOOLEAN
    BY DEF IsBsp
  <2>2. (id + 1) % 256 \in Nat
    OBVIOUS
  <2> QED BY <2>1, <2>2 DEF FoundCpu
<1>2. Processors(id, flags, h) = <<a>> \o IF h THEN <<b>> ELSE <<>>
  BY DEF Processors
<1> HIDE DEF a, b
<1>3. CASE h
  <2> DEFINE s == <<a>> \o <<b>>
  <2>1. s \in Seq(FoundCpu) /\ Len(s) = 2 /\ s[1] = a /\ s[2] = b
    BY <1>1, SMT
  <2> HIDE DEF s
  <2>2. Processors(id, flags, h) = s
    BY <1>2, <1>3 DEF s
  <2> QED BY <1>1, <1>3, <2>1, <2>2 DEF AddedFor
<1>4. CASE ~h
  <2>1. <<a>> \o <<>> = <<a>>
    BY <1>1
  <2>2. Processors(id, flags, h) = <<a>>
    BY <1>2, <1>4, <2>1
  <2> QED BY <1>1, <1>4, <2>2 DEF AddedFor
<1> QED
  BY <1>3, <1>4

LEMMA StepTyped ==
    ASSUME NEW bytes \in Seq(Nat), NEW h \in BOOLEAN, NEW w \in Walking
    PROVE  Step(bytes, h, w) \in Walking
<1> DEFINE type == ByteAt(bytes, w.at)
           id == ByteAt(bytes, w.at + 1)
           flags == ByteAt(bytes, w.at + 3)
           found == type = 0 /\ Usable(flags)
           at1 == w.at + EntrySize(type)
           cores1 == IF found THEN w.cores + 1 ELSE w.cores
           cpus1 == IF found THEN w.cpus \o Processors(id, flags, h) ELSE w.cpus
           io1 == IF type = 2 /\ Usable(flags) THEN id ELSE w.io_apic_address
<1>1. type \in Nat /\ id \in Nat /\ flags \in Nat
  BY BytesAre
<1>2. w.at \in Nat /\ w.cores \in Nat /\ w.cpus \in Seq(FoundCpu) /\ w.io_apic_address \in Nat
  BY DEF Walking
<1>3. Step(bytes, h, w) = [at |-> at1, cores |-> cores1, cpus |-> cpus1, io_apic_address |-> io1]
  BY DEF Step
<1> HIDE DEF type, id, flags, found
<1>4. EntrySize(type) \in Nat
  BY <1>1 DEF EntrySize
<1>5. Processors(id, flags, h) \in Seq(FoundCpu)
  BY <1>1, ProcessorsAre DEF AddedFor
<1>6. at1 \in Nat /\ cores1 \in Nat /\ io1 \in Nat
  BY <1>1, <1>2, <1>4
<1>7. cpus1 \in Seq(FoundCpu)
  BY <1>2, <1>5
<1> HIDE DEF at1, cores1, cpus1, io1
<1> QED
  BY <1>3, <1>6, <1>7 DEF Walking

\* The walk, entry by entry.
LEMMA WalkedFrom ==
    ASSUME NEW entries \in Seq(TableEntry), NEW h \in BOOLEAN
    PROVE  \E g :
              /\ g[0] = WalkStart
              /\ \A n \in 0 .. Len(entries) : g[n] \in Walking
              /\ \A n \in 1 .. Len(entries) : g[n] = Step(TableBytes(entries), h, g[n - 1])
              /\ Walked(entries, h) = g[Len(entries)]
<1> DEFINE N == Len(entries)
           bytes == TableBytes(entries)
           next(x) == CHOOSE q \in {Step(bytes, h, w) : w \in {x}} : TRUE
           step == [w \in Walking |-> [n \in 1 .. N |-> Step(bytes, h, w)]]
           walks(f) == f = [n \in 0 .. N |-> IF n = 0 THEN WalkStart ELSE next(f[n - 1])]
<1>1. N \in Nat /\ bytes \in Seq(Nat)
  BY TableIs
<1> HIDE DEF N, bytes
<1>2. WalkStart \in Walking
  <2>1. <<>> \in Seq(FoundCpu)
    OBVIOUS
  <2> QED BY <2>1 DEF WalkStart, Walking
<1>3. \A w \in Walking : Step(bytes, h, w) \in Walking
  BY <1>1, StepTyped
<1>4. step \in [Walking -> [1 .. N -> Walking]]
  BY <1>3
<1>5. \A w : next(w) = Step(bytes, h, w)
  OBVIOUS
<1>6. PICK f : Loop(f, N, Walking, WalkStart, step)
  <2> HIDE DEF step
  <2> QED BY <1>1, <1>2, <1>4, Recursion
<1>7. walks(f)
  <2> HIDE DEF next
  <2>1. f \in [0 .. N -> Walking] /\ f[0] = WalkStart
    BY <1>6 DEF Loop
  <2>2. \A n \in 0 .. N : f[n] = IF n = 0 THEN WalkStart ELSE next(f[n - 1])
    <3> SUFFICES ASSUME NEW n \in 0 .. N, n # 0 PROVE f[n] = next(f[n - 1])
      BY <2>1
    <3>1. n \in 1 .. N /\ n - 1 \in 0 .. N
      BY <1>1
    <3>2. f[n - 1] \in Walking /\ f[n] = step[f[n - 1]][n]
      <4> HIDE DEF step
      <4> QED BY <1>6, <3>1 DEF Loop
    <3>3. f[n] = Step(bytes, h, f[n - 1])
      BY <3>1, <3>2
    <3> QED BY <1>5, <3>3
  <2> QED BY <2>1, <2>2
<1>8. PICK g : walks(g) /\ Walked(entries, h) = g[N]
  BY <1>7 DEF Walked, WalkStart, bytes, N
<1>9. g[0] = WalkStart /\ \A n \in 1 .. N : g[n] = Step(bytes, h, g[n - 1])
  <2> HIDE DEF next
  <2>1. 0 \in 0 .. N /\ \A n \in 1 .. N : n \in 0 .. N /\ n # 0
    BY <1>1
  <2>2. g[0] = WalkStart /\ \A n \in 1 .. N : g[n] = next(g[n - 1])
    BY <1>8, <2>1
  <2> QED BY <1>5, <2>2
<1>10. \A n \in 0 .. N : g[n] \in Walking
  <2> DEFINE S == {n \in 0 .. N : g[n] \in Walking}
  <2>1. 0 \in S
    BY <1>1, <1>2, <1>9
  <2>2. \A n \in 0 .. N : n \in S /\ n < N => n + 1 \in S
    <3> SUFFICES ASSUME NEW n \in 0 .. N, g[n] \in Walking, n < N PROVE g[n + 1] \in Walking
      BY <1>1
    <3>1. n + 1 \in 1 .. N /\ (n + 1) - 1 = n
      BY <1>1
    <3> QED BY <1>3, <1>9, <3>1
  <2> HIDE DEF S
  <2>3. \A n \in 0 .. N : n \in S
    BY <1>1, <2>1, <2>2, UpTo
  <2> QED BY <2>3 DEF S
<1> QED
  BY <1>8, <1>9, <1>10 DEF bytes, N

\* The processors a table lists, entry by entry.
LEMMA ListedFrom ==
    ASSUME NEW entries \in Seq(TableEntry)
    PROVE  \E l :
              /\ l[0] = <<>>
              /\ \A n \in 0 .. Len(entries) : l[n] \in Seq(TableEntry)
              /\ \A n \in 1 .. Len(entries) :
                    l[n] = l[n - 1] \o IF MayRun(entries[n]) THEN <<entries[n]>> ELSE <<>>
              /\ Listed(entries) = l[Len(entries)]
<1> DEFINE N == Len(entries)
           D == Seq(TableEntry)
           one(n) == IF MayRun(entries[n]) THEN <<entries[n]>> ELSE <<>>
           step == [s \in D |-> [n \in 1 .. N |-> s \o one(n)]]
           lists(f) == f = [n \in 0 .. N |-> IF n = 0 THEN <<>> ELSE f[n - 1] \o one(n)]
<1>1. N \in Nat /\ <<>> \in D /\ \A n \in 1 .. N : one(n) \in D
  <2>1. \A n \in 1 .. N : entries[n] \in TableEntry
    OBVIOUS
  <2>2. \A e \in TableEntry : <<e>> \in D
    BY OneInSeq
  <2> HIDE DEF D
  <2>3. <<>> \in D
    BY DEF D
  <2> QED BY <2>1, <2>2, <2>3
<1>2. \A s, t \in D : s \o t \in D
  OBVIOUS
<1> HIDE DEF N, D, one
<1>3. step \in [D -> [1 .. N -> D]]
  BY <1>1, <1>2
<1>4. PICK f : Loop(f, N, D, <<>>, step)
  <2> HIDE DEF step
  <2> QED BY <1>1, <1>3, Recursion
<1>5. lists(f)
  <2>1. f \in [0 .. N -> D] /\ f[0] = <<>>
    BY <1>4 DEF Loop
  <2>2. \A n \in 0 .. N : f[n] = IF n = 0 THEN <<>> ELSE f[n - 1] \o one(n)
    <3> SUFFICES ASSUME NEW n \in 0 .. N, n # 0 PROVE f[n] = f[n - 1] \o one(n)
      BY <2>1
    <3>1. n \in 1 .. N /\ n - 1 \in 0 .. N
      BY <1>1
    <3>2. f[n - 1] \in D /\ f[n] = step[f[n - 1]][n]
      <4> HIDE DEF step
      <4> QED BY <1>4, <3>1 DEF Loop
    <3> QED BY <3>1, <3>2
  <2> QED BY <2>1, <2>2
<1>6. PICK l : lists(l) /\ Listed(entries) = l[N]
  BY <1>5 DEF Listed, N, one
<1>7. l[0] = <<>> /\ \A n \in 1 .. N : l[n] = l[n - 1] \o one(n)
  <2>1. 0 \in 0 .. N /\ \A n \in 1 .. N : n \in 0 .. N /\ n # 0
    BY <1>1
  <2> QED BY <1>6, <2>1
<1>8. \A n \in 0 .. N : l[n] \in D
  <2> DEFINE S == {n \in 0 .. N : l[n] \in D}
  <2>1. 0 \in S
    BY <1>1, <1>7
  <2>2. \A n \in 0 .. N : n \in S /\ n < N => n + 1 \in S
    <3> SUFFICES ASSUME NEW n \in 0 .. N, l[n] \in D, n < N PROVE l[n + 1] \in D
      BY <1>1
    <3> DEFINE p == n + 1
               t == one(p)
    <3>1. p \in 1 .. N /\ p - 1 = n
      BY <1>1
    <3> HIDE DEF p
    <3>2. t \in D /\ l[p] = l[n] \o t
      BY <1>1, <1>7, <3>1
    <3> HIDE DEF t
    <3>3. l[p] \in D
      BY <1>2, <3>2
    <3> QED BY <3>3 DEF p
  <2> HIDE DEF S
  <2>3. \A n \in 0 .. N : n \in S
    BY <1>1, <2>1, <2>2, UpTo
  <2> QED BY <2>3 DEF S
<1> QED
  BY <1>6, <1>7, <1>8 DEF N, D, one

\* What a step of the walk makes of an entry: it passes one that is no
\* processor that may be used, and takes one that is.
Passes(v, w, size) == v.at = w.at + size /\ v.cores = w.cores /\ v.cpus = w.cpus

LEMMA StepPasses ==
    ASSUME NEW bytes \in Seq(Nat), NEW h \in BOOLEAN, NEW w \in Walking,
           \/ ByteAt(bytes, w.at) # 0
           \/ ByteAt(bytes, w.at + 3) % 2 = 0
    PROVE  Passes(Step(bytes, h, w), w, EntrySize(ByteAt(bytes, w.at)))
<1> DEFINE type == ByteAt(bytes, w.at)
           flags == ByteAt(bytes, w.at + 3)
<1>1. ~(type = 0 /\ Usable(flags))
  BY DEF Usable
<1>2. /\ Step(bytes, h, w).at = w.at + EntrySize(type)
      /\ Step(bytes, h, w).cores = IF type = 0 /\ Usable(flags) THEN w.cores + 1 ELSE w.cores
      /\ ~(type = 0 /\ Usable(flags)) => Step(bytes, h, w).cpus = w.cpus
  BY DEF Step
<1> HIDE DEF type, flags
<1> QED
  BY <1>1, <1>2 DEF Passes, type

LEMMA StepTakes ==
    ASSUME NEW bytes \in Seq(Nat), NEW h \in BOOLEAN, NEW w \in Walking,
           ByteAt(bytes, w.at) = 0, ByteAt(bytes, w.at + 3) % 2 = 1
    PROVE  /\ Step(bytes, h, w).at = w.at + 20
           /\ Step(bytes, h, w).cores = w.cores + 1
           /\ Step(bytes, h, w).cpus =
                 w.cpus \o Processors(ByteAt(bytes, w.at + 1), ByteAt(bytes, w.at + 3), h)
<1> DEFINE type == ByteAt(bytes, w.at)
           id == ByteAt(bytes, w.at + 1)
           flags == ByteAt(bytes, w.at + 3)
<1>1. type = 0 /\ Usable(flags)
  BY DEF Usable
<1>2. EntrySize(type) = 20
  BY <1>1 DEF EntrySize
<1>3. /\ Step(bytes, h, w).at = w.at + EntrySize(type)
      /\ Step(bytes, h, w).cores = IF type = 0 /\ Usable(flags) THEN w.cores + 1 ELSE w.cores
      /\ type = 0 /\ Usable(flags) =>
            Step(bytes, h, w).cpus = w.cpus \o Processors(id, flags, h)
  BY DEF Step
<1> HIDE DEF type, flags, id
<1> QED
  BY <1>1, <1>2, <1>3 DEF id, flags

\* The processors of cpu_data are those listed, with hyperthreading each
\* followed by its second thread.
CpusOf(found, listed, h) ==
    /\ Len(found) = IF h THEN 2 * Len(listed) ELSE Len(listed)
    /\ \A i \in 1 .. Len(listed) :
          LET first == IF h THEN 2 * i - 1 ELSE i
          IN  /\ found[first].lapic_id = listed[i].id
              /\ found[first].bsp = IsBsp(listed[i].flags)
              /\ h => found[2 * i].lapic_id = listed[i].id + 1

LEMMA CpusOfMore ==
    ASSUME NEW found \in Seq(FoundCpu), NEW listed \in Seq(TableEntry), NEW h \in BOOLEAN,
           NEW e \in TableEntry, h => e.id < 255, CpusOf(found, listed, h)
    PROVE  CpusOf(found \o Processors(e.id, e.flags, h), listed \o <<e>>, h)
<1> DEFINE p == Processors(e.id, e.flags, h)
           F == Seq(FoundCpu)
           T == Seq(TableEntry)
           one == <<e>>
           id == e.id
           L == Len(listed)
           width == IF h THEN 2 ELSE 1
<1>1. id \in Nat /\ e.flags \in Nat /\ (h => id < 255)
  <2>1. e.id \in 0 .. 255 /\ e.flags \in 0 .. 255
    BY DEF TableEntry
  <2>2. \A n \in 0 .. 255 : n \in Nat
    OBVIOUS
  <2> QED BY <2>1, <2>2
<1>2. /\ p \in F /\ Len(p) = width
      /\ p[1].lapic_id = id /\ p[1].bsp = IsBsp(e.flags)
      /\ h => p[2].lapic_id = id + 1
  <2>1. id < 255 => (id + 1) % 256 = id + 1
    BY <1>1
  <2> DEFINE flags == e.flags
             q == Processors(id, flags, h)
  <2> HIDE DEF F, p, id, flags
  <2>a. flags \in Nat /\ id \in Nat
    BY <1>1 DEF flags
  <2>2. /\ q \in Seq(FoundCpu)
        /\ Len(q) = IF h THEN 2 ELSE 1
        /\ q[1].lapic_id = id
        /\ q[1].bsp = IsBsp(flags)
        /\ h => q[2].lapic_id = (id + 1) % 256
    <3>1. AddedFor(q, id, flags, h)
      BY <2>a, ProcessorsAre
    <3> HIDE DEF q
    <3> QED BY <3>1 DEF AddedFor
  <2>3. q = p
    BY DEF p, id, flags
  <2> HIDE DEF q
  <2> QED BY <1>1, <2>1, <2>2, <2>3 DEF F, flags
<1>3. one \in T /\ Len(one) = 1 /\ one[1] = e
  <2>1. one \in T
    BY OneInSeq
  <2>2. Len(one) = 1 /\ one[1] = e
    OBVIOUS
  <2> QED BY <2>1, <2>2
<1>4. \A s, t \in F : /\ Len(s \o t) = Len(s) + Len(t)
                      /\ \A k \in 1 .. Len(s) : (s \o t)[k] = s[k]
                      /\ \A k \in 1 .. Len(t) : (s \o t)[Len(s) + k] = t[k]
  OBVIOUS
<1>5. \A s, t \in T : /\ Len(s \o t) = Len(s) + Len(t)
                      /\ \A k \in 1 .. Len(s) : (s \o t)[k] = s[k]
                      /\ \A k \in 1 .. Len(t) : (s \o t)[Len(s) + k] = t[k]
  OBVIOUS
<1>6. found \in F /\ listed \in T /\ L \in Nat
  OBVIOUS
<1> DEFINE more == found \o p
           list == listed \o one
<1> HIDE DEF p, F, T, one, id
<1>7. /\ Len(more) = Len(found) + width
      /\ \A k \in 1 .. Len(found) : more[k] = found[k]
      /\ more[Len(found) + 1] = p[1]
      /\ h => more[Len(found) + 2] = p[2]
  <2>1. /\ Len(more) = Len(found) + Len(p)
        /\ \A k \in 1 .. Len(found) : more[k] = found[k]
        /\ \A k \in 1 .. Len(p) : more[Len(found) + k] = p[k]
    BY <1>2, <1>4, <1>6
  <2>2. 1 \in 1 .. Len(p) /\ (h => 2 \in 1 .. Len(p))
    BY <1>2
  <2> QED BY <1>2, <2>1, <2>2
<1>8. /\ Len(list) = L + 1
      /\ \A k \in 1 .. L : list[k] = listed[k]
      /\ list[L + 1] = e
  <2>1. /\ Len(list) = L + Len(one)
        /\ \A k \in 1 .. L : list[k] = listed[k]
        /\ \A k \in 1 .. Len(one) : list[L + k] = one[k]
    BY <1>3, <1>5, <1>6
  <2>2. 1 \in 1 .. Len(one)
    BY <1>3
  <2> QED BY <1>3, <2>1, <2>2
<1> DEFINE M == Len(found)
<1>9. M = IF h THEN 2 * L ELSE L
  BY DEF CpusOf
<1>10. \A i \in 1 .. L :
          /\ found[IF h THEN 2 * i - 1 ELSE i].lapic_id = listed[i].id
          /\ found[IF h THEN 2 * i - 1 ELSE i].bsp = IsBsp(listed[i].flags)
          /\ h => found[2 * i].lapic_id = listed[i].id + 1
  BY DEF CpusOf
<1> HIDE DEF more, list, L, M
<1>11. Len(more) = IF h THEN 2 * Len(list) ELSE Len(list)
  BY <1>6, <1>7, <1>8, <1>9 DEF M
<1>12. ASSUME NEW i \in 1 .. Len(list)
       PROVE  /\ more[IF h THEN 2 * i - 1 ELSE i].lapic_id = list[i].id
              /\ more[IF h THEN 2 * i - 1 ELSE i].bsp = IsBsp(list[i].flags)
              /\ h => more[2 * i].lapic_id = list[i].id + 1
  <2>1. CASE i \in 1 .. L
    <3>1. (IF h THEN 2 * i - 1 ELSE i) \in 1 .. M /\ (h => 2 * i \in 1 .. M)
      BY <1>6, <1>9, <2>1
    <3>2. /\ more[IF h THEN 2 * i - 1 ELSE i] = found[IF h THEN 2 * i - 1 ELSE i]
          /\ h => more[2 * i] = found[2 * i]
      BY <1>7, <3>1 DEF M
    <3>3. list[i] = listed[i]
      BY <1>8, <2>1
    <3> QED BY <1>10, <2>1, <3>2, <3>3
  <2>2. CASE i \notin 1 .. L
    <3>1. i = L + 1
      BY <1>6, <1>8, <2>2
    <3>2. (IF h THEN 2 * i - 1 ELSE i) = M + 1 /\ (h => 2 * i = M + 2)
      BY <1>6, <1>9, <3>1
    <3>3. more[IF h THEN 2 * i - 1 ELSE i] = p[1] /\ (h => more[2 * i] = p[2])
      BY <1>7, <3>2 DEF M
    <3>4. list[i] = e
      BY <1>8, <3>1
    <3> QED BY <1>2, <3>3, <3>4 DEF id
  <2> QED BY <2>1, <2>2
<1>13. CpusOf(more, list, h)
  BY <1>11, <1>12 DEF CpusOf
<1> QED
  BY <1>13 DEF more, list, p, one

IsLocal(e) == e.kind = "local interrupt"

\* The bytes of an entry are those from an offset on.
LiesAt(bytes, off, e) ==
    \A k \in 1 .. Len(EntryBytes(e)) : ByteAt(bytes, off + k) = EntryBytes(e)[k]

\* The identifier of a second thread fits in its byte.
SecondFits(e, h) == e.kind = "processor" /\ h => e.id < 255

\* After the first n entries, none of them a local interrupt entry, the walk
\* is at the next one and has the processors listed among them.
InStep(w, off, listed, h) ==
    /\ w.at = off + 1
    /\ w.cores = Len(listed)
    /\ CpusOf(w.cpus, listed, h)

LEMMA StaysInStep ==
    ASSUME NEW bytes \in Seq(Nat), NEW h \in BOOLEAN, NEW w \in Walking, NEW off \in Nat,
           NEW listed \in Seq(TableEntry), InStep(w, off, listed, h),
           NEW e \in TableEntry, ~IsLocal(e),
           SecondFits(e, h), LiesAt(bytes, off, e)
    PROVE  InStep(Step(bytes, h, w), off + Len(EntryBytes(e)),
                  listed \o IF MayRun(e) THEN <<e>> ELSE <<>>, h)
<1> DEFINE b == EntryBytes(e)
           v == Step(bytes, h, w)
           f == e.flags
<1>1. listed \o <<>> = listed
  OBVIOUS
<1>2. w.at = off + 1 /\ w.cores = Len(listed) /\ CpusOf(w.cpus, listed, h)
      /\ w.at \in Nat /\ w.cpus \in Seq(FoundCpu)
  BY DEF InStep, Walking
<1>3. f \in Nat
  <2>1. \A n \in 0 .. 255 : n \in Nat
    OBVIOUS
  <2>2. f \in 0 .. 255
    BY DEF TableEntry
  <2> HIDE DEF f
  <2> QED BY <2>1, <2>2
<1>4. CASE e.kind = "processor"
  <2>1. Len(b) = 20 /\ b[1] = 0 /\ b[2] = e.id /\ b[4] = f
    BY <1>4, EntryIs DEF BytesOf
  <2> HIDE DEF b
  <2>2. /\ \A k \in 1 .. 20 : ByteAt(bytes, off + k) = b[k]
        /\ w.at = off + 1 /\ w.at + 1 = off + 2 /\ w.at + 3 = off + 4
    BY <1>2, <2>1 DEF b, LiesAt
  <2>3. 1 \in 1 .. 20 /\ 2 \in 1 .. 20 /\ 4 \in 1 .. 20
    OBVIOUS
  <2>4. /\ ByteAt(bytes, w.at) = 0
        /\ ByteAt(bytes, w.at + 1) = e.id
        /\ ByteAt(bytes, w.at + 3) = f
    BY <2>1, <2>2, <2>3
  <2>5. CASE f % 2 = 1
    <3>1. MayRun(e)
      BY <1>4, <2>5 DEF MayRun
    <3>2. /\ v.at = w.at + 20 /\ v.cores = w.cores + 1
          /\ v.cpus = w.cpus \o Processors(e.id, f, h)
      <4> HIDE DEF f
      <4>1. ByteAt(bytes, w.at + 3) % 2 = 1
        BY <2>4, <2>5
      <4>2. /\ v.at = w.at + 20 /\ v.cores = w.cores + 1
            /\ v.cpus = w.cpus \o Processors(ByteAt(bytes, w.at + 1),
                                             ByteAt(bytes, w.at + 3), h)
        BY <2>4, <4>1, StepTakes, Zenon
      <4> QED BY <2>4, <4>2
    <3>3. CpusOf(w.cpus \o Processors(e.id, f, h), listed \o <<e>>, h)
      <4>1. h => e.id < 255
        BY <1>4 DEF SecondFits
      <4> QED BY <1>2, <4>1, CpusOfMore
    <3>4. Len(listed \o <<e>>) = Len(listed) + 1
      OBVIOUS
    <3>5. v.at = (off + 20) + 1
      BY <1>2, <3>2
    <3> HIDE DEF v
    <3>6. InStep(v, off + 20, listed \o <<e>>, h)
      BY <1>2, <3>2, <3>3, <3>4, <3>5 DEF InStep
    <3> QED BY <2>1, <3>1, <3>6 DEF b, v
  <2>6. CASE f % 2 # 1
    <3>1. ~MayRun(e)
      BY <2>6 DEF MayRun
    <3>2. f % 2 = 0
      <4> HIDE DEF f
      <4> QED BY <1>3, <2>6
    <3>3. Passes(v, w, EntrySize(0))
      BY <2>4, <3>2, StepPasses
    <3>4. EntrySize(0) = 20
      BY DEF EntrySize
    <3>5. v.at = (off + 20) + 1
      BY <1>2, <3>3, <3>4 DEF Passes
    <3> HIDE DEF v
    <3>6. InStep(v, off + 20, listed, h)
      BY <1>2, <3>3, <3>5 DEF InStep, Passes
    <3> QED BY <1>1, <2>1, <3>1, <3>6 DEF b, v
  <2> QED BY <2>5, <2>6
<1>5. CASE e.kind # "processor"
  <2>1. Len(b) = 8 /\ b[1] \in {1, 2, 3}
    BY <1>5, EntryIs DEF BytesOf, IsLocal
  <2> HIDE DEF b
  <2>2. ByteAt(bytes, w.at) = b[1]
    <3>1. 1 \in 1 .. Len(b)
      BY <2>1
    <3> QED BY <1>2, <3>1 DEF b, LiesAt
  <2>3. ~MayRun(e)
    BY <1>5 DEF MayRun
  <2>4. Passes(v, w, EntrySize(b[1]))
    BY <2>1, <2>2, StepPasses
  <2>5. EntrySize(b[1]) = 8
    BY <2>1 DEF EntrySize
  <2>6. v.at = (off + 8) + 1
    BY <1>2, <2>4, <2>5 DEF Passes
  <2> HIDE DEF v
  <2>7. InStep(v, off + 8, listed, h)
    BY <1>2, <2>4, <2>6 DEF InStep, Passes
  <2> QED BY <1>1, <2>1, <2>3, <2>7 DEF b, v
<1> QED
  BY <1>4, <1>5

LEMMA LocalLies ==
    ASSUME NEW bytes, NEW off \in Nat, NEW e \in TableEntry, IsLocal(e), LiesAt(bytes, off, e)
    PROVE  /\ Len(EntryBytes(e)) = 8 /\ ~MayRun(e)
           /\ ByteAt(bytes, off + 1) = 4
           /\ ByteAt(bytes, off + 3) = e.flags
<1> DEFINE b == EntryBytes(e)
<1>1. Len(b) = 8 /\ b[1] = 4 /\ b[3] = e.flags
  BY EntryIs DEF BytesOf, IsLocal
<1>2. ~MayRun(e)
  BY DEF MayRun, IsLocal
<1> HIDE DEF b
<1>3. \A k \in 1 .. 8 : ByteAt(bytes, off + k) = b[k]
  BY <1>1 DEF LiesAt, b
<1>4. 1 \in 1 .. 8 /\ 3 \in 1 .. 8
  OBVIOUS
<1> QED
  BY <1>1, <1>2, <1>3, <1>4 DEF b

\* The local interrupt entries of a table that is read in step: its last two,
\* or the last one, or none.
LEMMA LocalLast ==
    ASSUME NEW entries \in Seq(TableEntry), NEW h \in BOOLEAN, TableInStep(entries, h)
    PROVE  \E m \in 0 .. Len(entries) :
              /\ m >= Len(entries) - 2
              /\ \A n \in 1 .. m : ~IsLocal(entries[n])
              /\ \A n \in m + 1 .. Len(entries) :
                    IsLocal(entries[n]) /\ entries[n].flags % 2 = 0
<1> DEFINE N == Len(entries)
           local(n) == IsLocal(entries[n])
           even(n) == entries[n].flags % 2 = 0
<1>1. N \in Nat /\ DOMAIN entries = 1 .. N
  OBVIOUS
<1>2. \A n \in 1 .. N : local(n) => n >= N - 1 /\ local(N) /\ even(n)
  <2>1. ASSUME NEW n \in DOMAIN entries, IsLocal(entries[n])
        PROVE  /\ n >= Len(entries) - 1 /\ IsLocal(entries[Len(entries)])
               /\ entries[n].flags % 2 = 0
    BY <2>1, Zenon DEF TableInStep, IsLocal
  <2> QED BY <1>1, <2>1
<1> HIDE DEF N, local, even
<1> DEFINE Split(m) == /\ m \in 0 .. N /\ m >= N - 2
                       /\ \A n \in 1 .. m : ~local(n)
                       /\ \A n \in m + 1 .. N : local(n) /\ even(n)
<1>3. CASE N = 0
  <2>1. Split(0)
    BY <1>3
  <2> QED BY <2>1 DEF N, local, even
<1>4. CASE N # 0 /\ ~local(N)
  <2>1. \A n \in 1 .. N : ~local(n)
    BY <1>2, <1>4
  <2>2. Split(N)
    BY <1>1, <2>1
  <2> QED BY <2>2 DEF N, local, even
<1>5. CASE N # 0 /\ local(N)
  <2>1. \A n \in 1 .. N : n < N - 1 => ~local(n)
    BY <1>1, <1>2
  <2>2. N \in 1 .. N /\ even(N)
    BY <1>1, <1>2, <1>5
  <2>3. CASE N = 1 \/ ~local(N - 1)
    <3>1. \A n \in 1 .. N - 1 : ~local(n)
      <4> SUFFICES ASSUME NEW n \in 1 .. N - 1 PROVE ~local(n)
        OBVIOUS
      <4>1. n < N - 1 \/ n = N - 1
        BY <1>1
      <4>2. n \in 1 .. N /\ N # 1
        BY <1>1
      <4> QED BY <2>1, <2>3, <4>1, <4>2
    <3>2. \A n \in (N - 1) + 1 .. N : n = N
      BY <1>1
    <3>3. N - 1 \in 0 .. N /\ N - 1 >= N - 2
      BY <1>1, <1>5
    <3>4. Split(N - 1)
      BY <1>5, <2>2, <3>1, <3>2, <3>3
    <3> HIDE DEF Split
    <3>5. \E m \in 0 .. N : Split(m)
      BY <3>3, <3>4
    <3> QED BY <3>5 DEF N, local, even, Split
  <2>4. CASE N # 1 /\ local(N - 1)
    <3>1. N - 1 \in 1 .. N /\ N - 2 \in 0 .. N /\ N - 2 >= N - 2
      BY <1>1, <1>5, <2>4
    <3>2. even(N - 1)
      BY <1>2, <2>4, <3>1
    <3>3. \A n \in 1 .. N - 2 : ~local(n)
      BY <1>1, <2>1
    <3>4. \A n \in (N - 2) + 1 .. N : n = N \/ n = N - 1
      BY <1>1
    <3>5. Split(N - 2)
      BY <1>5, <2>2, <2>4, <3>1, <3>2, <3>3, <3>4
    <3> HIDE DEF Split
    <3>6. \E m \in 0 .. N : Split(m)
      BY <3>1, <3>5
    <3> QED BY <3>6 DEF N, local, even, Split
  <2> QED BY <2>3, <2>4
<1> QED
  BY <1>3, <1>4, <1>5

\* The walk over a table that is read in step finds what the table lists.
LEMMA WalkIs ==
    ASSUME NEW entries \in Seq(TableEntry), NEW h \in BOOLEAN, TableInStep(entries, h)
    PROVE  LET w == Walked(entries, h)
           IN  /\ Listed(entries) \in Seq(TableEntry)
               /\ w.cores = Len(Listed(entries)) /\ w.cpus \in Seq(FoundCpu)
               /\ CpusOf(w.cpus, Listed(entries), h)
<1> DEFINE N == Len(entries)
           bytes == TableBytes(entries)
           D == Seq(TableEntry)
           size(n) == Len(EntryBytes(entries[n]))
<1>1. N \in Nat /\ bytes \in Seq(Nat) /\ \A n \in 1 .. N : entries[n] \in TableEntry
  <2>1. bytes \in Seq(Nat)
    BY TableIs
  <2>2. N \in Nat /\ \A n \in 1 .. N : entries[n] \in TableEntry
    OBVIOUS
  <2> QED BY <2>1, <2>2
<1>2. PICK g : /\ g[0] = WalkStart
               /\ \A n \in 0 .. N : g[n] \in Walking
               /\ \A n \in 1 .. N : g[n] = Step(bytes, h, g[n - 1])
               /\ Walked(entries, h) = g[N]
  BY WalkedFrom
<1>3. PICK l : /\ l[0] = <<>>
               /\ \A n \in 0 .. N : l[n] \in D
               /\ \A n \in 1 .. N :
                     l[n] = l[n - 1] \o IF MayRun(entries[n]) THEN <<entries[n]>> ELSE <<>>
               /\ Listed(entries) = l[N]
  BY ListedFrom
<1>4. PICK off : /\ \A n \in 0 .. N : off[n] \in Nat
                 /\ off[0] = 0
                 /\ \A n \in 1 .. N : off[n] = off[n - 1] + size(n)
                 /\ \A n \in 1 .. N : LiesAt(bytes, off[n - 1], entries[n])
  BY TableIs DEF LiesAt
<1>5. PICK m \in 0 .. N :
         /\ m >= N - 2
         /\ \A n \in 1 .. m : ~IsLocal(entries[n])
         /\ \A n \in m + 1 .. N : IsLocal(entries[n]) /\ entries[n].flags % 2 = 0
  BY LocalLast
<1>6. \A n \in 1 .. N : SecondFits(entries[n], h)
  <2>1. DOMAIN entries = 1 .. N
    OBVIOUS
  <2> HIDE DEF N
  <2> QED BY <2>1, Zenon DEF TableInStep, SecondFits
<1> HIDE DEF N, bytes, D, size
<1>7. \A n \in 1 .. N : n \in 0 .. N /\ n - 1 \in 0 .. N
  BY <1>1
<1> DEFINE S == {n \in 0 .. m : InStep(g[n], off[n], l[n], h)}
<1>8. 0 \in S
  <2>1. /\ WalkStart.at = 0 + 1 /\ WalkStart.cores = 0 /\ WalkStart.cpus = <<>>
    BY DEF WalkStart
  <2>2. Len(<<>>) = 0
    OBVIOUS
  <2>3. CpusOf(<<>>, <<>>, h)
    BY <2>2 DEF CpusOf
  <2>4. InStep(g[0], off[0], l[0], h)
    BY <1>2, <1>3, <1>4, <2>1, <2>2, <2>3 DEF InStep
  <2> QED BY <1>1, <2>4
<1>9. \A n \in 0 .. m : n \in S /\ n < m => n + 1 \in S
  <2> SUFFICES ASSUME NEW n \in 0 .. m, n < m, InStep(g[n], off[n], l[n], h)
               PROVE  InStep(g[n + 1], off[n + 1], l[n + 1], h)
    BY <1>1
  <2> DEFINE p == n + 1
             w == g[n]
             o == off[n]
             s == l[n]
             e == entries[p]
  <2>1. p \in 1 .. N /\ p \in 1 .. m /\ p - 1 = n /\ n \in 0 .. N
    BY <1>1
  <2> HIDE DEF p
  <2>2. /\ g[p] = Step(bytes, h, w)
        /\ l[p] = s \o IF MayRun(e) THEN <<e>> ELSE <<>>
        /\ off[p] = o + Len(EntryBytes(e))
    BY <1>2, <1>3, <1>4, <2>1 DEF size
  <2>3. /\ w \in Walking /\ o \in Nat /\ s \in Seq(TableEntry) /\ e \in TableEntry
        /\ ~IsLocal(e) /\ SecondFits(e, h) /\ LiesAt(bytes, o, e)
    BY <1>1, <1>2, <1>3, <1>4, <1>5, <1>6, <2>1 DEF D
  <2>4. InStep(w, o, s, h)
    OBVIOUS
  <2> HIDE DEF w, o, s, e
  <2>5. InStep(g[p], off[p], l[p], h)
    BY <1>1, <2>2, <2>3, <2>4, StaysInStep
  <2> QED BY <2>5 DEF p
<1>10. InStep(g[m], off[m], l[m], h)
  <2> HIDE DEF S
  <2>0. m \in Nat
    BY <1>1
  <2>1. \A n \in 0 .. m : n \in S
    BY <2>0, <1>8, <1>9, UpTo
  <2>2. m \in 0 .. m
    BY <1>1
  <2> QED BY <2>1, <2>2 DEF S
<1>11. ASSUME NEW n \in m + 1 .. N
       PROVE  /\ n \in 1 .. N /\ n - 1 \in 0 .. N /\ l[n] = l[n - 1]
              /\ off[n] = off[n - 1] + 8
              /\ ByteAt(bytes, off[n - 1] + 1) = 4
              /\ ByteAt(bytes, off[n - 1] + 3) % 2 = 0
              /\ off[n - 1] \in Nat /\ g[n - 1] \in Walking /\ g[n] = Step(bytes, h, g[n - 1])
  <2> DEFINE e == entries[n]
             o == off[n - 1]
             s == l[n - 1]
  <2>1. n \in 1 .. N /\ n - 1 \in 0 .. N
    BY <1>1
  <2>2. /\ e \in TableEntry /\ IsLocal(e) /\ e.flags % 2 = 0
        /\ o \in Nat /\ LiesAt(bytes, o, e) /\ s \in D
        /\ off[n] = o + Len(EntryBytes(e))
        /\ l[n] = s \o IF MayRun(e) THEN <<e>> ELSE <<>>
    BY <1>1, <1>3, <1>4, <1>5, <2>1 DEF size
  <2>3. g[n - 1] \in Walking /\ g[n] = Step(bytes, h, g[n - 1])
    BY <1>2, <2>1
  <2> HIDE DEF e, o, s
  <2>4. /\ Len(EntryBytes(e)) = 8 /\ ~MayRun(e)
        /\ ByteAt(bytes, o + 1) = 4 /\ ByteAt(bytes, o + 3) = e.flags
    BY <2>2, LocalLies
  <2>5. s \o <<>> = s
    <3>1. \A t \in D : t \o <<>> = t
      BY DEF D
    <3> QED BY <2>2, <3>1
  <2>6. l[n] = s /\ off[n] = o + 8 /\ ByteAt(bytes, o + 3) % 2 = 0
    BY <2>2, <2>4, <2>5
  <2> QED BY <2>1, <2>2, <2>3, <2>4, <2>6 DEF o, s
<1>12. EntrySize(4) = 7
  BY DEF EntrySize
<1>13. ASSUME NEW n \in m + 1 .. N, InStep(g[n - 1], off[n - 1], l[n - 1], h)
       PROVE  Passes(g[n], g[n - 1], 7)
  <2>1. g[n - 1].at = off[n - 1] + 1
    BY <1>13 DEF InStep
  <2> DEFINE w == g[n - 1]
  <2>2. w \in Walking /\ ByteAt(bytes, w.at) = 4 /\ g[n] = Step(bytes, h, w)
    BY <1>11, <2>1
  <2> HIDE DEF w
  <2>3. ByteAt(bytes, w.at) # 0
    BY <2>2
  <2>4. Passes(Step(bytes, h, w), w, EntrySize(ByteAt(bytes, w.at)))
    BY <1>1, <2>2, <2>3, StepPasses
  <2>5. Passes(g[n], w, 7)
    BY <1>12, <2>2, <2>4
  <2> QED BY <2>5 DEF w
<1>14. /\ g[N].cores = Len(l[N]) /\ CpusOf(g[N].cpus, l[N], h)
  <2>1. CASE m = N
    BY <1>10, <2>1 DEF InStep
  <2>2. CASE m = N - 1
    <3>1. N \in m + 1 .. N
      BY <1>1, <2>2
    <3>2. Passes(g[N], g[m], 7) /\ l[N] = l[m]
      BY <1>10, <1>11, <1>13, <2>2, <3>1
    <3> QED BY <1>10, <3>2 DEF InStep, Passes
  <2>3. CASE m = N - 2
    <3> DEFINE p == m + 1
    <3>1. p \in m + 1 .. N /\ N \in m + 1 .. N /\ p - 1 = m /\ N - 1 = p
      BY <1>1, <2>3
    <3> HIDE DEF p
    <3>2. Passes(g[p], g[m], 7) /\ l[p] = l[m] /\ off[p] = off[m] + 8 /\ off[m] \in Nat
      BY <1>10, <1>11, <1>13, <3>1
    <3>3. /\ l[N] = l[p] /\ ByteAt(bytes, off[p] + 3) % 2 = 0
          /\ g[p] \in Walking /\ g[N] = Step(bytes, h, g[p])
      BY <1>11, <3>1
    <3>4. g[m].at = off[m] + 1
      BY <1>10 DEF InStep
    <3>5. g[p].at + 3 = off[p] + 3
      <4>1. g[p].at = g[m].at + 7
        BY <3>2 DEF Passes
      <4> QED BY <3>2, <3>4, <4>1
    <3>6. Passes(g[N], g[p], EntrySize(ByteAt(bytes, g[p].at)))
      BY <1>1, <3>3, <3>5, StepPasses
    <3> QED BY <1>10, <3>2, <3>3, <3>6 DEF InStep, Passes
  <2>4. m = N \/ m = N - 1 \/ m = N - 2
    BY <1>1, <1>5
  <2> QED BY <2>1, <2>2, <2>3, <2>4
<1>15. N \in 0 .. N
  BY <1>1
<1>16. l[N] \in Seq(TableEntry) /\ g[N].cpus \in Seq(FoundCpu)
  BY <1>2, <1>3, <1>15 DEF D, Walking
<1> QED
  BY <1>2, <1>3, <1>14, <1>16

\* The processors of cpu_data by their place, as CpusAsListed has them.
LEMMA InPlaces ==
    ASSUME NEW found \in Seq(FoundCpu), NEW listed \in Seq(TableEntry), NEW h \in BOOLEAN,
           CpusOf(found, listed, h), NEW t, t = IF h THEN 2 ELSE 1
    PROVE  /\ Len(found) = t * Len(listed)
           /\ \A i \in DOMAIN found :
                 /\ (i - 1) \div t + 1 \in DOMAIN listed
                 /\ found[i].lapic_id = listed[((i - 1) \div t) + 1].id + ((i - 1) % t)
<1> DEFINE L == Len(listed)
           M == Len(found)
<1>1. L \in Nat /\ M \in Nat /\ DOMAIN found = 1 .. M /\ DOMAIN listed = 1 .. L
  OBVIOUS
<1>2. ASSUME NEW i \in 1 .. L PROVE listed[i].id \in Nat
  <2>1. listed[i] \in TableEntry
    OBVIOUS
  <2>2. \A e \in TableEntry : e.id \in 0 .. 255
    BY DEF TableEntry
  <2>3. \A n \in 0 .. 255 : n \in Nat
    OBVIOUS
  <2> QED BY <2>1, <2>2, <2>3
<1>3. /\ M = IF h THEN 2 * L ELSE L
      /\ \A j \in 1 .. L : /\ found[IF h THEN 2 * j - 1 ELSE j].lapic_id = listed[j].id
                           /\ h => found[2 * j].lapic_id = listed[j].id + 1
  BY DEF CpusOf
<1> HIDE DEF L, M
<1>4. CASE h
  <2>1. M = 2 * L /\ t = 2
    BY <1>3, <1>4
  <2>2. ASSUME NEW i \in 1 .. M
        PROVE  /\ (i - 1) \div 2 + 1 \in 1 .. L
               /\ found[i].lapic_id = listed[((i - 1) \div 2) + 1].id + ((i - 1) % 2)
    <3> DEFINE j == (i - 1) \div 2 + 1
               r == (i - 1) % 2
    <3>1. j \in 1 .. L /\ ((r = 0 /\ i = 2 * j - 1) \/ (r = 1 /\ i = 2 * j))
      BY <1>1, <2>1
    <3> HIDE DEF j, r
    <3>2. /\ found[2 * j - 1].lapic_id = listed[j].id
          /\ found[2 * j].lapic_id = listed[j].id + 1
      BY <1>3, <1>4, <3>1
    <3>3. listed[j].id \in Nat
      BY <1>2, <3>1 DEF L
    <3> DEFINE x == listed[j].id
    <3> HIDE DEF x
    <3>4. CASE r = 0
      <4>1. found[i].lapic_id = x /\ x \in Nat
        BY <3>1, <3>2, <3>3, <3>4 DEF x
      <4>2. found[i].lapic_id = x + r
        BY <3>4, <4>1
      <4> QED BY <3>1, <4>2 DEF j, r, x
    <3>5. CASE r = 1
      <4>1. found[i].lapic_id = x + r
        BY <3>1, <3>2, <3>5 DEF x
      <4> QED BY <3>1, <4>1 DEF j, r, x
    <3> QED BY <3>1, <3>4, <3>5
  <2> QED BY <1>1, <2>1, <2>2 DEF L, M
<1>5. CASE ~h
  <2>1. M = L /\ t = 1
    BY <1>3, <1>5
  <2>2. ASSUME NEW i \in 1 .. M
        PROVE  /\ (i - 1) \div 1 + 1 \in 1 .. L
               /\ found[i].lapic_id = listed[((i - 1) \div 1) + 1].id + ((i - 1) % 1)
    <3>1. (i - 1) \div 1 + 1 = i /\ (i - 1) % 1 = 0 /\ i \in 1 .. L
      BY <1>1, <2>1
    <3>2. found[i].lapic_id = listed[i].id /\ listed[i].id \in Nat
      BY <1>2, <1>3, <1>5, <3>1 DEF L
    <3> QED BY <3>1, <3>2
  <2>3. M = 1 * L
    BY <1>1, <2>1
  <2> QED BY <1>1, <2>1, <2>2, <2>3 DEF L, M
<1> QED
  BY <1>4, <1>5

\* The greatest number of a set that has one.
LEMMA MaxIn ==
    ASSUME NEW N \in Nat, NEW T \in SUBSET (1 .. N), T # {}
    PROVE  Max(T) \in T
<1> DEFINE U == {n \in 0 .. N : N - n \in T}
<1>1. U \subseteq Nat /\ U # {}
  <2>1. PICK x \in T : TRUE
    OBVIOUS
  <2>2. N - x \in 0 .. N /\ N - (N - x) = x
    BY <2>1
  <2>3. N - x \in U
    BY <2>1, <2>2
  <2>4. U \subseteq Nat
    OBVIOUS
  <2> HIDE DEF U
  <2> QED BY <2>3, <2>4
<1> HIDE DEF U
<1>2. PICK m \in U : \A n \in U : m <= n
  BY <1>1, NatLeast
<1>3. N - m \in T /\ m \in 0 .. N
  BY <1>2 DEF U
<1>4. \A y \in T : N - m >= y
  <2> SUFFICES ASSUME NEW y \in T PROVE N - m >= y
    OBVIOUS
  <2>1. N - y \in 0 .. N /\ N - (N - y) = y /\ y \in 1 .. N
    OBVIOUS
  <2>2. N - y \in U
    BY <2>1 DEF U
  <2>3. m <= N - y
    BY <1>2, <2>2
  <2> QED BY <1>3, <2>1, <2>3
<1> QED
  BY <1>3, <1>4 DEF Max

\* What the firmware leaves, and what smp_init makes of it: the processors
\* are those of one of its tables.
Firmware == [ebda : Seq(MpStructure), rom : Seq(MpStructure)]

LEMMA SearchIn ==
    ASSUME NEW area \in Seq(MpStructure), Search(area) # 0
    PROVE  Search(area) \in DOMAIN area /\ area[Search(area)].sound
<1> DEFINE I == {i \in 1 .. Len(area) : area[i].sound}
<1>1. Search(area) = IF I # {} THEN Max(I) ELSE 0
  BY DEF Search, SelectLastInSeq
<1>2. I \in SUBSET (1 .. Len(area)) /\ Len(area) \in Nat /\ DOMAIN area = 1 .. Len(area)
  OBVIOUS
<1>3. \A i \in I : area[i].sound
  OBVIOUS
<1> HIDE DEF I
<1>4. I # {} /\ Search(area) = Max(I)
  BY <1>1
<1>5. Max(I) \in I
  BY <1>2, <1>4, MaxIn
<1> QED
  BY <1>2, <1>3, <1>4, <1>5

LEMMA SmpFrom ==
    ASSUME NEW f \in Firmware, NEW h \in BOOLEAN, smp_init(f, h).smp
    PROVE  \E mp \in Structures(f) :
              /\ mp \in MpStructure
              /\ smp_init(f, h).cpus = Walked(mp.config.entries, h).cpus
<1> DEFINE area == IF Search(f.ebda) # 0 THEN f.ebda ELSE f.rom
           k == Search(area)
           mp == area[k]
           w == Walked(mp.config.entries, h)
           D == Seq(MpStructure)
<1>1. f.ebda \in D /\ f.rom \in D
  BY DEF Firmware
<1>2. area \in D
  BY <1>1
<1>3. OneCpu.smp = FALSE
  BY DEF OneCpu
<1>4. /\ k # 0 /\ mp.feature = 0 /\ mp.config.sound
      /\ smp_init(f, h) = init_cpu_data(mp.config, h)
  BY <1>3 DEF smp_init
<1> HIDE DEF area, k
<1>5. k \in DOMAIN area /\ area[k].sound
  <2> HIDE DEF mp
  <2> QED BY <1>2, <1>4, SearchIn DEF k
<1>6. smp_init(f, h).cpus = w.cpus
  <2>1. init_cpu_data(mp.config, h).smp
    BY <1>4
  <2> HIDE DEF mp
  <2>2. init_cpu_data(mp.config, h).cpus = Walked(mp.config.entries, h).cpus
    BY <1>3, <2>1 DEF init_cpu_data
  <2> QED BY <1>4, <2>2
<1>7. mp \in Structures(f) /\ mp \in MpStructure
  <2>1. \A x, y \in D : /\ \A i \in DOMAIN x : i \in DOMAIN (x \o y) /\ (x \o y)[i] = x[i]
                        /\ \A i \in DOMAIN y : /\ Len(x) + i \in DOMAIN (x \o y)
                                               /\ (x \o y)[Len(x) + i] = y[i]
    OBVIOUS
  <2>2. \A x \in D : \A i \in DOMAIN x : x[i] \in MpStructure
    OBVIOUS
  <2>3. area = f.ebda \/ area = f.rom
    BY DEF area
  <2> HIDE DEF D
  <2>4. \E i \in DOMAIN (f.ebda \o f.rom) : (f.ebda \o f.rom)[i] = mp
    <3> DEFINE x == f.ebda
               y == f.rom
    <3>1. x \in D /\ y \in D
      BY <1>1
    <3> HIDE DEF x, y
    <3>2. /\ \A i \in DOMAIN x : i \in DOMAIN (x \o y) /\ (x \o y)[i] = x[i]
          /\ \A i \in DOMAIN y : /\ Len(x) + i \in DOMAIN (x \o y)
                                 /\ (x \o y)[Len(x) + i] = y[i]
      BY <2>1, <3>1
    <3>3. CASE area = x
      BY <1>5, <3>2, <3>3 DEF x, y
    <3>4. CASE area = y
      BY <1>5, <3>2, <3>4 DEF x, y
    <3> QED BY <2>3, <3>3, <3>4 DEF x, y
  <2>5. mp \in MpStructure
    BY <1>2, <1>5, <2>2
  <2>6. Acceptable(mp)
    BY <1>4, <1>5 DEF Acceptable
  <2> HIDE DEF mp
  <2> QED BY <2>4, <2>5, <2>6 DEF ToSet, Structures
<1> HIDE DEF w, mp
<1> QED
  BY <1>6, <1>7 DEF w

\* No step of the boot changes the machine, and only smp_init says which
\* processors there are.
LEMMA CpusKept ==
    ASSUME Next
    PROVE  /\ machine' = machine
           /\ cpus' = cpus \/ cpus' = smp_init(machine.firmware, machine.hyperthreading)
<1>1. \A from : Panic(from) => machine' = machine /\ cpus' = cpus
  BY DEF Panic
<1>2. NoMemory \/ ConsoleFailed => machine' = machine /\ cpus' = cpus
  BY <1>1 DEF NoMemory, ConsoleFailed
<1>3. BootInfo \/ Tables => machine' = machine /\ cpus' = cpus
  BY DEF BootInfo, Tables
<1>4. ParseCmdline => machine' = machine /\ cpus' = cpus
  BY <1>1 DEF ParseCmdline
<1>5. BootConsoleInit => machine' = machine /\ cpus' = cpus
  BY DEF BootConsoleInit
<1>6. CheckCpu \/ CheckMagic => machine' = machine /\ cpus' = cpus
  BY <1>1 DEF CheckCpu, CheckMagic
<1>7. ParseMemoryMap => machine' = machine /\ cpus' = cpus
  BY DEF ParseMemoryMap
<1>8. SmpInit => /\ machine' = machine
                 /\ cpus' = smp_init(machine.firmware, machine.hyperthreading)
  BY DEF SmpInit
<1>9. PmmRegions \/ PmmBitmaps => machine' = machine /\ cpus' = cpus
  BY <1>1 DEF PmmRegions, PmmBitmaps
<1>10. PmmReserve => machine' = machine /\ cpus' = cpus
  BY <1>1 DEF PmmReserve
<1>11. KernelMain => machine' = machine /\ cpus' = cpus
  BY DEF KernelMain
<1>12. PageFault => machine' = machine /\ cpus' = cpus
  BY <1>1 DEF PageFault
<1> QED
  BY <1>2, <1>3, <1>4, <1>5, <1>6, <1>7, <1>8, <1>9, <1>10, <1>11, <1>12 DEF Next

\* What is in cpu_data is what smp_init found in the machine's memory.
CpusFound == cpus.smp => cpus = smp_init(machine.firmware, machine.hyperthreading)

\* No later call of the boot, and no panic, touches cpu_data.
THEOREM CpusFoundHolds == Spec => []CpusFound
<1>1. Init => CpusFound
  BY DEF Init, OneCpu, CpusFound
<1>2. CpusFound /\ [Next]_vars => CpusFound'
  <2> SUFFICES ASSUME CpusFound, [Next]_vars PROVE CpusFound'
    OBVIOUS
  <2>1. CASE Next
    BY <2>1, CpusKept DEF CpusFound
  <2>2. CASE UNCHANGED vars
    BY <2>2 DEF CpusFound, vars
  <2> QED BY <2>1, <2>2
<1> QED
  BY <1>1, <1>2, PTL DEF Spec

\* The table cpu_data is made from, and what the walk over it has found.
LEMMA CpusFromTable ==
    ASSUME machine \in Machines, CpusFound, cpus.smp, ReadInStep(machine)
    PROVE  \E entries \in TablesOf(machine) :
              /\ Listed(entries) \in Seq(TableEntry)
              /\ cpus.cpus \in Seq(FoundCpu)
              /\ CpusOf(cpus.cpus, Listed(entries), machine.hyperthreading)
<1> DEFINE f == machine.firmware
           h == machine.hyperthreading
<1>1. f \in Firmware /\ h \in BOOLEAN
  BY MachinesAssumption DEF Firmware
<1>2. smp_init(f, h).smp /\ cpus = smp_init(f, h)
  BY DEF CpusFound
<1> HIDE DEF f, h
<1>3. PICK mp \in Structures(f) :
         mp \in MpStructure /\ smp_init(f, h).cpus = Walked(mp.config.entries, h).cpus
  BY <1>1, <1>2, SmpFrom
<1> DEFINE entries == mp.config.entries
<1>4. entries \in Seq(TableEntry)
  BY <1>3 DEF MpStructure, ConfigTable
<1>5. entries \in TablesOf(machine)
  BY <1>3 DEF TablesOf, f
<1>6. TableInStep(entries, h)
  BY <1>5 DEF ReadInStep, h
<1>7. cpus.cpus = Walked(entries, h).cpus
  BY <1>2, <1>3
<1> HIDE DEF entries
<1>8. /\ Listed(entries) \in Seq(TableEntry) /\ cpus.cpus \in Seq(FoundCpu)
      /\ CpusOf(cpus.cpus, Listed(entries), h)
  BY <1>1, <1>4, <1>6, <1>7, WalkIs
<1> QED
  BY <1>5, <1>8 DEF h

\* The two parts of CpusFit.
LEMMA AsListed ==
    ASSUME machine \in Machines, CpusFound, ReadInStep(machine)
    PROVE  CpusAsListed
<1> SUFFICES ASSUME cpus.smp PROVE CpusAsListed
  BY DEF CpusAsListed
<1> DEFINE h == machine.hyperthreading
           threads == IF h THEN 2 ELSE 1
<1>1. PICK entries \in TablesOf(machine) :
         /\ Listed(entries) \in Seq(TableEntry)
         /\ cpus.cpus \in Seq(FoundCpu)
         /\ CpusOf(cpus.cpus, Listed(entries), h)
  BY CpusFromTable
<1>2. h \in BOOLEAN
  BY MachinesAssumption
<1> DEFINE listed == Listed(entries)
           t == threads
<1> HIDE DEF h, listed, t
<1>3. t = IF h THEN 2 ELSE 1
  BY DEF t
<1>4. /\ Len(cpus.cpus) = t * Len(listed)
      /\ \A i \in DOMAIN cpus.cpus :
            cpus.cpus[i].lapic_id = listed[((i - 1) \div t) + 1].id + ((i - 1) % t)
  BY <1>1, <1>2, <1>3, InPlaces DEF listed
<1> QED
  BY <1>1, <1>4, Zenon DEF CpusAsListed, listed, t, h

LEMMA IdsFit ==
    ASSUME machine \in Machines, CpusFound, ReadInStep(machine), BootstrapFirst(machine)
    PROVE  IdsFitTheStart
<1> SUFFICES ASSUME cpus.smp, NumberedInOrder(machine)
             PROVE  /\ \A i \in DOMAIN cpus.cpus : cpus.cpus[i].lapic_id = i - 1
                    /\ cpus.cpus[1].bsp
  BY DEF IdsFitTheStart
<1> DEFINE h == machine.hyperthreading
           found == cpus.cpus
<1>1. PICK entries \in TablesOf(machine) :
         /\ Listed(entries) \in Seq(TableEntry)
         /\ found \in Seq(FoundCpu)
         /\ CpusOf(found, Listed(entries), h)
  BY CpusFromTable
<1>2. h \in BOOLEAN
  BY MachinesAssumption
<1> DEFINE listed == Listed(entries)
           t == IF h THEN 2 ELSE 1
<1>3. \A i \in DOMAIN listed : listed[i].id = (i - 1) * t
  BY <1>1, Zenon DEF NumberedInOrder
<1>4. listed # <<>> /\ IsBsp(listed[1].flags)
  BY <1>1 DEF BootstrapFirst
<1> HIDE DEF h, listed, t, found
<1>5. t = IF h THEN 2 ELSE 1
  BY DEF t
<1>6. \A i \in DOMAIN found :
         /\ (i - 1) \div t + 1 \in DOMAIN listed
         /\ found[i].lapic_id = listed[((i - 1) \div t) + 1].id + ((i - 1) % t)
  BY <1>1, <1>2, <1>5, InPlaces DEF listed
<1>7. ASSUME NEW i \in DOMAIN found PROVE found[i].lapic_id = i - 1
  <2> DEFINE j == (i - 1) \div t + 1
  <2>1. j \in DOMAIN listed /\ found[i].lapic_id = listed[j].id + ((i - 1) % t)
    BY <1>6
  <2>2. listed[j].id = (j - 1) * t
    BY <1>3, <2>1
  <2>3. i \in Nat \ {0}
    BY <1>1 DEF found
  <2>4. (j - 1) * t + ((i - 1) % t) = i - 1
    <3>1. CASE h
      BY <1>5, <2>3, <3>1
    <3>2. CASE ~h
      BY <1>5, <2>3, <3>2
    <3> QED BY <3>1, <3>2
  <2> HIDE DEF j
  <2> QED BY <2>1, <2>2, <2>4
<1>8. found[1].bsp
  <2>1. listed \in Seq(TableEntry) /\ CpusOf(found, listed, h)
    BY <1>1 DEF listed
  <2>2. 1 \in 1 .. Len(listed)
    BY <1>4, <2>1
  <2>3. found[IF h THEN 2 * 1 - 1 ELSE 1].bsp = IsBsp(listed[1].flags)
    BY <2>1, <2>2, Zenon DEF CpusOf
  <2>4. (IF h THEN 2 * 1 - 1 ELSE 1) = 1
    OBVIOUS
  <2> QED BY <1>4, <2>3, <2>4
<1> QED
  BY <1>7, <1>8 DEF found

\* Whatever tables the firmware leaves, if they are read in step, cpu_data
\* has their usable processors in order and no other; and if the first one
\* is the bootstrap processor and they are numbered in order, their
\* identifiers are what the start of the processors takes for granted.
THEOREM CpusFitHolds ==
    Spec => [](ReadInStep(machine) /\ BootstrapFirst(machine) => CpusFit)
<1>1. IInv /\ CpusFound => (ReadInStep(machine) /\ BootstrapFirst(machine) => CpusFit)
  <2> SUFFICES ASSUME IInv, CpusFound, ReadInStep(machine), BootstrapFirst(machine)
               PROVE  CpusFit
    OBVIOUS
  <2>1. machine \in Machines
    BY DEF IInv, Typed
  <2> QED BY <2>1, AsListed, IdsFit DEF CpusFit
<1> QED
  BY <1>1, Invariant, CpusFoundHolds, PTL

\* The first part needs no mark on the first processor.
THEOREM CpusAsListedHolds == Spec => [](ReadInStep(machine) => CpusAsListed)
<1>1. IInv /\ CpusFound => (ReadInStep(machine) => CpusAsListed)
  <2> SUFFICES ASSUME IInv, CpusFound, ReadInStep(machine) PROVE CpusAsListed
    OBVIOUS
  <2>1. machine \in Machines
    BY DEF IInv, Typed
  <2> QED BY <2>1, AsListed
<1> QED
  BY <1>1, Invariant, CpusFoundHolds, PTL
=============================================================================
