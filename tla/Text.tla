-------------------------------- MODULE Text --------------------------------
(***************************************************************************)
(* Memory, strings and formatted output, common/libc/string.c and printf.c,*)
(* and what init makes of the kernel's command line, sysbin/init/main.c:   *)
(* the algorithms with a boundary, each beside what it is to compute.      *)
(*                                                                         *)
(* A string is a sequence of characters, its end is not in it; positions   *)
(* count from 0.  Memory is a function from addresses.                     *)
(***************************************************************************)
EXTENDS Integers, Sequences, SequencesExt, FiniteSetsExt

CONSTANTS
  Size,                \* addresses of memory: 0 .. Size - 1
  Strings,             \* the strings that functions are called with
  Formats,             \* the formats: sequences of directives
  Args,                \* their arguments: what it is as a number, i, and as a string, s
  Nibbles,             \* hexadecimal digits of a word, 8 in the code
  Lines,               \* command lines
  NULL

VARIABLES call, result

vars == <<call, result>>

Least(a, b) == IF a < b THEN a ELSE b
Drop(s, n) == SubSeq(s, n + 1, Len(s))
Take(s, n) == SubSeq(s, 1, Least(n, Len(s)))
Count(n) == [i \in 1 .. n |-> i - 1]
At(s, i) == IF i < Len(s) THEN s[i + 1] ELSE 0

-----------------------------------------------------------------------------
\* Memory: words of four bytes, then the bytes that are left

\* One load of n bytes at s and one store at d
Move(m, d, s, n) ==
  [a \in DOMAIN m |-> IF a - d \in 0 .. n - 1 THEN m[s + a - d] ELSE m[a]]
memcpy(m, d, s, count) ==
  LET Word(n, i) == Move(n, d + 4 * i, s + 4 * i, 4)
      Byte(n, i) == Move(n, d + count - (count % 4) + i, s + count - (count % 4) + i, 1)
  IN FoldLeft(Byte, FoldLeft(Word, m, Count(count \div 4)), Count(count % 4))

\* Backwards it copies the bytes after those that it is asked for.
memmove(m, d, s, count) ==
  LET Forward(n, i) == Move(n, d + i, s + i, 1)
      Backward(n, i) == Move(n, d + count - i, s + count - i, 1)
  IN IF d < s THEN FoldLeft(Forward, m, Count(count))
     ELSE FoldLeft(Backward, m, Count(count))

\* The mutation leaves the bytes that are left.
Leftover_None(count) == {}
Leftover(count) == count - (count % 4) .. count - 1
memset(m, d, val, count) ==
  [a \in DOMAIN m |-> IF a - d \in 0 .. 4 * (count \div 4) - 1 \/ a - d \in Leftover(count)
                      THEN val ELSE m[a]]

-----------------------------------------------------------------------------
\* Strings

\* strcmp(), and strncmp() with a length: they stop at the end of the first one,
\* where they differ, or at n.
Stop(a, b, n) == Min({i \in 0 .. Len(a) : At(a, i) = 0 \/ At(a, i) # At(b, i) \/ i = n})
strcmp(a, b) == LET i == Stop(a, b, -1) IN At(a, i) - At(b, i)
strncmp(a, b, n) ==
  LET i == Stop(a, b, n) IN IF i = n THEN 0 ELSE At(a, i) - At(b, i)

strchr(s, c) ==
  LET at == {i \in 0 .. Len(s) : At(s, i) = c} IN IF at = {} THEN NULL ELSE Min(at)
strstr(haystack, needle) ==
  LET at == {p \in 0 .. Len(haystack) - 1 : strncmp(Drop(haystack, p), needle, Len(needle)) = 0}
  IN IF at = {} THEN NULL ELSE Min(at)
strspn(s, accept) ==
  Min({l \in 0 .. Len(s) : At(s, l) = 0 \/ At(s, l) \notin ToSet(accept)})

\* The n bytes at dest
strncpy(src, n) ==
  LET x == Least(n, Len(src)) IN [i \in 1 .. n |-> IF i <= x THEN src[i] ELSE 0]

-----------------------------------------------------------------------------
\* vcprintf() into the buffer of vsnprintf(): a run has what is in the buffer, the
\* arguments that are left, and whether vcprintf() has returned.

Digit(d) == IF d < 10 THEN 48 + d ELSE 87 + d
Minus == 45
Percent == 37

\* PUTCHAR, which returns when the buffer is full: len is a size_t, and len - 1 the
\* largest one if it is 0.
Put(run, c, len) ==
  IF run.ended THEN run
  ELSE IF Len(run.buff) < (len - 1) % 16 ^ Nibbles THEN [run EXCEPT !.buff = Append(@, c)]
  ELSE [run EXCEPT !.ended = TRUE]
PutAll(run, cs, len) == FoldLeft(LAMBDA r, c : Put(r, c, len), run, cs)

\* The division of C, and buff_int read backwards: the mutation takes the
\* remainder for positive.
Rem(n) == IF n < 0 THEN -((-n) % 10) ELSE n % 10
Quotient(n) == IF n < 0 THEN -((-n) \div 10) ELSE n \div 10
m10_Signed(n) == Rem(n)
m10(n) == IF Rem(n) < 0 THEN -Rem(n) ELSE Rem(n)
RECURSIVE BuffInt(_)
BuffInt(n) ==
  (IF Quotient(n) = 0 THEN <<>> ELSE BuffInt(Quotient(n))) \o <<Digit(m10(n))>>
Integer(n) == (IF n < 0 THEN <<Minus>> ELSE <<>>) \o BuffInt(n)

\* The nibbles of a word from the highest one, without leading zeros if it is %x
Nibble(n, j) == (n \div 16 ^ (Nibbles - 1 - j)) % 16
All(n) == [j \in 1 .. Nibbles |-> Digit(Nibble(n, j - 1))]
Hexa(n) ==
  LET shown == {j \in 0 .. Nibbles - 1 : \E k \in 0 .. j : Nibble(n, k) # 0}
  IN IF shown = {} THEN <<Digit(0)>> ELSE Drop(All(n), Min(shown))

\* A directive: an ordinary character, %%, %d, %ud, which takes no argument, %c,
\* which leaves the loop, %s, %x, %llx, %p, or another one, which is put as it is.
\* So is a % at the end of the format, "end", together with the 0 that ends it: the
\* directives after it are what memory holds behind the format.
Takes(d) == d \in {"d", "c", "s", "x", "llx", "p"}
Step(run, d, len) ==
  LET arg == Head(run.args)
      taken == IF Takes(d) /\ ~run.ended THEN [run EXCEPT !.args = Drop(@, 1)] ELSE run
      cs == CASE d = "a" -> <<97>>
              [] d = "%" -> <<Percent>>
              [] d = "d" -> Integer(arg.i)
              [] d = "ud" -> <<>>
              [] d = "c" -> <<arg.i % 256>>
              [] d = "s" -> arg.s
              [] d \in {"x", "llx"} -> Hexa(arg.i)
              [] d = "p" -> All(arg.i)
              [] d = "y" -> <<Percent, 121>>
              [] d = "end" -> <<Percent, 0>>
      put == PutAll(taken, cs, len)
  IN IF d = "c" THEN [put EXCEPT !.ended = TRUE] ELSE put
vsnprintf(len, format, args) ==
  FoldLeft(LAMBDA r, d : Step(r, d, len), [buff |-> <<>>, args |-> args, ended |-> FALSE],
           format).buff

-----------------------------------------------------------------------------
\* parse_cmdline(): the pairs in the order they are added in.  Before the first
\* space is the kernel's name.

Space == 32
Equals == 61

\* What is added of x, which begins with no space, and where it goes on: the
\* mutation looks for the next '=' beyond the next space.
Beyond_Not(eq, sep) == FALSE
Beyond(eq, sep) == eq > sep
Word(x) ==
  LET eq == strchr(x, Equals)
      sep == strchr(x, Space)
      end == IF sep = NULL THEN Len(x) ELSE sep
      whole == eq = NULL \/ (sep # NULL /\ Beyond(eq, sep))
  IN [key |-> Take(x, IF whole THEN end ELSE eq),
      val |-> IF whole THEN Take(x, end) ELSE Take(Drop(x, eq + 1), end - eq - 1),
      rest |-> IF sep = NULL THEN <<>> ELSE Drop(x, sep + 1)]
RECURSIVE Parsed(_)
Parsed(x) ==
  IF x = <<>> THEN <<>>
  ELSE LET w == Word(Drop(x, strspn(x, <<Space>>)))
       IN <<[key |-> w.key, val |-> w.val]>> \o Parsed(w.rest)
parse_cmdline(x) ==
  LET at == strchr(x, Space) IN IF at = NULL THEN <<>> ELSE Parsed(Drop(x, at))

-----------------------------------------------------------------------------
Ops == {"memcpy", "memmove", "memset", "strcmp", "strncmp", "strstr", "strspn", "strncpy",
        "vsnprintf", "parse_cmdline"}
OfMemory == {"memcpy", "memmove", "memset"}
Memory == [a \in 0 .. Size - 1 |-> a]

\* The calls of an operation: x, y and n are addresses or strings and a length.
Calls(op) ==
  CASE op \in OfMemory ->
         [op : {op}, x : 0 .. Size - 1, y : 0 .. Size - 1, n : 0 .. Size - 1, args : {<<>>}]
    [] op = "vsnprintf" -> [op : {op}, x : Formats, y : {NULL}, n : {0, 1, 3, 20}, args : Args]
    [] op = "parse_cmdline" -> [op : {op}, x : Lines, y : {NULL}, n : {0}, args : {<<>>}]
    [] OTHER -> [op : {op}, x : Strings, y : Strings, n : 0 .. 3, args : {<<>>}]
Legal(c) == c.op \in OfMemory => c.x + c.n < Size /\ c.y + c.n < Size

Result(c) ==
  CASE c.op = "memcpy" -> memcpy(Memory, c.x, c.y, c.n)
    [] c.op = "memmove" -> memmove(Memory, c.x, c.y, c.n)
    [] c.op = "memset" -> memset(Memory, c.x, c.y, c.n)
    [] c.op = "strcmp" -> strcmp(c.x, c.y)
    [] c.op = "strncmp" -> strncmp(c.x, c.y, c.n)
    [] c.op = "strstr" -> strstr(c.x, c.y)
    [] c.op = "strspn" -> strspn(c.x, c.y)
    [] c.op = "strncpy" -> strncpy(c.x, c.n)
    [] c.op = "vsnprintf" -> vsnprintf(c.n, c.x, c.args)
    [] c.op = "parse_cmdline" -> parse_cmdline(c.x)

Idle == [op |-> "none"]
Init == call = Idle /\ result = NULL

Begin ==
  /\ call = Idle
  /\ \E op \in Ops : \E c \in Calls(op) : Legal(c) /\ call' = c /\ result' = Result(c)
Return == call # Idle /\ call' = Idle /\ result' = NULL

Next == Begin \/ Return

-----------------------------------------------------------------------------
\* A string is less than another one at the first character, or the end, where
\* they differ.
Order(a, b) ==
  LET d == {i \in 1 .. Len(a) : Take(a, i) # Take(b, i)}
  IN IF a = b THEN 0
     ELSE IF d = {} THEN -1
     ELSE IF Min(d) > Len(b) \/ a[Min(d)] > b[Min(d)] THEN 1 ELSE -1
Sign(n) == IF n < 0 THEN -1 ELSE IF n > 0 THEN 1 ELSE 0

\* Decimal and hexadecimal numbers: no leading zero, and the digits' value
Value(ds, base) ==
  FoldLeft(LAMBDA v, d : v * base + (IF d > 57 THEN d - 87 ELSE d - 48), 0, ds)
Writes(ds, n, base) ==
  /\ Len(ds) > 1 => ds[1] # Digit(0)
  /\ ds # <<>>
  /\ \A i \in DOMAIN ds : ds[i] \in {Digit(d) : d \in 0 .. base - 1}
  /\ Value(ds, base) = n
NumbersExact(args) ==
  \A k \in DOMAIN args :
    LET n == args[k].i
        w == n % (16 ^ Nibbles)
    IN /\ IF n < 0 THEN Integer(n)[1] = Minus /\ Writes(Drop(Integer(n), 1), -n, 10)
          ELSE Writes(Integer(n), n, 10)
       /\ Writes(Hexa(n), w, 16)
       /\ Len(All(n)) = Nibbles /\ Value(All(n), 16) = w

\* All that the format says, cut to the buffer
Shown(d, arg) ==
  CASE d = "a" -> <<97>> [] d = "%" -> <<Percent>> [] d = "d" -> Integer(arg.i)
    [] d = "c" -> <<arg.i % 256>> [] d = "s" -> arg.s [] d \in {"x", "llx"} -> Hexa(arg.i)
    [] d = "p" -> All(arg.i) [] d = "y" -> <<Percent, 121>>
Formatted(format, args) ==
  FlattenSeq([i \in DOMAIN format |->
    Shown(format[i],
          args[Least(Len(args), 1 + Cardinality({j \in 1 .. i - 1 : Takes(format[j])}))])])

\* The words after the first space, and the first '=' in each of them
Words(x) ==
  LET starts == SetToSortSeq({i \in 2 .. Len(x) : x[i] # Space /\ x[i - 1] = Space}, <)
      End(i) == Min({j \in i .. Len(x) + 1 : At(x, j - 1) \in {0, Space}})
  IN [k \in DOMAIN starts |-> SubSeq(x, starts[k], End(starts[k]) - 1)]
Pair(w) ==
  LET eq == strchr(w, Equals) IN
  IF eq = NULL THEN [key |-> w, val |-> w] ELSE [key |-> Take(w, eq), val |-> Drop(w, eq + 1)]

\* What the code does otherwise: a copy to a later address in what is copied;
\* memmove() to a later address; an empty string in the empty string; what comes
\* after %c, and %ud; a buffer of length 0, which is written to without end, and a %
\* at the end of the format (printf.c:26, printf.c:170); a pair of empty strings for the spaces at the end of a line,
\* unless it is one after a word.
Otherwise(c) ==
  \/ c.op = "memcpy" /\ c.y < c.x /\ c.x < c.y + c.n
  \/ c.op = "memmove" /\ c.y < c.x /\ c.n > 0
  \/ c.op = "strstr" /\ c.x = <<>> /\ c.y = <<>>
  \/ c.op = "vsnprintf" /\ (c.n = 0 \/ "end" \in ToSet(c.x))
  \/ c.op = "vsnprintf" /\ \E i \in DOMAIN c.x :
       c.x[i] = "ud" \/ (c.x[i] = "c" /\ i < Len(c.x))
  \/ c.op = "parse_cmdline" /\ c.x # <<>> /\ Last(c.x) = Space /\
       (Space \in ToSet(Front(c.x)) => At(c.x, Len(c.x) - 2) = Space)

(***************************************************************************)
(* Copies and fills reach all of what they are asked for and nothing else, *)
(* comparisons and searches agree with the order of strings, output is cut *)
(* to its buffer and nowhere else, and numbers are written in full: init   *)
(* sees the options that the command line has.                             *)
(***************************************************************************)
TextExact ==
  LET c == call
      r == result
  IN call # Idle /\ ~Otherwise(call) =>
     CASE c.op \in {"memcpy", "memmove"} -> r = Move(Memory, c.x, c.y, c.n)
       [] c.op = "memset" ->
            r = [a \in DOMAIN Memory |-> IF a - c.x \in 0 .. c.n - 1 THEN c.y ELSE a]
       [] c.op = "strcmp" -> Sign(r) = Order(c.x, c.y)
       [] c.op = "strncmp" -> Sign(r) = Order(Take(c.x, c.n), Take(c.y, c.n))
       [] c.op = "strstr" ->
            LET at == {p \in 0 .. Len(c.x) : Take(Drop(c.x, p), Len(c.y)) = c.y}
            IN r = IF at = {} THEN NULL ELSE Min(at)
       [] c.op = "strspn" -> /\ ToSet(Take(c.x, r)) \subseteq ToSet(c.y)
                             /\ r < Len(c.x) => c.x[r + 1] \notin ToSet(c.y)
       [] c.op = "strncpy" -> \A i \in 1 .. c.n : Len(r) = c.n /\ r[i] = At(c.x, i - 1)
       [] c.op = "vsnprintf" -> /\ r = Take(Formatted(c.x, c.args), c.n - 1)
                                /\ NumbersExact(c.args)
       [] c.op = "parse_cmdline" ->
            r = [k \in DOMAIN Words(c.x) |-> Pair(Words(c.x)[k])]
=============================================================================
