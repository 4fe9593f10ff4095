------------------------------ MODULE Terminal ------------------------------
(***************************************************************************)
(* The screen of the terminal, sysbin/terminal/main.c: the characters it   *)
(* holds, the cursor, and the picture it has drawn of them.  What the      *)
(* application and the user type goes through term_putc(), one character   *)
(* at a time; giosrv gives it a screen, and may give it one of another     *)
(* size.  The user may type before there is one.                           *)
(*                                                                         *)
(* Colours are left out: an escape sequence changes nothing else.          *)
(***************************************************************************)
EXTENDS Integers

CONSTANTS
  Sizes,       \* <<lines, columns>> of the modes, of two lines at least
  Letters,     \* printable characters
  Tab,         \* 8 in the code
  EscSize      \* the length of esc_seq, 10 in the code

VARIABLES
  term,        \* h, w, 0 before the first screen; chars: scr_chars; csrl, csrc;
               \* shown: the picture, by line and column, of characters and of the
               \* cursor's background, empty without a framebuffer; wild: an access
               \* outside of an array
  esc,         \* esc_seq_len
  overrun      \* history: a character came before the first screen, a tab has gone
               \* past the last column, a change of size has left the cursor outside,
               \* or a sequence was too long

vars == <<term, esc, overrun>>

Space == " "
Cells(h, w) == (0 .. h - 1) \X (0 .. w - 1)
Cursor(t) == <<t.csrl, t.csrc>>
Index(t, l, c) == l * t.w + c

\* term_draw_c(): nothing is to be seen of what is outside of the screen.
term_draw_c(t, l, c) ==
  IF Index(t, l, c) \notin DOMAIN t.chars THEN [t EXCEPT !.wild = TRUE]
  ELSE IF <<l, c>> \notin DOMAIN t.shown THEN t
  ELSE [t EXCEPT !.shown[<<l, c>>] = <<t.chars[Index(t, l, c)], <<l, c>> = Cursor(t)>>]

\* The mutation forgets to draw where the cursor was.
term_move_cursor_Once(t, l, c) == term_draw_c([t EXCEPT !.csrl = l, !.csrc = c], l, c)
term_move_cursor(t, l, c) ==
  LET moved == [t EXCEPT !.csrl = l, !.csrc = c]
  IN term_draw_c(term_draw_c(moved, t.csrl, t.csrc), l, c)

\* term_put_at() at columns cs of line l, which draws where there is a change
term_put_at(t, l, cs, ch) ==
  LET new == {c \in cs : Index(t, l, c) \in DOMAIN t.chars /\ t.chars[Index(t, l, c)] # ch}
  IN [t EXCEPT
        !.chars = [i \in DOMAIN @ |-> IF i \in {Index(t, l, c) : c \in new} THEN ch ELSE @[i]],
        !.shown = [x \in DOMAIN @ |-> IF x[1] = l /\ x[2] \in new THEN <<ch, x = Cursor(t)>>
                                      ELSE @[x]],
        !.wild = @ \/ \E c \in cs : Index(t, l, c) \notin DOMAIN t.chars]

\* The picture is moved up with the cursor in it: csrl follows.
term_scroll1(t) ==
  [t EXCEPT
     !.chars = [i \in DOMAIN @ |-> IF i + t.w \in DOMAIN @ THEN @[i + t.w] ELSE Space],
     !.csrl = @ - 1,
     !.shown = [x \in DOMAIN @ |-> IF x[1] < t.h - 1 THEN @[<<x[1] + 1, x[2]>>]
                                   ELSE <<Space, FALSE>>]]

term_clear_screen(t) ==
  term_move_cursor([t EXCEPT !.chars = [i \in DOMAIN @ |-> Space],
                             !.shown = [x \in DOMAIN @ |-> <<Space, FALSE>>]], 0, 0)

\* The end of term_putc(): the cursor goes to line l, column c, or to the next
\* line, which may have to be made.
Arrive(t, l, c) ==
  LET nl == IF c >= t.w THEN l + 1 ELSE l
      nc == IF c >= t.w THEN 0 ELSE c
  IN IF nl >= t.h THEN term_move_cursor(term_scroll1(t), nl - 1, nc)
     ELSE term_move_cursor(t, nl, nc)

-----------------------------------------------------------------------------
\* A screen with its framebuffer, and what is before the first buffer_info message:
\* scr_chars is 0.
Screen(s) == [h |-> s[1], w |-> s[2],
              chars |-> [i \in 0 .. s[1] * s[2] - 1 |-> Space],
              shown |-> [x \in Cells(s[1], s[2]) |-> <<Space, x = <<0, 0>> >>],
              csrl |-> 0, csrc |-> 0, wild |-> FALSE]
NoScreen == Screen(<<0, 0>>)
Init == term = NoScreen /\ esc = 0 /\ overrun = FALSE
TooEarly == DOMAIN term.chars = {}

NextTab(c) == CHOOSE d \in c .. c + Tab - 1 : d % Tab = 0

\* term_putc() outside of a sequence.  A tab on a tab stop does nothing.
Shown(l, c, t) == esc = 0 /\ term' = Arrive(t, l, c) /\ UNCHANGED esc
Letter ==
  /\ \E ch \in Letters :
       Shown(term.csrl, term.csrc + 1, term_put_at(term, term.csrl, {term.csrc}, ch))
  /\ overrun' = TooEarly
Newline == Shown(term.csrl + 1, 0, term) /\ overrun' = TooEarly
Return ==
  /\ Shown(term.csrl, 0, term_put_at(term, term.csrl, 0 .. term.csrc - 1, Space))
  /\ overrun' = TooEarly
Backspace ==
  /\ LET c == IF term.csrc > 0 THEN term.csrc - 1 ELSE 0
     IN Shown(term.csrl, c, term_put_at(term, term.csrl, {c}, Space))
  /\ overrun' = TooEarly
Tabulate ==
  LET c == NextTab(term.csrc) IN
  /\ Shown(term.csrl, c, term_put_at(term, term.csrl, term.csrc .. c - 1, Space))
  /\ overrun' = (c > term.w \/ TooEarly)
FormFeed ==
  esc = 0 /\ term' = term_clear_screen(term) /\ overrun' = TooEarly /\ UNCHANGED esc

\* A character of an escape sequence, which may go on after the second, a '[',
\* with digits and a ';'
Escape ==
  /\ term' = [term EXCEPT !.wild = @ \/ esc >= EscSize]
  /\ overrun' = (esc >= EscSize)
  /\ esc' \in IF esc = 0 THEN {1} ELSE {0, esc + 1}

\* gip_buffer_info(): the token gives nothing; a new screen, which is cleared with
\* the cursor still at its old place; or one that cannot be mapped, whose
\* characters are as malloc() has left them
BufferLost == term' = [term EXCEPT !.shown = <<>>] /\ UNCHANGED <<esc, overrun>>
BufferInfo ==
  \E s \in Sizes :
    LET new == [Screen(s) EXCEPT !.csrl = term.csrl, !.csrc = term.csrc] IN
    /\ \/ term' = term_clear_screen(new)
       \/ \E ch \in Letters : term' = [new EXCEPT !.chars = [i \in DOMAIN @ |-> ch], !.shown = <<>>]
    /\ overrun' = (Cursor(term) \notin Cells(s[1], s[2]))
    /\ UNCHANGED esc

Next ==
  /\ ~overrun
  /\ \/ Letter \/ Newline \/ Return \/ Backspace \/ Tabulate \/ FormFeed \/ Escape
     \/ BufferLost \/ BufferInfo

-----------------------------------------------------------------------------
(***************************************************************************)
(* Once there is a screen the cursor is on it; no array is accessed        *)
(* outside of it, and the picture, however it was scrolled and drawn in    *)
(* parts, is that of the characters and of one cursor.  Not so after a     *)
(* character that comes before the screen (main.c:363, where scr_chars is  *)
(* 0), a tab or a change of size that leaves the cursor outside, and a     *)
(* sequence that is too long.                                              *)
(***************************************************************************)
TerminalExact == ~overrun =>
  /\ ~term.wild /\ (TooEarly \/ Cursor(term) \in Cells(term.h, term.w))
  /\ \A x \in DOMAIN term.shown :
       term.shown[x] = <<term.chars[Index(term, x[1], x[2])], x = Cursor(term)>>
=============================================================================
