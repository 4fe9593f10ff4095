-------------------------------- MODULE Draw --------------------------------
(***************************************************************************)
(* Clipping in the drawing library, lib/libkogata/draw.c.  A call paints a *)
(* set of pixels; one that is outside of the framebuffer is memory of      *)
(* something else.  Colours are left out, and the layout of a pixel but    *)
(* for that of a copy: "same", also when transparent pixels of 32 bits go  *)
(* to some of 32, "rgba24" for those that go to 24, and "other".  A copy   *)
(* is the set of <<x, y, x', y'>>, where x', y' is the source's pixel.     *)
(***************************************************************************)
EXTENDS Integers

CONSTANTS
  Width, Height,         \* geom of the framebuffer
  SrcWidth, SrcHeight,   \* geom of the one that is copied from
  CharW, CharH,          \* size of a character; 8 wide in the code
  Regions,               \* the regions calls are made with, [x, y, w, h]
  Coords, Lengths        \* the arguments of calls

VARIABLES call, painted

vars == <<call, painted>>

Least(a, b) == IF a < b THEN a ELSE b
Span(from, len) == from .. from + len - 1
Pixels(x, y, w, h) == Span(x, w) \X Span(y, h)
Screen == Pixels(0, 0, Width, Height)
Whole == [x |-> 0, y |-> 0, w |-> Width, h |-> Height]
Source == [x |-> 0, y |-> 0, w |-> SrcWidth, h |-> SrcHeight]

\* What all of the functions do to a start and a length: cut what is negative,
\* and what is beyond max, where a length is found to be too long if it is
\* beyond limit.  The mutation forgets to shorten what it moves.
Shortened_Not(from, len) == len
Shortened(from, len) == IF from < 0 THEN len + from ELSE len
Clip(from, len, limit, max) ==
  LET f == IF from < 0 THEN 0 ELSE from
      n == Shortened(from, len)
  IN [from |-> f, len |-> IF f + n > limit THEN max - f ELSE n]
Across(x, w) == Clip(x, w, Width, Width)
Down(y, h) == Clip(y, h, Height, Height)

g_plot(x, y) == {<<x, y>>} \cap Screen
g_hline(x, y, w) ==
  LET c == Across(x, w) IN
  IF y \in 0 .. Height - 1 THEN Span(c.from, c.len) \X {y} ELSE {}

\* The limit of a vertical line is the width.
g_vline(x, y, h) ==
  LET c == Clip(y, h, Width, Height) IN
  IF x \in 0 .. Width - 1 /\ c.from < Height THEN {x} \X Span(c.from, c.len) ELSE {}
g_rect(x, y, w, h) ==
  UNION {g_hline(x, y, w), g_hline(x, y + h - 1, w), g_vline(x, y, h), g_vline(x + w - 1, y, h)}
g_fillrect(x, y, w, h) ==
  LET a == Across(x, w)
      d == Down(y, h)
  IN Span(a.from, a.len) \X Span(d.from, d.len)

\* The same within a region
g_region_plot(r, x, y) ==
  IF x \in 0 .. r.w - 1 /\ y \in 0 .. r.h - 1 THEN g_plot(x + r.x, y + r.y) ELSE {}
g_region_hline(r, x, y, w) ==
  LET c == Clip(x, w, r.w, r.w) IN
  IF c.len > 0 /\ y \in 0 .. r.h - 1 THEN g_hline(r.x + c.from, r.y + y, c.len) ELSE {}
g_region_vline(r, x, y, h) ==
  LET c == Clip(y, h, r.h, r.h) IN
  IF c.len > 0 /\ x \in 0 .. r.w - 1 THEN g_vline(r.x + x, r.y + c.from, c.len) ELSE {}
g_region_rect(r, x, y, w, h) ==
  UNION {g_region_hline(r, x, y, w), g_region_hline(r, x, y + h - 1, w),
         g_region_vline(r, x, y, h), g_region_vline(r, x + w - 1, y, h)}
g_region_fillrect(r, x, y, w, h) ==
  LET a == Clip(x, w, r.w, r.w)
      d == Clip(y, h, r.h, r.h)
  IN IF a.len > 0 /\ d.len > 0 THEN g_fillrect(a.from + r.x, d.from + r.y, a.len, d.len)
     ELSE {}

\* The pixels of a line that the copy of the i-th one to x writes: from 32 bits to
\* 24, lines begin at x * 4, and pixels of three bytes may lie across two.
Written(x, i, models) ==
  CASE models = "same" -> {x + i}
    [] models = "rgba24" -> {(4 * x + 3 * i + k) \div 3 : k \in 0 .. 2}
    [] models = "other" -> {}

\* Copies of the part s of the source; what has a negative argument is refused.
g_blit_region(x, y, s, models) ==
  LET w == Least(Least(s.w, SrcWidth - s.x), Width - x)
      h == Least(Least(s.h, SrcHeight - s.y), Height - y)
  IN IF x < 0 \/ y < 0 \/ s.w < 0 \/ s.h < 0 THEN {}
     ELSE UNION {{<<u, y + j, s.x + i, s.y + j>> : u \in Written(x, i, models)} :
                   i \in Span(0, w), j \in Span(0, h)}
g_region_blit_region(r, x, y, s, models) ==
  g_blit_region(x + r.x, y + r.y,
                [s EXCEPT !.w = Least(s.w, r.w - x), !.h = Least(s.h, r.h - y)], models)

\* n characters of a bitmap font, with all bits set
g_region_write(r, x, y, n) ==
  {p \in Pixels(x + r.x, y + r.y, n * CharW, CharH) \cap Screen :
     p[1] - r.x < r.w /\ p[2] - r.y < r.h}

-----------------------------------------------------------------------------
NoCall == [op |-> "none", r |-> Whole, x |-> 0, y |-> 0, w |-> 0, h |-> 0, models |-> "same"]

Paint(c) ==
  LET r == c.r
      x == c.x
      y == c.y
      w == c.w
      h == c.h
      part == [Source EXCEPT !.w = w, !.h = h]
  IN CASE c.op = "plot" -> IF r = Whole THEN g_plot(x, y) ELSE g_region_plot(r, x, y)
       [] c.op = "hline" -> IF r = Whole THEN g_hline(x, y, w) ELSE g_region_hline(r, x, y, w)
       [] c.op = "vline" -> IF r = Whole THEN g_vline(x, y, h) ELSE g_region_vline(r, x, y, h)
       [] c.op = "rect" -> IF r = Whole THEN g_rect(x, y, w, h)
                           ELSE g_region_rect(r, x, y, w, h)
       [] c.op = "fillrect" -> IF r = Whole THEN g_fillrect(x, y, w, h)
                               ELSE g_region_fillrect(r, x, y, w, h)
       [] c.op = "blit" -> IF r = Whole THEN g_blit_region(x, y, part, c.models)
                           ELSE g_region_blit_region(r, x, y, part, c.models)
       [] c.op = "write" -> g_region_write(r, x, y, w)

Init == call = NoCall /\ painted = {}

Draw ==
  /\ call = NoCall
  /\ \E op \in {"plot", "hline", "vline", "rect", "fillrect", "blit", "write"},
        r \in Regions \cup {Whole}, x, y \in Coords, w, h \in Lengths,
        models \in {"same", "rgba24", "other"} :
       /\ op = "plot" => w = 1 /\ h = 1
       /\ op = "hline" => h = 1
       /\ op = "vline" => w = 1
       /\ op = "write" => h = CharH
       /\ op # "blit" => models = "same"
       /\ call' = [op |-> op, r |-> r, x |-> x, y |-> y, w |-> w, h |-> h, models |-> models]
       /\ painted' = Paint(call')
Return == call # NoCall /\ call' = NoCall /\ painted' = {}

Next == Draw \/ Return

-----------------------------------------------------------------------------
\* The pixels a call asks for, before any clipping
Shape(c) ==
  LET x == c.x + c.r.x
      y == c.y + c.r.y
      all == Pixels(x, y, c.w, c.h)
  IN CASE c.op = "rect" -> {p \in all : \/ p[1] \in {x, x + c.w - 1}
                                        \/ p[2] \in {y, y + c.h - 1}}
       [] c.op = "write" -> Pixels(x, y, c.w * CharW, CharH)
       [] c.op = "blit" -> {<<x + i, y + j, i, j>> : i \in Span(0, Least(c.w, SrcWidth)),
                                                     j \in Span(0, Least(c.h, SrcHeight))}
       [] OTHER -> all
Visible(c, p) ==
  <<p[1], p[2]>> \in Screen \cap Pixels(c.r.x, c.r.y, c.r.w, c.r.h)

\* Calls for which the code does something else: a vertical line whose end is
\* between the width and the height; a copy or a text that begins left of its
\* region or above it; a copy to 24 bits that does not begin at a line's start, or
\* between models it does not know (draw.c:402, draw.c:420); a frame without inside.
Misdrawn(c) ==
  \/ c.op \in {"vline", "rect"} /\ \E y \in c.y + c.r.y .. c.y + c.r.y + c.h :
       (y > Width) # (y > Height)
  \/ (c.op = "blit" \/ (c.op = "write" /\ c.r # Whole)) /\ (c.x < 0 \/ c.y < 0)
  \/ c.op = "blit" /\ (c.x + c.r.x < 0 \/ c.y + c.r.y < 0)
  \/ c.models = "rgba24" /\ c.x + c.r.x > 0
  \/ c.models = "other"
  \/ c.op = "rect" /\ (c.w = 0 \/ c.h = 0)

(***************************************************************************)
(* A call paints exactly what it asks for of what is on the screen and in  *)
(* its region.                                                             *)
(***************************************************************************)
DrawExact ==
  call # NoCall /\ ~Misdrawn(call) => painted = {p \in Shape(call) : Visible(call, p)}
=============================================================================
