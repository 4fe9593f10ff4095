------------------------------ MODULE Windows -------------------------------
(***************************************************************************)
(* The window manager of syslua/lx/tk.lua on the screen, the pointer and   *)
(* the cursor of syslua/lx/gui.lua: what is redrawn when windows are added,*)
(* raised, moved, resized and scrolled, and which widget a button goes to. *)
(*                                                                         *)
(* A window's content is a widget that can be clicked, or a box that holds *)
(* one and can be resized and scrolled.  A pixel shows a window and where  *)
(* that window and its content were when it was drawn; what a window looks *)
(* like inside is left out.  Nothing sets a window's visible to false.     *)
(***************************************************************************)
EXTENDS Integers, Sequences, SequencesExt

CONSTANTS
  Width, Height,       \* gui.surface, which is the size of the root widget
  CursorW, CursorH,    \* gui.cursor
  Wins,                \* windows
  Programs,            \* the sets of windows that programs have
  Removable,           \* bound: those that programs may remove
  Boxes,               \* those of them whose content is a box
  InitGeom,            \* Wins -> where a window is added, [x, y, w, h]
  InnerW, InnerH,      \* the size of what a box holds
  CenterContent,       \* center_content of boxes
  Border, Title,       \* where a window's content is: 1 and 21 in the code
  Control,             \* control_size, 12 in the code
  Moves,               \* <<dx, dy>> of the mouse's events
  Limits,              \* bound: Wins -> x, y, and the content's size that are reached
  None

VARIABLES
  windows,             \* wm.windows: the last one is on top
  geom,                \* x, y, w, h of windows, which wm.window_pos repeats; cw, ch:
                       \* the content's size; cx, cy: content.x, content.y of a box
  status,              \* "none": of another program, "new", "added", "removed", or
                       \* "torn": removed while the mouse was held on it
  moving,              \* windows whose moving is set
  drag,                \* the box win that is resized or scrolled, or None: w, h, by
                       \* what it is larger than where the mouse is in it; from, at,
                       \* where the content was when the mouse was there
  mouse, buttons,      \* gui.mouse_x, mouse_y; the buttons that are down: gui's and wm's
  mouse_win,           \* wm.mouse_win
  valid,               \* windows whose innermost widget has left_click_valid
  surface, backup,     \* the pixels; cursor_backup: what the cursor hides
  both,                \* history: both buttons have been down since the mouse was free
  press, unsure, stray \* history: the widget the left button was last pressed on;
                       \* those that were valid when both buttons were down or another
                       \* window came; whether another one has been clicked

vars == <<windows, geom, status, moving, drag, mouse, buttons, mouse_win, valid,
          surface, backup, both, press, unsure, stray>>

-----------------------------------------------------------------------------
\* Rectangles
Rect(x, y, w, h) == [x |-> x, y |-> y, w |-> w, h |-> h]
Within(r, x, y) == x \in r.x .. r.x + r.w - 1 /\ y \in r.y .. r.y + r.h - 1
Pixels(r) == (r.x .. r.x + r.w - 1) \X (r.y .. r.y + r.h - 1)
Whole == Rect(0, 0, Width, Height)
Cursor(m) == Rect(m[1], m[2], CursorW, CursorH)
Least(a, b) == IF a < b THEN a ELSE b
Largest(a, b) == IF a < b THEN b ELSE a

\* A piece is joined to one at its left or above it, and the result again.
Left(p, r) == p.y = r.y /\ p.h = r.h /\ p.x + p.w = r.x
Above(p, r) == p.x = r.x /\ p.w = r.w /\ p.y + p.h = r.y
Joined(p, r) ==
  IF Left(p, r) THEN Rect(p.x, p.y, r.w + p.w, r.h) ELSE Rect(p.x, p.y, r.w, r.h + p.h)
RECURSIVE AddedTo(_, _, _)
AddedTo(i, pieces, r) ==
  IF i > Len(pieces) THEN Append(pieces, r)
  ELSE IF Left(pieces[i], r) \/ Above(pieces[i], r)
  THEN AddedTo(1, RemoveAt(pieces, i), Joined(pieces[i], r))
  ELSE AddedTo(i + 1, pieces, r)
add_region(pieces, r) == AddedTo(1, pieces, r)

\* The sel_fun of region_diff(), region_inter() and region_union()
Selected(op, a, b, x, y) ==
  CASE op = "diff" -> Within(a, x, y) /\ ~Within(b, x, y)
    [] op = "inter" -> Within(a, x, y) /\ Within(b, x, y)
    [] op = "union" -> Within(a, x, y) \/ Within(b, x, y)

\* The edges of two rectangles cut the plane, and the cells that are selected
\* are joined.  The mutation takes the edges of one for those of both.
Edges_First(a, b) == SortSeq(<<a[1], a[1] + a[2], a[1], a[1] + a[2]>>, LAMBDA s, t : s < t)
Edges(a, b) == SortSeq(<<a[1], a[1] + a[2], b[1], b[1] + b[2]>>, LAMBDA s, t : s < t)
Cell(xs, ys, i, j) == Rect(xs[i], ys[j], xs[i + 1] - xs[i], ys[j + 1] - ys[j])
Cells(xs, ys) == [n \in 1 .. 9 |-> Cell(xs, ys, ((n - 1) \div 3) + 1, ((n - 1) % 3) + 1)]
region_operation(op, a, b) ==
  LET Add(pieces, c) ==
        IF c.w > 0 /\ c.h > 0 /\ Selected(op, a, b, c.x, c.y) THEN add_region(pieces, c)
        ELSE pieces
  IN FoldLeft(Add, <<>>, Cells(Edges(<<a.x, a.w>>, <<b.x, b.w>>),
                               Edges(<<a.y, a.h>>, <<b.y, b.h>>)))
Pieces(op, a, b) == ToSet(region_operation(op, a, b))

-----------------------------------------------------------------------------
\* The screen, s: surface, backup, and whether the cursor is visible.  What
\* cursor_backup has for beyond the screen is left out.
Background == <<"background">>
Arrow == <<"cursor">>
Look(gs, w) == <<w, gs[w]>>
Hides(m) == Pixels(Cursor(m)) \cap Pixels(Whole)

hide_cursor(s) ==
  IF ~s.visible THEN s
  ELSE [s EXCEPT !.visible = FALSE,
          !.surface = [p \in DOMAIN @ |-> IF p \in DOMAIN s.backup THEN s.backup[p] ELSE @[p]]]
show_cursor(s, m) ==
  IF s.visible THEN s
  ELSE [visible |-> TRUE,
        backup |-> [p \in Hides(m) |-> s.surface[p]],
        surface |-> [p \in DOMAIN s.surface |-> IF p \in Hides(m) THEN Arrow
                                                ELSE s.surface[p]]]

\* wm:redraw() of the part r: the windows from the top, each in what is left
PiecesOf(op, left, g) == UNION {Pieces(op, reg, g) : reg \in left}
Covered(left) == UNION {Pixels(p) : p \in left}
Painted(surf, on, look) == [p \in DOMAIN surf |-> IF p \in on THEN look ELSE surf[p]]
Rest(drawn) == Painted(drawn.surf, Covered(drawn.left), Background)
redraw(surf, ws, gs, r) ==
  LET Draw(acc, w) ==
        [surf |-> Painted(acc.surf, Covered(PiecesOf("inter", acc.left, gs[w])), Look(gs, w)),
         left |-> PiecesOf("diff", acc.left, gs[w])]
  IN Rest(FoldLeft(Draw, [surf |-> surf, left |-> {r}], Reverse(ws)))

\* get_draw_buffer(), redraw() and finalize_draw_buffer() for each piece: the
\* cursor is hidden while something is drawn under it.  The mutation forgets it.
Hidden_Not(s, m, r) == s
Hidden(s, m, r) == IF Pieces("inter", r, Cursor(m)) # {} THEN hide_cursor(s) ELSE s
redraw_region(s, m, ws, gs, r) ==
  LET Drawn(t, p) == show_cursor([t EXCEPT !.surface = redraw(@, ws, gs, p)], m)
      One(t, p) == Drawn(Hidden(t, m, p), p)
  IN FoldLeft(One, s, region_operation("inter", Whole, r))

Present == [surface |-> surface, backup |-> backup, visible |-> TRUE]
Shows(s) == surface' = s.surface /\ backup' = s.backup

\* The window w was where geom says, and is where gs says: both are redrawn.
\* The mutation forgets where it was.
Changed_New(a, b) == <<b>>
Changed(a, b) == region_operation("union", a, b)
redraw_both(s, m, ws, gs, w) ==
  FoldLeft(LAMBDA t, p : redraw_region(t, m, ws, gs, p), s, Changed(geom[w], gs[w]))

-----------------------------------------------------------------------------
\* Boxes: what becomes of g, the geometry of a window, and of drag

BarSize(in, out) == ((out - Control) * out) \div in
BarAvail(in, out) == out - Control - BarSize(in, out)
BarPos(pos, in, out) == (-pos * BarAvail(in, out)) \div (in - out)

\* A position of the content that leaves no gap where it is larger than the box
InBox(pos, in, out) == Least(0, Largest(-(in - out), pos))
move_content(g, x, y) ==
  [g EXCEPT !.cx = IF x = None THEN @ ELSE InBox(x, InnerW, g.cw),
            !.cy = IF y = None THEN @ ELSE InBox(y, InnerH, g.ch)]

Centered(pos, in, out) ==
  IF ~CenterContent THEN pos ELSE IF out > in THEN (out - in) \div 2 ELSE InBox(pos, in, out)
resize(g, w, h) ==
  [g EXCEPT !.cw = w, !.ch = h, !.cx = Centered(@, InnerW, w), !.cy = Centered(@, InnerH, h)]

\* The left button at x, y of the box of w: the corner, beside the bar or on it
OnCorner(g, x, y) == x >= g.cw - Control /\ y >= g.ch - Control
OnVbar(g, x, y) == ~OnCorner(g, x, y) /\ x >= g.cw - Control /\ g.ch < InnerH
OnHbar(g, x, y) ==
  ~OnCorner(g, x, y) /\ ~OnVbar(g, x, y) /\ y >= g.ch - Control /\ g.cw < InnerW
Before(at, pos, in, out) == at < BarPos(pos, in, out)
After(at, pos, in, out) ==
  ~Before(at, pos, in, out) /\ at >= BarPos(pos, in, out) + BarSize(in, out)
Jump(at, pos, in, out) ==
  IF Before(at, pos, in, out) THEN pos + (out * 2) \div 3
  ELSE IF After(at, pos, in, out) THEN pos - (out * 2) \div 3
  ELSE None
BoxDown(w, x, y) ==
  LET g == geom[w]
      v == Jump(y, g.cy, InnerH, g.ch)
      h == Jump(x, g.cx, InnerW, g.cw)
      Begin(d) == [g |-> g, drag |-> d]
      Moved(cx, cy) == [g |-> move_content(g, cx, cy), drag |-> drag]
  IN CASE OnCorner(g, x, y) ->
            Begin([kind |-> "resizing", win |-> w, w |-> g.cw - x, h |-> g.ch - y])
       [] OnVbar(g, x, y) ->
            IF v # None THEN Moved(None, v)
            ELSE Begin([kind |-> "vscrolling", win |-> w, from |-> g.cy, at |-> y])
       [] OnHbar(g, x, y) ->
            IF h # None THEN Moved(h, None)
            ELSE Begin([kind |-> "hscrolling", win |-> w, from |-> g.cx, at |-> x])
OnControl(w, x, y) ==
  w \in Boxes /\ (OnCorner(geom[w], x, y) \/ OnVbar(geom[w], x, y) \/ OnHbar(geom[w], x, y))

\* The mouse moves to x, y of the box that is dragged.
Scrolled(pos, by, in, out) == pos - (by * (in - out)) \div BarAvail(in, out)
BoxMove(g, x, y) ==
  CASE drag.kind = "resizing" -> resize(g, drag.w + x, drag.h + y)
    [] drag.kind = "vscrolling" ->
         move_content(g, None, Scrolled(drag.from, y - drag.at, InnerH, g.ch))
    [] drag.kind = "hscrolling" ->
         move_content(g, Scrolled(drag.from, x - drag.at, InnerW, g.cw), None)

\* win:child_resized(), unless the window has been removed
child_resized(w, g) ==
  IF status[w] # "added" THEN g
  ELSE [g EXCEPT !.w = g.cw + 2 * Border, !.h = g.ch + Title + Border]
BoxChanged(s, m, ws, w, g) ==
  IF status[w] # "added" \/ g = geom[w] THEN s
  ELSE redraw_both(s, m, ws, [geom EXCEPT ![w] = child_resized(w, g)], w)

-----------------------------------------------------------------------------
find_win(m) ==
  LET i == SelectLastInSeq(windows, LAMBDA w : Within(geom[w], m[1], m[2]))
  IN IF i = 0 THEN None ELSE windows[i]

\* The window that gets what the mouse does: the mutation forgets that a button
\* is held on one.
Target_Under(m) == find_win(m)
Target(m) == IF mouse_win # None THEN mouse_win ELSE find_win(m)

AddedGeom(w) ==
  LET g == InitGeom[w] IN
  [x |-> g.x, y |-> g.y, w |-> g.w + 2 * Border, h |-> g.h + Title + Border,
   cw |-> g.w, ch |-> g.h, cx |-> 0, cy |-> 0]

\* After gui.show_cursor() and tk.init() with a window manager
Init ==
  /\ windows = <<>>
  /\ geom = [w \in Wins |-> AddedGeom(w)]
  /\ \E P \in Programs : status = [w \in Wins |-> IF w \in P THEN "new" ELSE "none"]
  /\ moving = {} /\ drag = None
  /\ mouse = <<0, 0>> /\ buttons = {} /\ mouse_win = None
  /\ valid = {}
  /\ surface = [p \in Pixels(Whole) |-> IF p \in Hides(mouse) THEN Arrow ELSE Background]
  /\ backup = [p \in Hides(mouse) |-> Background]
  /\ both = FALSE /\ press = None /\ unsure = {} /\ stray = FALSE

\* wm:add(), with wm:redraw_win()
add(w) ==
  /\ status[w] = "new"
  /\ status' = [status EXCEPT ![w] = "added"]
  /\ windows' = Append(windows, w)
  /\ Shows(redraw_region(Present, mouse, windows', geom, geom[w]))
  /\ unsure' = unsure \cup valid
  /\ UNCHANGED <<geom, moving, drag, mouse, buttons, mouse_win, valid,
                 both, press, stray>>

\* wm:remove(): nothing is redrawn.
remove(w) ==
  /\ w \in Removable /\ status[w] = "added"
  /\ status' = [status EXCEPT ![w] = IF mouse_win = w THEN "torn" ELSE "removed"]
  /\ windows' = SelectSeq(windows, LAMBDA v : v # w)
  /\ unsure' = unsure \cup valid
  /\ UNCHANGED <<geom, moving, drag, mouse, buttons, mouse_win, valid, surface, backup,
                 both, press, stray>>

\* gui.on_mouse() with a movement: the window manager's on_mouse_move()
MoveMouse(d) ==
  LET new == <<Largest(0, Least(Width - 1, mouse[1] + d[1])),
               Largest(0, Least(Height - 1, mouse[2] - d[2]))>>
      s == show_cursor(hide_cursor(Present), new)
      on == Target(mouse)
      g == geom[on]
      moved == [geom EXCEPT ![on].x = @ + new[1] - mouse[1], ![on].y = @ + new[2] - mouse[2]]
      box == BoxMove(g, new[1] - g.x - Border, new[2] - g.y - Title)
  IN /\ mouse' = new
     /\ CASE on = None -> Shows(s) /\ UNCHANGED <<geom, valid, unsure>>
          [] on # None /\ on \in moving ->
               /\ geom' = moved
               /\ Shows(redraw_both(s, new, windows, moved, on))
               /\ UNCHANGED <<valid, unsure>>
          [] on # None /\ on \notin moving /\ drag # None /\ drag.win = on ->
               /\ geom' = [geom EXCEPT ![on] = IF box = g THEN g ELSE child_resized(on, box)]
               /\ Shows(BoxChanged(s, new, windows, on, box))
               /\ UNCHANGED <<valid, unsure>>
          [] OTHER -> /\ valid' = valid \ {on} /\ unsure' = unsure \ {on}
                      /\ Shows(s)
                      /\ UNCHANGED geom
     /\ \A w \in Wins : /\ geom'[w].x \in Limits[w].x /\ geom'[w].y \in Limits[w].y
                        /\ geom'[w].cw \in Limits[w].w /\ geom'[w].ch \in Limits[w].h
     /\ UNCHANGED <<windows, status, moving, drag, buttons, mouse_win, both, press, stray>>

\* wm:on_mouse_down(): the window comes to the top, also one that was removed.
Raised(w) ==
  IF w = None \/ (windows # <<>> /\ Last(windows) = w) THEN windows
  ELSE Append(SelectSeq(windows, LAMBDA v : v # w), w)
MouseDown(b) ==
  LET w == Target(mouse)
      left == b = "left"
      ws == Raised(w)
      s == IF ws = windows THEN Present
           ELSE redraw_region(Present, mouse, ws, geom, geom[w])
      x == mouse[1] - geom[w].x - Border
      y == mouse[2] - geom[w].y - Title
      title == left /\ y < Border
      box == BoxDown(w, x, y)
  IN /\ b \notin buttons
     /\ buttons' = buttons \cup {b}
     /\ mouse_win' = w
     /\ windows' = ws
     /\ CASE w = None \/ ~left ->
               /\ Shows(s) /\ UNCHANGED <<geom, moving, drag, valid>>
               /\ press' = IF left THEN None ELSE press
          [] w # None /\ title ->
               /\ moving' = moving \cup {w} /\ press' = None
               /\ Shows(s) /\ UNCHANGED <<geom, drag, valid>>
          [] w # None /\ left /\ ~title /\ OnControl(w, x, y) ->
               /\ geom' = [geom EXCEPT ![w] = IF box.g = @ THEN @ ELSE child_resized(w, box.g)]
               /\ drag' = box.drag /\ press' = None
               /\ Shows(BoxChanged(s, mouse, ws, w, box.g))
               /\ UNCHANGED <<moving, valid>>
          [] OTHER -> /\ valid' = valid \cup {w} /\ press' = w
                      /\ Shows(s) /\ UNCHANGED <<geom, moving, drag>>
     /\ both' = (both \/ buttons # {})
     /\ unsure' = IF buttons # {} THEN unsure \cup valid' ELSE unsure \ {press'}
     /\ UNCHANGED <<status, mouse, stray>>

\* wm:on_mouse_up(): the button that is released may be another one than that
\* which the window is moved with.
MouseUp(b) ==
  LET w == Target(mouse)
      left == b = "left"
      ends == left /\ w # None /\ w \notin moving /\ drag # None /\ drag.win = w
      click == left /\ w # None /\ w \notin moving /\ ~ends /\ w \in valid
  IN /\ b \in buttons
     /\ buttons' = buttons \ {b}
     /\ mouse_win' = IF buttons' = {} THEN None ELSE mouse_win
     /\ both' = (both /\ buttons' # {})
     /\ moving' = moving \ {w}
     /\ drag' = IF ends THEN None ELSE drag
     /\ stray' = (stray \/ (click /\ press # w /\ w \notin unsure))
     /\ press' = IF left THEN None ELSE press
     /\ UNCHANGED <<windows, geom, status, mouse, valid, surface, backup, unsure>>

Next ==
  \/ \E w \in Wins : add(w) \/ remove(w)
  \/ \E d \in Moves : MoveMouse(d)
  \/ \E b \in {"left", "right"} : MouseDown(b) \/ MouseUp(b)

-----------------------------------------------------------------------------
\* What is to be seen at p, if it were all drawn now
Expected(p) ==
  LET w == find_win(p) IN IF w = None THEN Background ELSE Look(geom, w)
Gone(v) == Len(v) = 2 /\ status[v[1]] # "added"

\* The screen shows the windows as they are, and the cursor hides what belongs
\* under it; only of windows that were removed may something be left.
PictureExact ==
  \A p \in Pixels(Whole) :
    LET v == IF p \in Hides(mouse) THEN backup[p] ELSE surface[p]
    IN (v = Expected(p) \/ Gone(v)) /\ (p \in Hides(mouse) => surface[p] = Arrow)

\* A window is moved as long as the pointer is on it, if it was grabbed with one
\* button, and nothing goes on after the buttons; a removed window comes back
\* only if it was removed while the mouse was held on it.
FocusExact ==
  /\ \A w \in moving : mouse_win = w /\ (both \/ Within(geom[w], mouse[1], mouse[2]))
  /\ drag # None => mouse_win = drag.win
  /\ buttons = {} => moving = {} /\ drag = None /\ mouse_win = None
  /\ \A w \in Wins : status[w] \in {"new", "removed"} => w \notin ToSet(windows)

\* The content of a box with center_content is never scrolled out of it.
ScrollExact ==
  CenterContent => \A w \in Boxes : LET g == geom[w] IN
    /\ g.cw <= InnerW => g.cx \in -(InnerW - g.cw) .. 0
    /\ g.ch <= InnerH => g.cy \in -(InnerH - g.ch) .. 0

(***************************************************************************)
(* The picture, what the mouse holds and the scrolled content are right,   *)
(* and with one button a widget is clicked only if it has been pressed.    *)
(***************************************************************************)
WindowsExact == PictureExact /\ FocusExact /\ ScrollExact /\ ~stray
=============================================================================
