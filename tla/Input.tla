-------------------------------- MODULE Input --------------------------------
(***************************************************************************)
(* What is typed and what the mouse does, from the bytes of the devices to *)
(* what programs make of them: the interrupts and buffers of               *)
(* kernel/dev/pckbdmouse.c, and the modifiers and characters of            *)
(* lib/libkogata/keyboard.c.  Waiting for a buffer is in Gip.              *)
(*                                                                         *)
(* A key is its scan code, with 128 added if it is sent after 0xE0.  An    *)
(* event that finds the buffer full is lost, and with it what the program  *)
(* knows of that key.                                                      *)
(*                                                                         *)
(* Abstractions.  A character is the layer of the keymap it is taken from. *)
(* A byte of movement has ByteBits bits, and the mouse one button.         *)
(***************************************************************************)
EXTENDS Integers, FiniteSets, Sequences

CONSTANTS
  Typed,           \* the keys there are
  ralt_is_mod,
  PCKBD_BUF_LEN, PCMOUSE_BUF_LEN,
  ByteBits,
  Moves,           \* the movements of the mouse along an axis
  NoKey

\* Scan codes are bytes and none is the one of the escape; the rest are numbers.
InputAssumption ==
  /\ \A k \in Typed : k \in 0 .. 255 /\ k % 128 # 96
  /\ ralt_is_mod \in BOOLEAN
  /\ PCKBD_BUF_LEN \in Nat /\ PCMOUSE_BUF_LEN \in Nat
  /\ 2 ^ ByteBits \in Nat \ {0} /\ Moves \subseteq Int

VARIABLES
  wire,       \* bytes of the keyboard that are yet to interrupt
  down,       \* the keys that are held
  pckbd,      \* pckbd_buf, and pckbd_escaped
  kb,         \* the program's keyboard_t: status and key_char
  unknown,    \* history: keys of which the last event was lost
  crossed,    \* history: modifiers of which a key went up, and none down since,
              \* and that have another key
  said,       \* history: the character each key was last said to have typed
  packet,     \* bytes of the mouse that are yet to interrupt
  pcmouse,    \* mouse_byte and pcmouse_buf
  hand,       \* the button, as it is and as the program knows it, and the
              \* movements that the program has not read
  dropped     \* history: a packet gave no event

kbd_vars == <<wire, down, pckbd, kb, unknown, crossed, said>>
mouse_vars == <<packet, pcmouse, hand, dropped>>
vars == <<kbd_vars, mouse_vars>>

\* Modifiers that are on while a key is down
Group ==
  [m \in {"shift", "ctrl", "super", "alt", "mod"} |->
     CASE m = "shift" -> {42, 54}
       [] m = "ctrl" -> {29, 157}
       [] m = "super" -> {219, 220}
       [] m = "alt" -> IF ralt_is_mod THEN {56} ELSE {56, 184}
       [] m = "mod" -> IF ralt_is_mod THEN {184} ELSE {}]
CAPSLOCK == 58
Of(k) == {m \in DOMAIN Group : k \in Group[m]}

Init ==
  /\ wire = <<>>
  /\ down = {}
  /\ pckbd = [buf |-> <<>>, escaped |-> FALSE]
  /\ kb = [status |-> {}, key_char |-> [k \in Typed |-> NoKey], up |-> NoKey, chr |-> NoKey]
  /\ unknown = {} /\ crossed = {} /\ said = [k \in Typed |-> NoKey]
  /\ packet = <<>>
  /\ pcmouse = [byte |-> <<>>, buf |-> <<>>]
  /\ hand = [lbtn |-> FALSE, moved |-> <<>>, known |-> FALSE]
  /\ dropped = FALSE

-----------------------------------------------------------------------------
\* The keyboard sends a key that is pressed or released, or that is held and
\* repeats.
Bytes(k, press) ==
  (IF k >= 128 THEN <<224>> ELSE <<>>) \o <<(k % 128) + (IF press THEN 0 ELSE 128)>>
Type(k, press) ==
  /\ wire = <<>>
  /\ press \/ k \in down
  /\ wire' = Bytes(k, press)
  /\ down' = IF press THEN down \cup {k} ELSE down \ {k}
  /\ UNCHANGED <<pckbd, kb, unknown, crossed, said, mouse_vars>>

\* The code of an event.  The mutation forgets that a release was escaped.
Scancode_Plain(b, escaped) == IF b >= 128 THEN b - 128 ELSE b + (IF escaped THEN 128 ELSE 0)
Scancode(b, escaped) == (b % 128) + (IF escaped THEN 128 ELSE 0)

irq1_handler ==
  /\ wire # <<>>
  /\ wire' = Tail(wire)
  /\ LET b == Head(wire)
         k == Scancode(b, pckbd.escaped)
         room == Len(pckbd.buf) < PCKBD_BUF_LEN
     IN
     IF b = 224
       THEN pckbd' = [pckbd EXCEPT !.escaped = TRUE] /\ UNCHANGED unknown
       ELSE /\ pckbd' = [buf |-> IF room THEN Append(pckbd.buf, [k |-> k, press |-> b < 128])
                                         ELSE pckbd.buf,
                         escaped |-> FALSE]
            /\ unknown' = IF room THEN unknown \ {k} ELSE unknown \cup {k}
  /\ UNCHANGED <<down, kb, crossed, said, mouse_vars>>

key_chr(status) ==
  CASE "mod" \in status -> IF status \cap {"shift", "caps"} # {} THEN "shiftmod" ELSE "mod"
    [] "mod" \notin status /\ {"shift", "caps"} \subseteq status -> "shiftcaps"
    [] OTHER -> IF "shift" \in status THEN "shift"
                ELSE IF "caps" \in status THEN "caps" ELSE "normal"

\* Keys with an entry in ctrlkeys, and all those from 128 on, have no character.
HasChar(k) == k < 128 /\ Of(k) = {} /\ k # CAPSLOCK

Toggled(status) == IF "caps" \in status THEN status \ {"caps"} ELSE status \cup {"caps"}
keyboard_press(k) ==
  LET st == IF ralt_is_mod /\ k = CAPSLOCK THEN Toggled(kb.status) ELSE kb.status \cup Of(k)
      chr == IF HasChar(k) THEN key_chr(st) ELSE NoKey
  IN
  /\ kb' = [status |-> st, up |-> NoKey, chr |-> chr,
            key_char |-> IF HasChar(k) THEN [kb.key_char EXCEPT ![k] = chr] ELSE kb.key_char]
  /\ said' = IF HasChar(k) THEN [said EXCEPT ![k] = chr] ELSE said

\* The mutation looks the character up again.
Released_Again(k) == key_chr(kb.status)
Released(k) == kb.key_char[k]
keyboard_release(k) ==
  /\ kb' = [kb EXCEPT !.status = @ \ Of(k), !.up = k,
                      !.chr = IF HasChar(k) THEN Released(k) ELSE NoKey]
  /\ UNCHANGED said

\* pckbd_read() of an event, and what the program does with it
pckbd_read ==
  /\ pckbd.buf # <<>>
  /\ LET e == Head(pckbd.buf) IN
     /\ pckbd' = [pckbd EXCEPT !.buf = Tail(@)]
     /\ IF e.press THEN keyboard_press(e.k) ELSE keyboard_release(e.k)
     /\ crossed' = IF e.press THEN crossed \ Of(e.k)
                   ELSE crossed \cup {m \in Of(e.k) : Group[m] \cap Typed # {e.k}}
  /\ UNCHANGED <<wire, down, unknown, mouse_vars>>

-----------------------------------------------------------------------------
\* The mouse sends its button and a movement, as a sign and ByteBits bits for
\* each axis; one that does not fit sets the bit of overflow.
Range == 2 ^ ByteBits
Low(d) == d % Range
Overflows(d) == d < -Range \/ d >= Range
Move(b, x, y) ==
  /\ packet = <<>>
  /\ packet' = <<[lbtn |-> b, xneg |-> x < 0, yneg |-> y < 0, over |-> Overflows(x) \/ Overflows(y)],
                 Low(x), Low(y)>>
  /\ hand' = [hand EXCEPT !.lbtn = b, !.moved = Append(@, <<x, y>>)]
  /\ UNCHANGED <<kbd_vars, pcmouse, dropped>>

\* A byte is a signed number; the sign of the movement adds the bits above it.
\* The mutation forgets to add them.
Signed(b) == IF b >= Range \div 2 THEN b - Range ELSE b
Delta_Short(b, neg) == Signed(b)
Delta(b, neg) == IF neg /\ Signed(b) >= 0 THEN Signed(b) - Range ELSE Signed(b)
irq12_handler ==
  LET bytes == Append(pcmouse.byte, Head(packet))
      head == bytes[1]
      fails == head.over \/ Len(pcmouse.buf) >= PCMOUSE_BUF_LEN
      ev == [x |-> Delta(bytes[2], head.xneg), y |-> Delta(bytes[3], head.yneg), lbtn |-> head.lbtn]
  IN
  /\ packet # <<>>
  /\ packet' = Tail(packet)
  /\ IF Len(bytes) < 3
       THEN pcmouse' = [pcmouse EXCEPT !.byte = bytes] /\ UNCHANGED <<hand, dropped>>
       ELSE /\ pcmouse' = [byte |-> <<>>, buf |-> IF fails THEN pcmouse.buf ELSE Append(pcmouse.buf, ev)]
            /\ hand' = [hand EXCEPT !.moved = IF fails THEN SubSeq(@, 1, Len(@) - 1) ELSE @]
            /\ dropped' = fails
  /\ UNCHANGED kbd_vars

\* pcmouse_read() of an event
pcmouse_read ==
  /\ pcmouse.buf # <<>>
  /\ pcmouse' = [pcmouse EXCEPT !.buf = Tail(@)]
  /\ hand' = [hand EXCEPT !.moved = Tail(@), !.known = Head(pcmouse.buf).lbtn]
  /\ UNCHANGED <<kbd_vars, packet, dropped>>

KbdNext ==
  \/ \E k \in Typed, press \in BOOLEAN : Type(k, press)
  \/ irq1_handler \/ pckbd_read
MouseNext ==
  \/ \E b \in BOOLEAN, x, y \in Moves : Move(b, x, y)
  \/ irq12_handler \/ pcmouse_read
Next == KbdNext \/ MouseNext

Spec == Init /\ [][Next]_vars

-----------------------------------------------------------------------------
\* When everything is read, a modifier is on only if a key of it is held, and
\* off only if none is, or if the other one of two was let go of, whatever was
\* lost of keys that are since known again.  A key goes up as the character it
\* went down as, whatever the modifiers have become.
KeyboardExact ==
  /\ wire = <<>> /\ pckbd.buf = <<>> =>
       \A m \in DOMAIN Group : Group[m] \cap unknown = {} =>
         IF m \in kb.status THEN Group[m] \cap down # {}
                            ELSE Group[m] \cap down = {} \/ m \in crossed
  /\ kb.up # NoKey /\ kb.chr # NoKey => kb.chr = said[kb.up]

\* A movement to the right or up by more than a signed byte holds is read as one
\* to the other side.
Misread(d) == d >= Range \div 2

\* Movements are read in their order and as they were made, but for those, and a
\* program that has read everything knows the button, unless the last packet
\* was dropped.
MouseExact ==
  /\ \A i \in 1 .. Len(pcmouse.buf) :
       LET e == pcmouse.buf[i]
           d == hand.moved[i]
       IN /\ e.x = d[1] \/ Misread(d[1])
          /\ e.y = d[2] \/ Misread(d[2])
  /\ packet = <<>> /\ pcmouse.buf = <<>> /\ ~ dropped => hand.known = hand.lbtn
=============================================================================
