-------------------------------- MODULE Stdio --------------------------------
(***************************************************************************)
(* The buffered output of the C library, lib/libc/stdio.c: one FILE, open  *)
(* for reading and writing, on a regular file, where the library keeps the *)
(* position, or on a channel, which may take a part of a write.            *)
(*                                                                         *)
(* text and place are what the program means: what the file should hold    *)
(* after its calls, and where it stands.  A byte is a number; NL ends a    *)
(* line.  A FILE belongs to one thread, so a call is one step.  A buffer   *)
(* that setvbuf() takes from the program has BUFSIZ bytes, as the library  *)
(* assumes whatever size it is told.                                       *)
(***************************************************************************)
EXTENDS Integers, Sequences

CONSTANTS
  BUFSIZ,      \* 256 in the code
  Bytes, NL,
  MaxText      \* bound of what the program writes

VARIABLES
  type,        \* st.type: "regular" or "channel"
  st_size,     \* st.size, as it was when the file was opened
  stream,      \* what the calls change of the file and of the FILE, see Open
  text, place,
  lost         \* history: the program can no longer tell what it has written

vars == <<type, st_size, stream, text, place, lost>>

Regular == type = "regular"

\* fopen(): the contents of the file, or all that the channel has taken; the
\* position, at the end for FM_APPEND; the buffer; its mode, 0 if there was no
\* memory for it; failed: the last fflush() has not written all; stopped: an
\* assertion of buffered_putc() has failed.
Open(pos, buf_mode) ==
  [file |-> [i \in 1 .. st_size |-> NL], pos |-> pos, out_buf |-> <<>>,
   buf_mode |-> buf_mode, writable |-> buf_mode # "none",
   failed |-> FALSE, repeats |-> FALSE, stopped |-> FALSE]

Init ==
  /\ type \in {"regular", "channel"}
  /\ st_size \in 0 .. 1 /\ (type = "channel" => st_size = 0)
  /\ \E pos \in 0 .. st_size, mode \in {"_IOLBF", "none"} : stream = Open(pos, mode)
  /\ text = stream.file /\ place = stream.pos /\ lost = FALSE

\* The contents f after s was written at p
Written(f, p, s) ==
  IF Regular THEN SubSeq(f, 1, p) \o s \o SubSeq(f, p + Len(s) + 1, Len(f)) ELSE f \o s
Moved(p, n) == IF Regular THEN p + n ELSE p

\* fflush(): what the stream may be after it.  A channel that has taken a part
\* will be sent it again.  The mutation keeps what has been written.
Emptied_Not(buf) == buf
Emptied(buf) == <<>>
fflush(s) ==
  LET used == Len(s.out_buf) IN
  IF ~s.writable \/ used = 0 THEN {[s EXCEPT !.failed = FALSE]}
  ELSE {[s EXCEPT
           !.file = Written(@, s.pos, SubSeq(s.out_buf, 1, n)),
           !.pos = IF n = used THEN Moved(@, n) ELSE @,
           !.out_buf = IF n = used THEN Emptied(@) ELSE @,
           !.failed = n < used,
           !.repeats = @ \/ (~Regular /\ n \in 1 .. used - 1)] : n \in 0 .. used}

\* buffered_putc(): it asserts that there is room.
Full(s) == Len(s.out_buf) >= BUFSIZ
MustFlush(s, c) == Full(s) \/ (s.buf_mode = "_IOLBF" /\ c = NL)
buffered_putc(s, c) ==
  IF s.stopped THEN {s}
  ELSE IF Full(s) THEN {[s EXCEPT !.stopped = TRUE]}
  ELSE LET t == [s EXCEPT !.out_buf = Append(@, c)]
       IN IF MustFlush(t, c) THEN fflush(t) ELSE {t}

-----------------------------------------------------------------------------
Says(s) == text' = Written(text, place, s) /\ place' = Moved(place, Len(s))
Lost(s) == lost' = s.repeats

\* fputs(), fputc() for a string of one, vfprintf() for what it has formatted
AtEnd(s) == IF s.buf_mode = "_IONBF" /\ ~s.stopped THEN fflush(s) ELSE {s}
fputs(cs) ==
  /\ stream.writable /\ Len(text) + Len(cs) <= MaxText /\ Says(cs)
  /\ \E s \in buffered_putc(stream, cs[1]) :
       \E t \in IF Len(cs) = 2 THEN buffered_putc(s, cs[2]) ELSE {s} :
         stream' \in AtEnd(t)
  /\ Lost(stream') /\ UNCHANGED <<type, st_size>>

\* fclose(), which fails with fflush(), and fflush() itself
Flush ==
  /\ stream' \in fflush(stream) /\ Lost(stream')
  /\ UNCHANGED <<type, st_size, text, place>>

\* fwrite() goes past the buffer and says how much it has written.
fwrite(cs) ==
  /\ stream.writable /\ Len(text) + Len(cs) <= MaxText
  /\ \E s \in fflush(stream) :
       \/ s.failed /\ stream' = s /\ UNCHANGED <<text, place>>
       \/ /\ ~s.failed
          /\ \E n \in 0 .. Len(cs) :
               /\ stream' = [s EXCEPT !.file = Written(@, s.pos, SubSeq(cs, 1, n)),
                                      !.pos = Moved(@, n)]
               /\ Says(SubSeq(cs, 1, n))
  /\ Lost(stream') /\ UNCHANGED <<type, st_size>>

\* fread() of n bytes that are there
fread(n) ==
  /\ Regular
  /\ \E s \in fflush(stream) :
       \/ s.failed /\ stream' = s /\ UNCHANGED place
       \/ /\ ~s.failed /\ s.pos + n <= Len(s.file)
          /\ stream' = [s EXCEPT !.pos = @ + n] /\ place' = place + n
  /\ Lost(stream') /\ UNCHANGED <<type, st_size, text>>

\* fsetpos(), which ignores that its fflush() fails.  fseek() computes to from
\* pos, without what is pending, or from st.size, which is never updated, while
\* the program means meant.
fsetpos(to, meant) ==
  /\ Regular
  /\ \E s \in fflush(stream) :
       IF to \in 0 .. st_size
       THEN /\ stream' = [s EXCEPT !.pos = to] /\ place' = meant
            /\ lost' = (to # meant \/ s.failed)
       ELSE stream' = s /\ UNCHANGED place /\ Lost(stream')
  /\ UNCHANGED <<type, st_size, text>>
fseek(offset) ==
  \/ fsetpos(offset, offset)                          \* SEEK_SET, rewind()
  \/ fsetpos(stream.pos + offset, place + offset)     \* SEEK_CUR
  \/ fsetpos(st_size + offset, Len(text) + offset)    \* SEEK_END

\* setvbuf(): a new buffer, if there is memory for it
setvbuf(mode) ==
  /\ stream.writable
  /\ \E s \in fflush(stream) :
       stream' \in IF s.failed THEN {s}
                   ELSE {[s EXCEPT !.buf_mode = mode],
                         [s EXCEPT !.buf_mode = "none", !.writable = FALSE]}
  /\ Lost(stream') /\ UNCHANGED <<type, st_size, text, place>>

Next ==
  /\ ~lost /\ ~stream.stopped
  /\ \/ \E a \in Bytes \cup {NL} : fputs(<<a>>) \/ \E b \in Bytes : fputs(<<a, b>>)
     \/ Flush
     \/ \E a, b \in Bytes : fwrite(<<a, b>>)
     \/ \E n \in 1 .. 2 : fread(n)
     \/ \E offset \in -1 .. 1 : fseek(offset)
     \/ \E mode \in {"_IOLBF", "_IOFBF", "_IONBF"} : setvbuf(mode)

-----------------------------------------------------------------------------
(***************************************************************************)
(* What the file holds and what waits in the buffer are together what the  *)
(* program has written, where it has written it, and an assertion fails    *)
(* only after a write that was short.  The program is lost when a channel  *)
(* is sent a part twice, when a seek leaves output behind, and when it     *)
(* seeks relative to pos or st.size, which do not know of its output.      *)
(***************************************************************************)
StdioExact ==
  /\ ~lost /\ ~stream.stopped =>
       /\ Written(stream.file, stream.pos, stream.out_buf) = text
       /\ Moved(stream.pos, Len(stream.out_buf)) = place
  /\ Full(stream) => stream.failed
  /\ stream.stopped => stream.failed
=============================================================================
