-------------------------------- MODULE Gip --------------------------------
(***************************************************************************)
(* Two programs that talk over a channel with the main loop of             *)
(* lib/libkogata/mainloop.c and the protocol of lib/libkogata/gip.c:       *)
(* giosrv, that owns screen and keyboard, and a client such as terminal.   *)
(*                                                                         *)
(* A program sleeps in select(), reads and writes what it can, and calls   *)
(* back when a buffer is full; messages wait in wr_bufs[] for room in the  *)
(* channel.  A channel is what Channel proves it to be, a bounded queue of *)
(* bytes.  select() runs without interrupts, so it polls and goes to sleep *)
(* in one step.  A message is a header of two units, one for all its code  *)
(* and one for the rest, and maybe a body of one unit.  A program may end  *)
(* at any moment, which closes its side of the channel: what it held stays *)
(* as it was, and nobody gets at it.                                       *)
(***************************************************************************)
EXTENDS Integers, Sequences, FiniteSets, SequencesExt

CONSTANTS
  CHANNEL_BUFFER_SIZE,    \* in units
  MAINLOOP_MAX_WR_BUFS,   \* 4 in the code
  MaxKeys,                \* events in the keyboard's buffer
  MaxCmds                 \* bound: commands the client sends

GipConstants ==
  /\ CHANNEL_BUFFER_SIZE \in Nat \ {0}
  /\ MAINLOOP_MAX_WR_BUFS \in Nat /\ MaxKeys \in Nat /\ MaxCmds \in Nat

ASSUME GipAssumption == GipConstants

Progs == {"giosrv", "client"}
Fds == {"srv", "kbd", "gip"}

\* mainloop_fds: the last one added comes first.
mainloop_fds == [giosrv |-> <<"srv", "kbd">>, client |-> <<"gip">>]
Peer == [srv |-> "gip", gip |-> "srv"]
Owner == [srv |-> "giosrv", kbd |-> "giosrv", gip |-> "client"]

VARIABLES
  in,         \* per descriptor, what can be read from it
  rd,         \* what was read of the present message
  wr_bufs,    \* per descriptor the queue of what is left to write of messages
  loop,       \* per program [at, todo, got]: the descriptors left to parse and
              \* the flags that select() returned
  requests,   \* requests_in_progress of the client
  next_req_id,
  gone,       \* programs that have ended
  coming,     \* history: per descriptor, messages sent and not yet handled
  dropped     \* history: requests whose reply found wr_bufs[] full

vars == <<in, rd, wr_bufs, loop, requests, next_req_id, gone, coming, dropped>>

-----------------------------------------------------------------------------
(* Messages. *)

HasBody(m) == m.code = "buffer_info"
MsgSize(m) == IF HasBody(m) THEN 3 ELSE 2
Units(m) == [k \in 1 .. MsgSize(m) |-> <<m, k>>]

\* The size that mainloop_expect() was given for the present buffer, less what
\* it holds: a header first, then the body if the code asks for one.
Missing(read) ==
  IF Len(read) < 2 THEN 2 - Len(read) ELSE MsgSize(read[1][1]) - Len(read)

Init ==
  /\ in = [f \in Fds |-> <<>>] /\ rd = [f \in Fds |-> <<>>]
  /\ wr_bufs = [f \in Fds |-> <<>>]
  /\ loop = [p \in Progs |-> [at |-> "top", todo |-> <<>>, got |-> {}]]
  /\ requests = {} /\ next_req_id = 1 /\ gone = {}
  /\ coming = [f \in Fds |-> <<>>] /\ dropped = {}

\* gip_send_msg() through mainloop_nonblocking_write(): a full wr_bufs[] makes
\* it fail.
Accepted(f, msgs) ==
  LET room == MAINLOOP_MAX_WR_BUFS - Len(wr_bufs[f]) IN
  IF Len(msgs) <= room THEN msgs ELSE SubSeq(msgs, 1, room)
Queued(f, msgs) == wr_bufs' = [wr_bufs EXCEPT ![f] =
  @ \o [k \in DOMAIN Accepted(f, msgs) |-> Units(Accepted(f, msgs)[k])]]
Sent(f, msgs, c) == [c EXCEPT ![Peer[f]] = @ \o Accepted(f, msgs)]

-----------------------------------------------------------------------------
(* The kernel's side: channel_poll(), select(), the keyboard. *)

CanRead(f) == in[f] # <<>>
Closed(f) == f # "kbd" /\ Owner[Peer[f]] \in gone
CanWrite(f) == f # "kbd" /\ ~Closed(f) /\ Len(in[Peer[f]]) < CHANNEL_BUFFER_SIZE
got_flags(p) ==
  {<<f, "read">> : f \in {g \in Fds : Owner[g] = p /\ CanRead(g)}}
  \cup {<<f, "write">> : f \in {g \in Fds : Owner[g] = p /\ CanWrite(g)}}
  \cup {<<f, "error">> : f \in {g \in Fds : Owner[g] = p /\ Closed(g)}}
Requested(f, flag) == flag \in {"read", "error"} \/ wr_bufs[f] # <<>>

\* Whoever sleeps on the channel; channel_read() resumes the reader's own side,
\* where nobody waits for room.
Resumed_Not(f, l) == l
Resumed(f, l) ==
  IF l[Owner[f]].at = "asleep" THEN [l EXCEPT ![Owner[f]].at = "top"] ELSE l

sc_select(p) ==
  /\ loop[p].at = "top"
  /\ loop' = [loop EXCEPT ![p] =
       IF \E x \in got_flags(p) : Requested(x[1], x[2])
       THEN [at |-> "parse", todo |-> mainloop_fds[p], got |-> got_flags(p)]
       ELSE [@ EXCEPT !.at = "asleep"]]
  /\ UNCHANGED <<in, rd, wr_bufs, requests, next_req_id, gone, coming, dropped>>

\* A program ends; channel_dispose() resumes whoever sleeps on the other side.
\* Once one has ended, the end of the other is left out.
Exits(p) ==
  /\ gone = {}
  /\ gone' = {p}
  /\ loop' = Resumed(IF p = "giosrv" THEN "gip" ELSE "srv", loop)
  /\ UNCHANGED <<in, rd, wr_bufs, requests, next_req_id, coming, dropped>>

\* An interrupt of the keyboard.
Key ==
  /\ "giosrv" \notin gone
  /\ Len(in["kbd"]) < MaxKeys
  /\ in' = [in EXCEPT !["kbd"] = Append(@, "event")]
  /\ loop' = Resumed("kbd", loop)
  /\ UNCHANGED <<rd, wr_bufs, requests, next_req_id, gone, coming, dropped>>

-----------------------------------------------------------------------------
(* mainloop_run(): one descriptor after the other. *)

Parsing(p, f) == loop[p].at = "parse" /\ loop[p].todo # <<>> /\ Head(loop[p].todo) = f
Got(p, flag) == <<Head(loop[p].todo), flag>> \in loop[p].got
Parsed(l, p) == [l EXCEPT ![p] =
  IF Len(@.todo) = 1 THEN [at |-> "top", todo |-> <<>>, got |-> {}]
  ELSE [@ EXCEPT !.todo = Tail(@)]]

Least(a, b) == IF a < b THEN a ELSE b

\* sc_read() of what the buffer misses.
Reading(f) == rd[f] \o SubSeq(in[f], 1, Least(Missing(rd[f]), Len(in[f])))
Taken(f) ==
  in' = [in EXCEPT ![f] = SubSeq(@, Least(Missing(rd[f]), Len(@)) + 1, Len(@))]
Complete(read) == Len(read) >= 2 /\ Missing(read) = 0

\* on_error() comes before everything else, and neither program does anything in
\* it: select() returns at once again.
Error(p, f) ==
  /\ Parsing(p, f) /\ Got(p, "error")
  /\ loop' = Parsed(loop, p)
  /\ UNCHANGED <<in, rd, wr_bufs, requests, next_req_id, gone, coming, dropped>>

\* The buffer is not full yet, or it was a header that announces a body.
ReadPart(p, f) ==
  /\ Parsing(p, f) /\ f # "kbd" /\ ~Got(p, "error") /\ Got(p, "read") /\ ~Complete(Reading(f))
  /\ Taken(f)
  /\ rd' = [rd EXCEPT ![f] = Reading(f)]
  /\ loop' = Parsed(loop, p)
  /\ UNCHANGED <<wr_bufs, requests, next_req_id, gone, coming, dropped>>

\* The buffer is full: rd_buf_filled = 0, and the callback gets the message.
Message(f) == Reading(f)[1][1]
ReadFull(p, f) ==
  /\ Parsing(p, f) /\ f # "kbd" /\ ~Got(p, "error") /\ Got(p, "read") /\ Complete(Reading(f))
  /\ Taken(f)
  /\ rd' = [rd EXCEPT ![f] = <<>>]
  /\ loop' = Parsed(loop, p)
  /\ UNCHANGED gone
Handled(f, c) == [c EXCEPT ![f] = Tail(@)]

\* What is left of a buffer of which n units were written; the mutation counts
\* a part as nothing.
Left_All(buf, n) == IF n < Len(buf) THEN buf ELSE <<>>
Left(buf, n) == SubSeq(buf, n + 1, Len(buf))

\* sc_write() of the first buffer, that leaves wr_bufs[] when it is empty.
Write(p, f) ==
  /\ Parsing(p, f) /\ ~Got(p, "error") /\ ~Got(p, "read") /\ Got(p, "write") /\ wr_bufs[f] # <<>>
  /\ LET buf == Head(wr_bufs[f])  g == Peer[f]
         n == Least(Len(buf), CHANNEL_BUFFER_SIZE - Len(in[g]))
         left == Left(buf, n)
     IN /\ in' = [in EXCEPT ![g] = @ \o SubSeq(buf, 1, n)]
        /\ wr_bufs' = [wr_bufs EXCEPT ![f] =
             (IF left = <<>> THEN <<>> ELSE <<left>>) \o Tail(@)]
        /\ loop' = Parsed(IF n > 0 THEN Resumed(g, loop) ELSE loop, p)
  /\ UNCHANGED <<rd, requests, next_req_id, gone, coming, dropped>>

Skip(p, f) ==
  /\ Parsing(p, f) /\ ~Got(p, "error") /\ ~Got(p, "read")
  /\ ~Got(p, "write") \/ wr_bufs[f] = <<>>
  /\ loop' = Parsed(loop, p)
  /\ UNCHANGED <<in, rd, wr_bufs, requests, next_req_id, gone, coming, dropped>>

-----------------------------------------------------------------------------
(* giosrv. *)

Msg(code, id) == [code |-> code, id |-> id]

\* The replies to a command, without the notification if no token could be
\* made; SWITCH_BUFFER has no callback and no reply.
Replies(m) ==
  CASE m.code = "reset" -> {<<Msg("initiate", m.id)>>,
                            <<Msg("initiate", m.id), Msg("buffer_info", 0)>>}
    [] m.code = "query_mode" -> {<<Msg("failure", m.id)>>}
    [] OTHER -> {<<>>}

ServerHandle ==
  /\ ReadFull("giosrv", "srv")
  /\ LET m == Message("srv") IN \E msgs \in Replies(m) :
       /\ Queued("srv", msgs)
       /\ coming' = Sent("srv", msgs, Handled("srv", coming))
       /\ dropped' = IF msgs # <<>> /\ Accepted("srv", msgs) = <<>>
                     THEN dropped \cup {m.id} ELSE dropped
  /\ UNCHANGED <<requests, next_req_id>>

\* kbd_handle_event()
KeyHandle ==
  /\ Parsing("giosrv", "kbd") /\ Got("giosrv", "read")
  /\ in' = [in EXCEPT !["kbd"] = Tail(@)]
  /\ Queued("srv", <<Msg("key_down", 0)>>)
  /\ coming' = Sent("srv", <<Msg("key_down", 0)>>, coming)
  /\ loop' = Parsed(loop, "giosrv")
  /\ UNCHANGED <<rd, requests, next_req_id, gone, dropped>>

-----------------------------------------------------------------------------
(* The client. *)

\* gip_cmd() adds the request before it sends, and takes it back on failure;
\* the mutation does not.
InProgress_Stays(id, sent) == requests \cup {id}
InProgress(id, sent) == IF sent THEN requests \cup {id} ELSE requests

\* gip_cmd() with a callback, or without one: the number is then 0.  It is
\* called between two rounds, for an event of another descriptor.
gip_cmd(code, cb) ==
  LET m == Msg(code, IF cb THEN next_req_id ELSE 0) IN
  /\ "client" \notin gone
  /\ loop["client"].at \in {"top", "asleep"} /\ next_req_id <= MaxCmds
  /\ Queued("gip", <<m>>)
  /\ coming' = Sent("gip", <<m>>, coming)
  /\ requests' = IF cb THEN InProgress(m.id, Accepted("gip", <<m>>) # <<>>) ELSE requests
  /\ next_req_id' = IF cb THEN next_req_id + 1 ELSE next_req_id
  /\ loop' = [loop EXCEPT !["client"].at = "top"]
  /\ UNCHANGED <<in, rd, gone, dropped>>

Command == \/ gip_cmd("reset", TRUE) \/ gip_cmd("query_mode", TRUE)
           \/ gip_cmd("switch_buffer", FALSE)

\* giph_got_reply() for the codes that are replies.
ClientHandle ==
  /\ ReadFull("client", "gip")
  /\ coming' = Handled("gip", coming)
  /\ requests' = LET m == Message("gip") IN
       IF m.code \in {"initiate", "failure"} THEN requests \ {m.id} ELSE requests
  /\ UNCHANGED <<wr_bufs, next_req_id, dropped>>

-----------------------------------------------------------------------------
Step(p) ==
  \/ sc_select(p)
  \/ \E f \in Fds : Error(p, f) \/ ReadPart(p, f) \/ Write(p, f) \/ Skip(p, f)
GiosrvStep == "giosrv" \notin gone /\ (Step("giosrv") \/ ServerHandle \/ KeyHandle)
ClientStep == "client" \notin gone /\ (Step("client") \/ ClientHandle)

Next == GiosrvStep \/ ClientStep \/ Command \/ Key \/ \E p \in Progs : Exits(p)

\* The scheduler runs both programs; nobody has to type or to command.
Spec == Init /\ [][Next]_vars /\ WF_vars(GiosrvStep) /\ WF_vars(ClientStep)

-----------------------------------------------------------------------------
(***************************************************************************)
(* What is read, in the channel and waiting in wr_bufs[] is, unit by unit, *)
(* the messages that were sent and not handled: parts of messages are put  *)
(* together again, and a callback never takes a body for a header.         *)
(***************************************************************************)
FramesWhole == \A f \in {"srv", "gip"} :
  rd[f] \o in[f] \o FlattenSeq(wr_bufs[Peer[f]]) =
    FlattenSeq([k \in DOMAIN coming[f] |-> Units(coming[f][k])])

(***************************************************************************)
(* A request is in progress as long as its command or its reply is under   *)
(* way, or lost with the program that held it, and answered once; giosrv   *)
(* drops replies that find wr_bufs[] full (gip.c:64), and their requests   *)
(* remain for ever.                                                        *)
(***************************************************************************)
Under(f, id) == Cardinality({k \in DOMAIN coming[f] : coming[f][k].id = id})
RequestsExact == \A id \in 1 .. MaxCmds :
  Under("srv", id) + Under("gip", id) + Cardinality({id} \cap dropped) =
    Cardinality({id} \cap requests)

(***************************************************************************)
(* What is in the channel is read as long as both programs live: select()  *)
(* misses no input.  What a program sent before it ended is never read,    *)
(* because on_error() comes first (mainloop.c:105).  Nothing of the kind   *)
(* holds for what waits in wr_bufs[]: no one resumes a program that waits  *)
(* for room (ipc.c:218).                                                   *)
(***************************************************************************)
Unread(id) == \E f \in {"srv", "gip"} : \E k \in DOMAIN in[f] : in[f][k][1].id = id
InputIsRead == \A id \in 1 .. MaxCmds : Unread(id) ~> ~Unread(id) \/ gone # {}
=============================================================================
