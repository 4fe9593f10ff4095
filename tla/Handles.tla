------------------------------- MODULE Handles -------------------------------
(***************************************************************************)
(* References to files: the tables of descriptors of process.c, the tokens *)
(* of ipc.c by which processes give each other files, and the system calls *)
(* of syscall.c that move handles between them.                            *)
(*                                                                         *)
(* A process has one thread (process.h), which is in a system call or not. *)
(* A process is killed when it is in none: kill_thread() waits for that.   *)
(* A handle is what malloc() gave: after its last reference is dropped it  *)
(* may be given again, so that a stale pointer names somebody else's file. *)
(*                                                                         *)
(* Abstractions.  A section under one mutex is one step; unref_file() at   *)
(* the end of a section belongs to it, as does the removal of the entry    *)
(* that it goes with.  What a handle is open on is left to Vfs and Channel.*)
(* Tokens do not collide (they have 16 random bytes); whether one is past  *)
(* TOKEN_LIFETIME is a flag.  Every call may run out of memory.            *)
(***************************************************************************)
EXTENDS Integers, FiniteSets, Sequences, Functions

CONSTANTS
  Parent, Child,   \* a process and the child it binds descriptors for
  Worker,          \* the thread that runs the kernel's tasks
  Handles,         \* the handles malloc() can give
  Tokens,
  MaxFd,           \* bound on the descriptors a process is given
  None

Procs == {Parent, Child}
Actors == Procs \cup {Worker}
Fds == 1 .. MaxFd

HandlesAssumption ==
  /\ Parent # Child /\ Worker \notin Procs
  /\ None \notin Handles \cup Actors
  /\ MaxFd \in Nat

VARIABLES
  refs,         \* h->refs, 0 for memory that is free
  files,        \* p->files: pairs <<fd, handle>>
  next_fd,      \* p->next_fd
  alive,        \* the processes with p->files # 0
  token_table,  \* records [tok, h, old]
  token_lock,   \* token_table_mutex: None, or who holds it
  proc_lock,    \* the child's lock, as process_exit() holds it
  hcall         \* what each actor is doing

vars == <<refs, files, next_fd, alive, token_table, token_lock, proc_lock, hcall>>

\* todo: the handles a call has yet to give descriptors to, on which it has a
\* reference each; got: the descriptors it has given; h: the handle it has read
\* from a table, without a reference of its own.
Call(op, todo, got, h, fd) == [op |-> op, todo |-> todo, got |-> got, h |-> h, fd |-> fd]
Idle == Call("idle", <<>>, {}, None, 0)
Adding(todo, got) == Call("adding", todo, got, None, 0)

Init ==
  /\ refs = [h \in Handles |-> 0]
  /\ files = [p \in Procs |-> {}]
  /\ next_fd = [p \in Procs |-> 1]
  /\ alive = Procs
  /\ token_table = {}
  /\ token_lock = None
  /\ proc_lock = None
  /\ hcall = [a \in Actors |-> Idle]

Go(a, c) == hcall' = [hcall EXCEPT ![a] = c]
ref_file(h) == refs' = [refs EXCEPT ![h] = @ + 1]
unref_file(h) == refs' = [refs EXCEPT ![h] = @ - 1]
Unallocated == {h \in Handles : refs[h] = 0}
At(p, fd) == {h \in Handles : <<fd, h>> \in files[p]}

\* process_exit() holds the lock of the process when its threads are gone.
Unlocked(p) == p # Child \/ proc_lock = None
Calls(p) == p \in alive /\ Unlocked(p) /\ hcall[p] = Idle
tokvars == <<token_table, token_lock>>

\* open_sc(), make_shm_sc(): a new handle, with one reference; make_channel_sc():
\* two of them.
NewHandles(p, hs) ==
  /\ Calls(p)
  /\ Cardinality(Range(hs)) = Len(hs)
  /\ Range(hs) \subseteq Unallocated
  /\ refs' = [h \in Handles |-> IF h \in Range(hs) THEN 1 ELSE refs[h]]
  /\ Go(p, Adding(hs, {}))
  /\ UNCHANGED <<files, next_fd, alive, tokvars, proc_lock>>

\* proc_add_fd(): the number is used up even if there is no memory for the entry
proc_add_fd(p) ==
  LET c == hcall[p]
      fd == next_fd[p]
  IN
  /\ c.op = "adding" /\ c.todo # <<>>
  /\ Unlocked(p)
  /\ fd <= MaxFd
  /\ next_fd' = [next_fd EXCEPT ![p] = @ + 1]
  /\ \/ /\ files' = [files EXCEPT ![p] = @ \cup {<<fd, Head(c.todo)>>}]
        /\ Go(p, Adding(Tail(c.todo), c.got \cup {fd}))
     \/ /\ Go(p, [c EXCEPT !.op = "undo"])
        /\ UNCHANGED files
  /\ UNCHANGED <<refs, alive, tokvars, proc_lock>>

Added(p) ==
  /\ hcall[p].op = "adding" /\ hcall[p].todo = <<>>
  /\ Go(p, Idle)
  /\ UNCHANGED <<refs, files, next_fd, alive, tokvars, proc_lock>>

\* proc_close_fd()
CloseFd(p, fd) ==
  /\ Unlocked(p)
  /\ IF At(p, fd) = {}
       THEN UNCHANGED <<refs, files>>
       ELSE \E h \in At(p, fd) :
              /\ unref_file(h)
              /\ files' = [files EXCEPT ![p] = @ \ {<<fd, h>>}]

close_sc(p, fd) ==
  /\ Calls(p)
  /\ CloseFd(p, fd)
  /\ UNCHANGED <<next_fd, alive, tokvars, proc_lock, hcall>>

\* The error paths: descriptors that were given are closed, and the references
\* of the handles that got none are dropped.
Undo(p) ==
  LET c == hcall[p] IN
  /\ c.op = "undo"
  /\ \/ \E fd \in c.got : /\ CloseFd(p, fd)
                          /\ Go(p, [c EXCEPT !.got = @ \ {fd}])
     \/ /\ c.got = {} /\ c.todo # <<>>
        /\ unref_file(Head(c.todo))
        /\ Go(p, IF Len(c.todo) = 1 THEN Idle ELSE [c EXCEPT !.todo = Tail(@)])
        /\ UNCHANGED files
  /\ UNCHANGED <<next_fd, alive, tokvars, proc_lock>>

\* proc_read_fd() in gen_token_sc() and bind_fd_sc(): no reference is taken
ReadFd(p, fd, op, as) ==
  /\ Calls(p)
  /\ \E h \in At(p, fd) : Go(p, Call(op, <<>>, {}, h, as))
  /\ UNCHANGED <<refs, files, next_fd, alive, tokvars, proc_lock>>

\* gen_token_for(): the entry, and then the reference, under the token lock
GenAdd(p, k) ==
  LET c == hcall[p] IN
  /\ c.op = "gen"
  /\ token_lock = None
  /\ \A e \in token_table : e.tok # k
  /\ \/ /\ token_table' = token_table \cup {[tok |-> k, h |-> c.h, old |-> FALSE]}
        /\ token_lock' = p
        /\ Go(p, [c EXCEPT !.op = "genref"])
     \/ Go(p, Idle) /\ UNCHANGED tokvars
  /\ UNCHANGED <<refs, files, next_fd, alive, proc_lock>>

\* The mutation takes no reference for the token.
TokenRef_Not(h) == UNCHANGED refs
TokenRef(h) == ref_file(h)
GenRef(p) ==
  /\ hcall[p].op = "genref"
  /\ TokenRef(hcall[p].h)
  /\ token_lock' = None
  /\ Go(p, Idle)
  /\ UNCHANGED <<files, next_fd, alive, token_table, proc_lock>>

\* use_token(): the entry's reference becomes the caller's
use_token_sc(p, k) ==
  /\ Calls(p)
  /\ token_lock = None
  /\ \E e \in token_table :
       /\ e.tok = k
       /\ token_table' = token_table \ {e}
       /\ Go(p, Adding(<<e.h>>, {}))
  /\ UNCHANGED <<refs, files, next_fd, alive, token_lock, proc_lock>>

\* bind_fd_sc(): the reference, and then the entry of the child's table
BindRef(p) ==
  LET c == hcall[p] IN
  /\ c.op = "bind"
  /\ ref_file(c.h)
  /\ Go(p, Call("bindadd", <<c.h>>, {}, None, c.fd))
  /\ UNCHANGED <<files, next_fd, alive, tokvars, proc_lock>>

\* proc_add_fd_as(): the number must be free; later ones are above it.  The
\* mutation lets the next number be the one that is taken.
Above_Equal(fd, next) == IF fd > next THEN fd + 1 ELSE next
Above(fd, next) == IF fd >= next THEN fd + 1 ELSE next
proc_add_fd_as(p) ==
  LET c == hcall[p]
      free == Child \in alive /\ At(Child, c.fd) = {}
  IN
  /\ c.op = "bindadd"
  /\ proc_lock = None
  /\ next_fd' = [next_fd EXCEPT ![Child] = IF free THEN Above(c.fd, @) ELSE @]
  /\ \/ /\ free
        /\ files' = [files EXCEPT ![Child] = @ \cup {<<c.fd, Head(c.todo)>>}]
        /\ Go(p, Idle)
     \/ Go(p, [c EXCEPT !.op = "undo"]) /\ UNCHANGED files
  /\ UNCHANGED <<refs, alive, tokvars, proc_lock>>

\* Time passes for a token.
Age ==
  /\ \E e \in token_table :
       ~ e.old /\ token_table' = (token_table \ {e}) \cup {[e EXCEPT !.old = TRUE]}
  /\ UNCHANGED <<refs, files, next_fd, alive, token_lock, proc_lock, hcall>>

\* token_expiration_check(), which the worker runs every second
ExpireBegin ==
  /\ hcall[Worker] = Idle
  /\ token_lock = None
  /\ token_lock' = Worker
  /\ Go(Worker, [Idle EXCEPT !.op = "expire"])
  /\ UNCHANGED <<refs, files, next_fd, alive, token_table, proc_lock>>
ExpireOne ==
  /\ hcall[Worker].op = "expire"
  /\ \E e \in token_table : /\ e.old
                            /\ token_table' = token_table \ {e}
                            /\ unref_file(e.h)
  /\ UNCHANGED <<files, next_fd, alive, token_lock, proc_lock, hcall>>
ExpireEnd ==
  /\ hcall[Worker].op = "expire"
  /\ \A e \in token_table : ~ e.old
  /\ token_lock' = None
  /\ Go(Worker, Idle)
  /\ UNCHANGED <<refs, files, next_fd, alive, token_table, proc_lock>>

\* process_exit() of the child, by its parent or by the worker, which hold its
\* lock while they release the descriptors.
ExitBegin(a) ==
  /\ a # Child
  /\ hcall[a] = Idle
  /\ Calls(Child)
  /\ proc_lock' = a
  /\ Go(a, [Idle EXCEPT !.op = "exit"])
  /\ UNCHANGED <<refs, files, next_fd, alive, tokvars>>
_process_exit_release_fd(a) ==
  /\ hcall[a].op = "exit"
  /\ \E f \in files[Child] : /\ unref_file(f[2])
                             /\ files' = [files EXCEPT ![Child] = @ \ {f}]
  /\ UNCHANGED <<next_fd, alive, tokvars, proc_lock, hcall>>
ExitEnd(a) ==
  /\ hcall[a].op = "exit"
  /\ files[Child] = {}
  /\ alive' = alive \ {Child}
  /\ proc_lock' = None
  /\ Go(a, Idle)
  /\ UNCHANGED <<refs, files, next_fd, tokvars>>

Next ==
  \/ \E p \in Procs :
       \/ \E h \in Handles : NewHandles(p, <<h>>)
       \/ \E h, g \in Handles : NewHandles(p, <<h, g>>)
       \/ proc_add_fd(p) \/ Added(p) \/ Undo(p)
       \/ \E fd \in Fds : close_sc(p, fd) \/ ReadFd(p, fd, "gen", 0)
       \/ \E k \in Tokens : GenAdd(p, k) \/ use_token_sc(p, k)
       \/ GenRef(p) \/ BindRef(p) \/ proc_add_fd_as(p)
  \/ \E fd, as \in Fds : ReadFd(Parent, fd, "bind", as)
  \/ Age \/ ExpireBegin \/ ExpireOne \/ ExpireEnd
  \/ \E a \in Actors : ExitBegin(a) \/ _process_exit_release_fd(a) \/ ExitEnd(a)

Spec == Init /\ [][Next]_vars

-----------------------------------------------------------------------------
\* The descriptors, tokens and calls that hold a handle; a token is in the table
\* before it takes its reference.
Descs(h) == {x \in Procs \X Fds : <<x[2], h>> \in files[x[1]]}
Toks(h) == {e \in token_table : e.h = h}
Callers(h) == {a \in Actors : h \in Range(hcall[a].todo)}
Pending(h) == {a \in Actors : hcall[a].op = "genref" /\ hcall[a].h = h}
Holders(h) == Cardinality(Descs(h)) + Cardinality(Toks(h))
              + Cardinality(Callers(h)) - Cardinality(Pending(h))

\* A handle has as many references as there are descriptors, tokens and calls
\* that hold it (no leak, no early free), a handle that a call has only read
\* from a table is not freed under it, and no descriptor is given twice.
HandlesExact ==
  /\ \A h \in Handles : refs[h] = Holders(h)
  /\ \A a \in Actors : hcall[a].h # None => refs[hcall[a].h] > 0
  /\ \A p \in Procs : \A f, g \in files[p] : f[1] = g[1] => f = g
  /\ \A p \in Procs : \A f \in files[p] : f[1] < next_fd[p]
=============================================================================
