--------------------------------- MODULE Vfs ---------------------------------
(***************************************************************************)
(* The nodes of a file system in memory: src/src/kernel/user/vfs.c over    *)
(* the RAM file system of src/src/kernel/user/nullfs.c.                    *)
(*                                                                         *)
(* A node (fs_node_t) is a slot.  Threads walk down paths, which brings    *)
(* nodes into memory, and drop references, which removes nodes and then    *)
(* drops the references they held on their parent and file system.  Every  *)
(* place where a mutex is taken ends a step; a section that takes no other *)
(* lock is one step.  todo is the stack of unref_*() calls a thread is in. *)
(*                                                                         *)
(* Abstractions.  A nullfs item is its path; its type is that of the path  *)
(* (Dirs).  fs_create() may replace an item by a new one of its name: as   *)
(* long as a node stands for the old one, the path means that one, with    *)
(* what it contains, and nobody gets at the new one, which is empty.  What *)
(* is done to an item that was freed under its node is undefined: here     *)
(* nothing is found or made there.  A search in items_list that has gone   *)
(* astray never ends.  A handle has one reference.  A process does not     *)
(* take a file system away while one of its threads is in a call on it.    *)
(* fs_move() is left out: nullfs refuses every move and iso9660 has none.  *)
(***************************************************************************)
EXTENDS Integers, Sequences, FiniteSets, Functions

CONSTANTS
  Threads,
  Slots,           \* the fs_node_t that malloc() can give
  Root,            \* the slot of the root node
  Paths,           \* the items the driver may hold
  Dirs,            \* those that are directories, with the root <<>>
  Asked,           \* the calls: <<operation, file system, path>>
  SubPaths,        \* the paths fs_subfs() is called with
  Others,          \* entries of each items_list that no call asks for
  Room,            \* bound on the entries of each items_list
  MaxLeaks,        \* bound on the references fs_delete() loses
  NoThread, NoSlot

Fs == {"main", "sub"}   \* the file system and one made from it by fs_subfs()
Ops == {"open", "stat", "create", "delete", "subfs"}

ASSUME VfsAssumption ==
  /\ IsFiniteSet(Threads) /\ IsFiniteSet(Slots)
  /\ Root \in Slots
  /\ NoSlot \notin Slots
  /\ NoThread \notin Threads
  /\ Paths \subseteq Seq(STRING)
  /\ \A a \in Asked : a[1] \in Ops /\ a[2] \in Fs /\ a[3] \in Seq(STRING)
  /\ <<>> \in Dirs
  /\ Dirs \subseteq Paths \cup {<<>>}
  /\ Others \in [Dirs -> Nat] /\ Room \in [Dirs -> Nat]
  /\ MaxLeaks \in Nat

\* A file system made from the root of another takes no reference on it: the
\* ASSERT of unref_fs() then fails when the other one goes first
ASSUME SubfsNotOfRoot == <<>> \notin SubPaths

VARIABLES
  live,       \* slots that hold a node
  refs,       \* n->refs
  lock,       \* the thread that holds n->lock
  parent,     \* n->parent
  at,         \* n->data: the item of the driver
  kids,       \* n->children: pairs <<name, slot>>
  fsrefs,     \* fs->refs, 0 when it is gone
  fsroot,     \* fs->root
  owned,      \* file systems that a process still has
  handles,    \* the open handles: pairs <<fs, node>> by the thread that opened
  disk,       \* the items the driver holds
  stuck,      \* directories whose nullfs_dir_t.lock is left taken
  listed,     \* how many entries the items_list of each directory has
  former,     \* nodes whose item has been replaced in its directory
  freed,      \* nodes whose item has been deleted
  pc, call,   \* where each thread is, and the locals of its call
  todo,       \* its stack of calls to unref_*()
  leaked,     \* history: references fs_delete() lost
  seen        \* history: nodes that came into memory since fs_delete() of each
              \* thread looked at the table

nvars == <<live, refs, lock, parent, at, kids>>
fvars == <<fsrefs, fsroot, owned, handles>>
dvars == <<disk, stuck, listed, former, freed>>
tvars == <<pc, call, todo>>
hvars == <<leaked, seen>>
vars == <<nvars, fvars, dvars, tvars, hvars>>

PCs == {"idle", "walk", "found", "miss", "new", "newfs", "at", "locked",
        "opened"}
\* op on fs, at the node cur, with nxt found or loaded and rest to walk; last is
\* the component that fs_create() and fs_delete() do not walk to
Call(op, f, n, nxt, rest, last) ==
  [op |-> op, fs |-> f, cur |-> n, nxt |-> nxt, rest |-> rest, last |-> last]
Calls == [op : Ops, fs : Fs \cup {"none"}, cur : Slots \cup {NoSlot}, nxt : Slots \cup {NoSlot},
          rest : Seq(STRING), last : STRING \cup {""}]
Items == [do : {"node", "parent", "fs", "free"}, n : Slots \cup {NoSlot},
          fs : Fs]

node(n)   == [do |-> "node", n |-> n, fs |-> "main"]
par(n)    == [do |-> "parent", n |-> n, fs |-> "main"]
free(n)   == [do |-> "free", n |-> n, fs |-> "main"]
fsys(f)   == [do |-> "fs", n |-> NoSlot, fs |-> f]

TypeOK ==
  /\ live \subseteq Slots
  /\ refs \in [Slots -> Nat]
  /\ lock \in [Slots -> Threads \cup {NoThread}]
  /\ parent \in [Slots -> Slots \cup {NoSlot}]
  /\ at \in [Slots -> Paths \cup {<<>>}]
  /\ kids \in [Slots -> SUBSET (STRING \X Slots)]
  /\ fsrefs \in [Fs -> Nat]
  /\ fsroot \in [Fs -> Slots \cup {NoSlot}]
  /\ owned \subseteq Fs
  /\ handles \in [Threads -> SUBSET (Fs \X Slots)]
  /\ disk \subseteq Paths
  /\ stuck \subseteq Dirs
  /\ listed \in [Dirs -> Int]
  /\ former \subseteq Slots /\ freed \subseteq Slots
  /\ pc \in [Threads -> PCs]
  /\ call \in [Threads -> Calls]
  /\ todo \in [Threads -> Seq(Items)]
  /\ leaked \in [Slots -> 0 .. MaxLeaks]
  /\ seen \in [Threads -> SUBSET Slots]

NoCall == Call("stat", "none", NoSlot, NoSlot, <<>>, "")

\* make_fs() and nullfs_fs_make(): an empty file system
Init ==
  /\ live = {Root}
  /\ refs = [n \in Slots |-> IF n = Root THEN 1 ELSE 0]
  /\ lock = [n \in Slots |-> NoThread]
  /\ parent = [n \in Slots |-> NoSlot]
  /\ at = [n \in Slots |-> <<>>]
  /\ kids = [n \in Slots |-> {}]
  /\ fsrefs = [f \in Fs |-> IF f = "main" THEN 1 ELSE 0]
  /\ fsroot = [f \in Fs |-> IF f = "main" THEN Root ELSE NoSlot]
  /\ owned = {"main"}
  /\ handles = [t \in Threads |-> {}]
  /\ disk = {}
  /\ stuck = {}
  /\ listed = Others
  /\ former = {} /\ freed = {}
  /\ pc = [t \in Threads |-> "idle"]
  /\ call = [t \in Threads |-> NoCall]
  /\ todo = [t \in Threads |-> <<>>]
  /\ leaked = [n \in Slots |-> 0]
  /\ seen = [t \in Threads |-> {}]

-----------------------------------------------------------------------------
cur(t) == call[t].cur
Free(n) == lock[n] = NoThread

\* t is at p, with no call of unref_*() to end first
At(t, p) == pc[t] = p /\ todo[t] = <<>>

Goto(t, p) == pc' = [pc EXCEPT ![t] = p]
Lock(t, n) == Free(n) /\ lock' = [lock EXCEPT ![n] = t]
Unlock(n) == lock' = [lock EXCEPT ![n] = NoThread]

\* The call returns after it has dropped its reference to n
Return(t, n) ==
  /\ Goto(t, "idle")
  /\ call' = [call EXCEPT ![t] = Call("stat", @.fs, NoSlot, NoSlot, <<>>, "")]
  /\ todo' = [todo EXCEPT ![t] = <<node(n)>>]

\* The child of n in memory under a name
Child(n, x) == {s \in Slots : <<x, s>> \in kids[n]}

-----------------------------------------------------------------------------
(***************************************************************************)
(* The operations of nullfs on a directory n.  They take the lock of its   *)
(* nullfs_dir_t, which is free but for the directories in stuck.           *)
(***************************************************************************)

\* The item called x in n, what is below an item, and whether the directory i is
\* empty
Item(n, x) == Append(at[n], x)
Front(s) == SubSeq(s, 1, Len(s) - 1)
Below(i) == {j \in Paths : Len(j) > Len(i) /\ SubSeq(j, 1, Len(i)) = i}
Empty(i) == i \in Dirs => listed[i] = 0

\* The lists once that of d has k entries more and those of ds are empty
Lists(d, k, ds) == [e \in Dirs |-> IF e = d THEN listed[e] + k ELSE IF e \in ds THEN 0 ELSE listed[e]]

nullfs_d_walk(n, x) == at[n] \in Dirs /\ n \notin freed /\ Item(n, x) \in disk

\* A new item, if there is memory.  hashtbl_add() replaces one of the same name,
\* whose entry in items_list stays.
nullfs_d_create(n, x) ==
  LET i == Item(n, x) IN
  \/ UNCHANGED dvars
  \/ /\ at[n] \in Dirs /\ n \notin freed
     /\ i \in Paths /\ listed[at[n]] < Room[at[n]]
     /\ \/ /\ Child(n, x) = {}
           /\ disk' = (disk \ Below(i)) \cup {i}
           /\ stuck' = stuck \ (Below(i) \cup {i})
           /\ listed' = Lists(at[n], 1, Below(i) \cup {i})
           /\ UNCHANGED former
        \/ /\ Child(n, x) # {}
           /\ disk' = disk \cup {i}
           /\ former' = former \cup (Child(n, x) \ freed)
           /\ listed' = Lists(at[n], 1, {})
           /\ UNCHANGED stuck
     /\ UNCHANGED freed

\* The item is one that hides behind the node of the one it replaced
Replaced(n, x) == Child(n, x) \cap former # {}

\* It can be deleted: a file, or a directory that is empty
Deletable(n, x) ==
  /\ n \notin freed /\ Item(n, x) \in disk
  /\ Replaced(n, x) \/ (Item(n, x) \notin stuck /\ Empty(Item(n, x)))

\* The item and its data go; a node that stands for it does not notice.
nullfs_d_delete(n, x) ==
  /\ Deletable(n, x)
  /\ disk' = disk \ {Item(n, x)}
  /\ listed' = Lists(at[n], -1, {})
  /\ freed' = freed \cup (Child(n, x) \ former)
  /\ UNCHANGED <<stuck, former>>

\* The same, but the entry is neither the first nor the second of items_list: the
\* search for it goes on behind the entries, and does not return.
nullfs_d_delete_astray(n, x) ==
  /\ Deletable(n, x)
  /\ listed[at[n]] > 2
  /\ disk' = disk \ {Item(n, x)}
  /\ freed' = freed \cup (Child(n, x) \ former)
  /\ stuck' = stuck \cup {at[n]}
  /\ UNCHANGED <<listed, former>>

\* No such item, or its lock is taken; or a directory that is not empty, whose
\* lock has been taken and is not given back
nullfs_d_delete_fails(n, x) ==
  LET i == Item(n, x) IN
  \/ /\ \/ n \in freed \/ i \notin disk
        \/ /\ ~ Replaced(n, x)
           /\ i \in stuck \/ \E u \in Threads : At(u, "locked") /\ at[cur(u)] = i
     /\ UNCHANGED dvars
  \/ /\ n \notin freed /\ i \in disk \ stuck
     /\ ~ Replaced(n, x) /\ ~ Empty(i)
     /\ stuck' = stuck \cup {i}
     /\ UNCHANGED <<disk, listed, former, freed>>

-----------------------------------------------------------------------------
(***************************************************************************)
(* fs_walk_path() and fs_walk_path_except_last(): down one component after *)
(* the other, holding a reference on the node reached.                     *)
(***************************************************************************)

\* A call on the file system f, up to ref_fs_node() on the root it walks from;
\* fs_create() and fs_delete() walk to the parent of the last component
Begin(t, op, f, p) ==
  LET r == fsroot[f] IN
  /\ At(t, "idle")
  /\ f \in owned
  /\ op = "subfs" => p \in SubPaths /\ fsrefs["sub"] = 0
  /\ op = "open" => handles[t] = {}
  /\ op \in {"create", "delete"} => p # <<>>
  /\ Free(r)
  /\ refs' = [refs EXCEPT ![r] = @ + 1]
  /\ Goto(t, "walk")
  /\ call' = [call EXCEPT ![t] =
       IF op \in {"create", "delete"}
       THEN Call(op, f, r, NoSlot, Front(p), p[Len(p)])
       ELSE Call(op, f, r, NoSlot, p, "")]
  /\ UNCHANGED <<live, lock, parent, at, kids, fvars, dvars, todo, hvars>>

\* fs_walk_one() that does not look among the children in memory
Look_Not(t) ==
  /\ At(t, "walk")
  /\ call[t].rest # <<>>
  /\ Lock(t, cur(t))
  /\ Goto(t, "miss")
  /\ UNCHANGED <<live, refs, parent, at, kids, fvars, dvars, call, todo, hvars>>

\* fs_walk_one() takes from->lock and looks among the children in memory
Look(t) ==
  LET c == Child(cur(t), Head(call[t].rest)) IN
  /\ At(t, "walk")
  /\ call[t].rest # <<>>
  /\ Lock(t, cur(t))
  /\ IF c = {} THEN Goto(t, "miss") /\ UNCHANGED call
     ELSE \E s \in c : Goto(t, "found") /\ call' = [call EXCEPT ![t].nxt = s]
  /\ UNCHANGED <<live, refs, parent, at, kids, fvars, dvars, todo, hvars>>

\* The walk goes on from call.nxt and drops its reference to call.cur
Step(t) ==
  /\ call' = [call EXCEPT ![t] = Call(@.op, @.fs, @.nxt, NoSlot, Tail(@.rest), @.last)]
  /\ todo' = [todo EXCEPT ![t] = <<node(cur(t))>>]
  /\ Goto(t, "walk")

\* ref_fs_node() left out for a node found in memory
Found_NoRef(t) ==
  /\ At(t, "found")
  /\ Free(call[t].nxt)
  /\ Unlock(cur(t))
  /\ Step(t)
  /\ UNCHANGED <<live, refs, parent, at, kids, fvars, dvars, hvars>>

\* The child is in memory: ref_fs_node(n), then from is unlocked
Found(t) ==
  /\ At(t, "found")
  /\ Free(call[t].nxt)
  /\ refs' = [refs EXCEPT ![call[t].nxt] = @ + 1]
  /\ Unlock(cur(t))
  /\ Step(t)
  /\ UNCHANGED <<live, parent, at, kids, fvars, dvars, hvars>>

\* t is in fs_delete() past the look at the table
Deleting(t) == call[t].op = "delete" /\ pc[t] \in {"at", "locked"}

\* The driver finds the item: a new node joins from->children
Load(t) ==
  LET n == cur(t)
      x == Head(call[t].rest) IN
  /\ At(t, "miss")
  /\ at[n] \notin stuck
  /\ nullfs_d_walk(n, x)
  /\ \E s \in Slots \ live :
       /\ live' = live \cup {s}
       /\ refs' = [refs EXCEPT ![s] = 1]
       /\ lock' = [m \in Slots |-> IF m \in {s, n} THEN NoThread ELSE lock[m]]
       /\ parent' = [parent EXCEPT ![s] = n]
       /\ at' = [at EXCEPT ![s] = Item(n, x)]
       /\ kids' = [m \in Slots |-> IF m = s THEN {}
                                  ELSE IF m = n THEN kids[m] \cup {<<x, s>>} ELSE kids[m]]
       /\ call' = [call EXCEPT ![t].nxt = s]
       /\ seen' = [u \in Threads |-> IF Deleting(u) THEN seen[u] \cup {s} ELSE {}]
  /\ Goto(t, "new")
  /\ UNCHANGED <<fvars, dvars, todo, leaked>>

\* There is no such item, from is no directory, or there is no memory
Miss(t) ==
  /\ At(t, "miss")
  /\ at[cur(t)] \notin stuck
  /\ Unlock(cur(t))
  /\ Return(t, cur(t))
  /\ UNCHANGED <<live, refs, parent, at, kids, fvars, dvars, hvars>>

\* ref_fs_node(n->parent), from no longer being locked
NewParent(t) ==
  /\ At(t, "new")
  /\ Free(cur(t))
  /\ refs' = [refs EXCEPT ![cur(t)] = @ + 1]
  /\ Goto(t, "newfs")
  /\ UNCHANGED <<live, lock, parent, at, kids, fvars, dvars, call, todo, hvars>>

\* ref_fs(n->fs): the fs of every node is the one it was loaded from
NewFs(t) ==
  /\ At(t, "newfs")
  /\ fsrefs' = [fsrefs EXCEPT !["main"] = @ + 1]
  /\ Step(t)
  /\ UNCHANGED <<nvars, fsroot, owned, handles, dvars, hvars>>

-----------------------------------------------------------------------------
(***************************************************************************)
(* The end of the calls.                                                   *)
(***************************************************************************)

Arrived(t, op) == At(t, "walk") /\ call[t].rest = <<>> /\ call[t].op = op

\* A reference to n is never dropped.  At most one node loses references, and
\* MaxLeaks of them.
Lose(n) ==
  /\ leaked[n] < MaxLeaks
  /\ \A m \in Slots \ {n} : leaked[m] = 0
  /\ leaked' = [leaked EXCEPT ![n] = @ + 1]

\* fs_delete() looks for the child before it takes the lock: when the child is
\* in memory it returns false and keeps its reference to the parent
DeleteInMemory(t) ==
  /\ Arrived(t, "delete")
  /\ Child(cur(t), call[t].last) # {}
  /\ Lose(cur(t))
  /\ Goto(t, "idle")
  /\ call' = [call EXCEPT ![t] = NoCall]
  /\ UNCHANGED <<nvars, fvars, dvars, todo, seen>>

\* fs_delete() that does not look
DeleteLooked_Not(t) ==
  /\ Arrived(t, "delete")
  /\ Goto(t, "at")
  /\ seen' = [seen EXCEPT ![t] = {}]
  /\ UNCHANGED <<nvars, fvars, dvars, call, todo, leaked>>

\* It is not
DeleteLooked(t) ==
  /\ Arrived(t, "delete")
  /\ Child(cur(t), call[t].last) = {}
  /\ Goto(t, "at")
  /\ seen' = [seen EXCEPT ![t] = {}]
  /\ UNCHANGED <<nvars, fvars, dvars, call, todo, leaked>>

\* mutex_lock(&n->lock) around the operation of the driver
LockNode(t) ==
  /\ \/ At(t, "at")
     \/ Arrived(t, "open") \/ Arrived(t, "stat") \/ Arrived(t, "create")
  /\ Lock(t, cur(t))
  /\ Goto(t, "locked")
  /\ UNCHANGED <<live, refs, parent, at, kids, fvars, dvars, call, todo, hvars>>

\* t is in operation op of the driver, with the node locked.  The drivers of
\* directories take the lock of the nullfs_dir_t.
Driver(t, op) ==
  /\ At(t, "locked")
  /\ call[t].op = op
  /\ op # "open" => at[cur(t)] \notin stuck

\* The node stays locked
Done_Locked(t) ==
  /\ Return(t, cur(t))
  /\ seen' = [seen EXCEPT ![t] = {}]
  /\ UNCHANGED <<nvars, fvars, leaked>>

\* The operation ends: the node is unlocked and its reference dropped
Done(t) ==
  /\ Unlock(cur(t))
  /\ Return(t, cur(t))
  /\ seen' = [seen EXCEPT ![t] = {}]
  /\ UNCHANGED <<live, refs, parent, at, kids, fvars, leaked>>

fs_stat(t) == Driver(t, "stat") /\ Done(t) /\ UNCHANGED dvars

fs_create(t) ==
  /\ Driver(t, "create")
  /\ nullfs_d_create(cur(t), call[t].last)
  /\ Done(t)

fs_delete(t) ==
  /\ Driver(t, "delete")
  /\ nullfs_d_delete(cur(t), call[t].last)
  /\ Done(t)

fs_delete_astray(t) ==
  /\ Driver(t, "delete")
  /\ nullfs_d_delete_astray(cur(t), call[t].last)
  /\ UNCHANGED <<nvars, fvars, tvars, hvars>>

fs_delete_fails(t) ==
  /\ Driver(t, "delete")
  /\ nullfs_d_delete_fails(cur(t), call[t].last)
  /\ Done(t)

\* ops->open() accepts the mode
OpenOk(t) ==
  /\ Driver(t, "open")
  /\ Unlock(cur(t))
  /\ Goto(t, "opened")
  /\ UNCHANGED <<live, refs, parent, at, kids, fvars, dvars, call, todo, hvars>>

OpenFails(t) == Driver(t, "open") /\ Done(t) /\ UNCHANGED dvars

\* The reference to the node becomes the handle's; ref_fs(fs)
fs_open(t) ==
  LET f == call[t].fs IN
  /\ At(t, "opened")
  /\ fsrefs' = [fsrefs EXCEPT ![f] = @ + 1]
  /\ handles' = [handles EXCEPT ![t] = @ \cup {<<f, cur(t)>>}]
  /\ Goto(t, "idle")
  /\ call' = [call EXCEPT ![t] = NoCall]
  /\ UNCHANGED <<nvars, fsroot, owned, dvars, todo, hvars>>

\* fs_subfs(): the reference to the node becomes the new file system's
fs_subfs(t) ==
  /\ Arrived(t, "subfs")
  /\ fsrefs["sub"] = 0
  /\ fsrefs' = [fsrefs EXCEPT !["sub"] = 1]
  /\ fsroot' = [fsroot EXCEPT !["sub"] = cur(t)]
  /\ owned' = owned \cup {"sub"}
  /\ Goto(t, "idle")
  /\ call' = [call EXCEPT ![t] = NoCall]
  /\ UNCHANGED <<nvars, handles, dvars, todo, hvars>>

\* malloc() fails: the reference is lost
SubfsFails(t) ==
  /\ Arrived(t, "subfs")
  /\ Goto(t, "idle")
  /\ call' = [call EXCEPT ![t] = NoCall]
  /\ Lose(cur(t))
  /\ UNCHANGED <<nvars, fvars, dvars, todo, seen>>

-----------------------------------------------------------------------------
(***************************************************************************)
(* Dropping references.                                                    *)
(***************************************************************************)

\* unref_file() on the last reference of a handle, by any thread
unref_file(t, u, h) ==
  /\ At(t, "idle")
  /\ h \in handles[u]
  /\ handles' = [handles EXCEPT ![u] = @ \ {h}]
  /\ call' = [call EXCEPT ![t] = NoCall]
  /\ todo' = [todo EXCEPT ![t] = <<node(h[2]), fsys(h[1])>>]
  /\ UNCHANGED <<nvars, fsrefs, fsroot, owned, dvars, pc, hvars>>

\* A process gives up a file system
rm_fs(t, f) ==
  /\ At(t, "idle")
  /\ f \in owned
  /\ \A u \in Threads : call[u].fs = f => At(u, "idle")
  /\ owned' = owned \ {f}
  /\ call' = [call EXCEPT ![t] = NoCall]
  /\ todo' = [todo EXCEPT ![t] = <<fsys(f)>>]
  /\ UNCHANGED <<nvars, fsrefs, fsroot, handles, dvars, pc, hvars>>

\* The next call of unref_*() of t
Doing(t, do) == todo[t] # <<>> /\ Head(todo[t]).do = do

\* The stack of t once its first item has been replaced by s
Instead(t, s) == todo' = [todo EXCEPT ![t] = s \o Tail(@)]

\* unref_fs_node(): not the last reference
UnrefNode(t) ==
  LET n == Head(todo[t]).n IN
  /\ Doing(t, "node")
  /\ Free(n)
  /\ refs[n] > 1
  /\ refs' = [refs EXCEPT ![n] = @ - 1]
  /\ Instead(t, <<>>)
  /\ UNCHANGED <<live, lock, parent, at, kids, fvars, dvars, pc, call, hvars>>

\* unref_fs_node(): the last reference; n stays locked
LastRef(t) ==
  LET n == Head(todo[t]).n IN
  /\ Doing(t, "node")
  /\ refs[n] <= 1
  /\ Lock(t, n)
  /\ refs' = [refs EXCEPT ![n] = @ - 1]
  /\ Instead(t, <<par(n)>>)
  /\ UNCHANGED <<live, parent, at, kids, fvars, dvars, pc, call, hvars>>

\* n is not in the way of the item that has replaced its own any more
ItemShown(n) ==
  /\ former' = former \ {n} /\ freed' = freed \ {n}
  /\ \/ n \notin former /\ UNCHANGED <<disk, stuck, listed>>
     \/ /\ n \in former
        /\ disk' = disk \ Below(at[n])
        /\ stuck' = stuck \ (Below(at[n]) \cup {at[n]})
        /\ listed' = Lists(<<>>, 0, Below(at[n]) \cup {at[n]})

\* The table of the parent keeps the node
Unlink_Stays(t) ==
  LET n == Head(todo[t]).n IN
  /\ Doing(t, "parent")
  /\ parent[n] # NoSlot
  /\ Free(parent[n])
  /\ Instead(t, <<node(parent[n]), fsys("main"), free(n)>>)
  /\ UNCHANGED <<nvars, fvars, dvars, pc, call, hvars>>

\* It takes the lock of the parent to leave its table
Unlink(t) ==
  LET n == Head(todo[t]).n IN
  /\ Doing(t, "parent")
  /\ parent[n] # NoSlot
  /\ Free(parent[n])
  /\ kids' = [kids EXCEPT ![parent[n]] = {k \in @ : k[1] # at[n][Len(at[n])]}]
  /\ Instead(t, <<node(parent[n]), fsys("main"), free(n)>>)
  /\ ItemShown(n)
  /\ UNCHANGED <<live, refs, lock, parent, at, fvars, pc, call, hvars>>

\* free(n): what it held is forgotten
FreeNode(t) ==
  LET n == Head(todo[t]).n IN
  /\ Doing(t, "free")
  /\ live' = live \ {n}
  /\ Unlock(n)
  /\ at' = [at EXCEPT ![n] = <<>>]
  /\ parent' = [parent EXCEPT ![n] = NoSlot]
  /\ Instead(t, <<>>)
  /\ UNCHANGED <<refs, kids, fvars, dvars, pc, call, hvars>>

\* unref_fs(): with the last reference, a file system made by fs_subfs() drops
\* its root; the root of any other is disposed of
unref_fs(t) ==
  LET f == Head(todo[t]).fs IN
  /\ Doing(t, "fs")
  /\ fsrefs' = [fsrefs EXCEPT ![f] = @ - 1]
  /\ Instead(t, IF f = "sub" /\ fsrefs[f] = 1 THEN <<node(fsroot[f])>> ELSE <<>>)
  /\ IF f = "main" /\ fsrefs[f] = 1
     THEN live' = live \ {Root} /\ UNCHANGED fsroot
     ELSE UNCHANGED live /\ fsroot' = IF fsrefs[f] = 1
                                      THEN [fsroot EXCEPT ![f] = NoSlot] ELSE fsroot
  /\ UNCHANGED <<refs, lock, parent, at, kids, owned, handles, dvars, pc, call,
                 hvars>>

Next ==
  \E t \in Threads :
    \/ \E a \in Asked : Begin(t, a[1], a[2], a[3])
    \/ Look(t) \/ Found(t) \/ Load(t) \/ Miss(t)
    \/ NewParent(t) \/ NewFs(t)
    \/ DeleteInMemory(t) \/ DeleteLooked(t) \/ LockNode(t)
    \/ fs_stat(t) \/ fs_create(t)
    \/ fs_delete(t) \/ fs_delete_astray(t) \/ fs_delete_fails(t)
    \/ OpenOk(t) \/ OpenFails(t) \/ fs_open(t) \/ fs_subfs(t) \/ SubfsFails(t)
    \/ \E u \in Threads : \E h \in handles[u] : unref_file(t, u, h)
    \/ \E f \in Fs : rm_fs(t, f)
    \/ UnrefNode(t) \/ LastRef(t) \/ Unlink(t) \/ FreeNode(t) \/ unref_fs(t)

Spec == Init /\ [][Next]_vars

-----------------------------------------------------------------------------
(***************************************************************************)
(* Properties.                                                             *)
(***************************************************************************)

\* How often an item is in the stacks
Places(x) == UNION {{t} \X {i \in DOMAIN todo[t] : todo[t][i] = x} : t \in Threads}

InCall(t) == pc[t] # "idle"

\* s has left the table of its parent and is about to be freed
Unlinked(s) == \E t \in Threads : free(s) \in Range(todo[t])

\* The threads that have loaded s and still owe it the references in states pcs
Loading(s, pcs) == {t \in Threads : pc[t] \in pcs /\ call[t].nxt = s}

\* s holds a reference on its parent, and on its file system
HoldsParent(s) == s \in live \ {Root} /\ ~ Unlinked(s) /\ Loading(s, {"new"}) = {}
HoldsFs(s) == s \in live \ {Root} /\ ~ Unlinked(s) /\ Loading(s, {"new", "newfs"}) = {}

\* Who has a reference on the node n: calls, children in memory, handles and
\* file systems; and who has one on the file system f
Walkers(n) == {t \in Threads : InCall(t) /\ cur(t) = n}
Children(n) == {s \in live : HoldsParent(s) /\ parent[s] = n}
OpenNodes(n) == {x \in Threads \X Fs : <<x[2], n>> \in handles[x[1]]}
Roots(n) == {f \in Fs : fsrefs[f] > 0 /\ fsroot[f] = n}
OpenFiles(f) == {x \in Threads \X Slots : <<f, x[2]>> \in handles[x[1]]}
Nodes(f) == IF f = "main" THEN {s \in live : HoldsFs(s)} ELSE {}

NodeRefs(n) ==
  Cardinality(Walkers(n)) + Cardinality(Loading(n, {"new", "newfs"})) + Cardinality(Places(node(n)))
  + Cardinality(Children(n)) + Cardinality(OpenNodes(n)) + Cardinality(Roots(n)) + leaked[n]
FsRefs(f) ==
  Cardinality({f} \cap owned) + Cardinality(Places(fsys(f)))
  + Cardinality(OpenFiles(f)) + Cardinality(Nodes(f))

\* Every reference count is the number of references there are, those that
\* fs_delete() and fs_subfs() lose included.
CountsExact ==
  /\ \A n \in live : refs[n] = NodeRefs(n)
  /\ \A f \in Fs : fsrefs[f] = FsRefs(f)

\* No freed node and no freed file system is reached from anywhere: calls,
\* pending unref_*(), handles, roots, parents or tables of children.
NoDangling ==
  /\ \A t \in Threads :
       /\ InCall(t) => fsrefs[call[t].fs] > 0 /\ cur(t) \in live
       /\ pc[t] \in {"found", "new", "newfs"} => call[t].nxt \in live
       /\ \A i \in DOMAIN todo[t] :
            IF todo[t][i].do = "fs" THEN fsrefs[todo[t][i].fs] > 0
            ELSE todo[t][i].n \in live
       /\ \A h \in handles[t] : fsrefs[h[1]] > 0 /\ h[2] \in live
  /\ \A f \in Fs : fsrefs[f] > 0 => fsroot[f] \in live
  /\ \A n \in live : \A k \in kids[n] : k[2] \in live
  /\ \A s \in live : HoldsParent(s) => parent[s] \in live

\* References are what keeps nodes and file systems alive, across walks, errors,
\* deletes and releases that interleave: each is counted, and nothing
\* that was freed is used again.
RefsExact == TypeOK /\ CountsExact /\ NoDangling

\* A node "can be in memory only once" (vfs.h:74): two nodes with references never
\* have one path, and a node is in its parent's table from the moment it is loaded
\* until it is unlinked.
OnceInMemory ==
  /\ \A m, n \in live : refs[m] > 0 /\ refs[n] > 0 /\ at[m] = at[n] => m = n
  /\ \A n \in live : \A s \in Slots :
       (\E k \in kids[n] : k[2] = s)
         <=> s \in live \ {Root} /\ ~ Unlinked(s) /\ parent[s] = n

\* The assertions of unref_fs_node() and unref_fs() hold: the root is only given
\* up with its file system, when no other reference to it is left but the lost
\* ones, and a node that is freed has no child in memory.
AssertsHold ==
  \A t \in Threads : todo[t] # <<>> =>
    LET x == Head(todo[t]) IN
    /\ x.do = "parent" => x.n # Root /\ parent[x.n] # NoSlot
    /\ x.do = "free" => kids[x.n] = {}
    /\ x = fsys("main") /\ fsrefs["main"] = 1 => refs[Root] = 1 + leaked[Root]

\* The node whose lock t is about to take, if any
Wants(t) ==
  IF todo[t] # <<>>
  THEN LET x == Head(todo[t]) IN
       CASE x.do = "node" -> x.n
         [] x.do = "parent" -> parent[x.n]
         [] OTHER -> NoSlot
  ELSE CASE pc[t] \in {"walk", "new", "at"} -> cur(t)
         [] pc[t] = "found" -> call[t].nxt
         [] OTHER -> NoSlot

WaitsFor(t, u) == Wants(t) # NoSlot /\ lock[Wants(t)] = u

\* Locks are taken from parent to child, except by unref_fs_node(), which takes
\* the lock of the parent while it holds that of a node with no reference left.
\* So threads block one another only in that one way: fs_walk_one() has found
\* the node that unref_fs_node() is about to remove.
OnlyUnrefDeadlocks ==
  \A t, u \in Threads : WaitsFor(t, u) /\ WaitsFor(u, t) =>
    \E a \in {t, u} : \E b \in {t, u} \ {a} :
      /\ Doing(a, "parent")
      /\ pc[b] = "found"
      /\ call[b].nxt = Head(todo[a]).n

\* vfs.h:76 guarantees that delete() is never called on a node in use.  fs_delete()
\* does not keep that: it looks among the nodes in memory before it takes the lock
\* (vfs.c:340-345).  What it does keep: if a node in use has the path of the item
\* that goes, it came into memory between the look and delete(); and any other
\* node in use stands for an item that the directory has, except one that
\* fs_create() has replaced (nullfs.c:359, 397).
DeleteLooksFirst ==
  /\ [](\A n \in live \ (former \cup freed \cup {Root}) : refs[n] > 0 => at[n] \in disk)
  /\ [][\A t \in Threads : fs_delete(t) \/ fs_delete_astray(t) =>
         \A n \in live :
           at[n] = Item(cur(t), call[t].last) /\ refs[n] > 0 => n \in seen[t]]_vars
=============================================================================
