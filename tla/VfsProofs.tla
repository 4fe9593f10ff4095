------------------------------- MODULE VfsProofs -------------------------------
(***************************************************************************)
(* Proofs about module Vfs, for any threads, nodes and paths.              *)
(*                                                                         *)
(* That the counts are exact and that nothing freed is reached need each   *)
(* other: a node is freed when its count is 0, and a count says nothing of *)
(* a node that has been freed.  What links the two is where nodes are: in  *)
(* the table of their parent until they are unlinked (Tree), locked from   *)
(* their last reference on (Locks), on the stacks of one thread (Stacks),  *)
(* and below the root of the file system that they are reached through     *)
(* (CallsInStep, HandlesPlaced), which is why unref_fs() finds the root    *)
(* without any other reference.                                            *)
(***************************************************************************)
EXTENDS Vfs, FiniteSetTheorems, SequenceTheorems, TLAPS

Removed(n) == {par(n), free(n)}
Linked(s) == s \in live \ {Root} /\ ~ Unlinked(s)

\* The stacks: of each unref_fs_node() that has found no reference left there is
\* one item, at the head until the node is unlinked.
StackOk(t) ==
  /\ pc[t] \notin {"idle", "walk"} => todo[t] = <<>>
  /\ \A i \in DOMAIN todo[t] :
       LET x == todo[t][i] IN
       /\ x \in {node(x.n), par(x.n), free(x.n), fsys(x.fs)}
       /\ x.do # "fs" => x.n \in live
       /\ x.do = "parent" => i = 1
       /\ x \in Removed(x.n) => x.n # Root /\ refs[x.n] = 0
       /\ \A j \in DOMAIN todo[t] :
            x \in Removed(x.n) /\ todo[t][j] \in Removed(x.n) => i = j
Stacks == \A t \in Threads : StackOk(t)

Tree ==
  /\ at[Root] = <<>>
  /\ \A s \in Slots : Linked(s) =>
       parent[s] \in live /\ \E k \in kids[parent[s]] : k[2] = s
  /\ \A n \in live : \A k \in kids[n] :
       Linked(k[2]) /\ parent[k[2]] = n /\ at[k[2]] = Append(at[n], k[1])
  /\ \A n \in live : \A j, k \in kids[n] : j[1] = k[1] => j = k

\* Who holds the lock of a node.
InDriver(t, n) == pc[t] \in {"found", "miss", "locked"} /\ cur(t) = n
Removes(t, n) == \E i \in DOMAIN todo[t] : todo[t][i] \in Removed(n)
Locks ==
  /\ \A n \in Slots : \A t \in Threads : lock[n] = t <=> InDriver(t, n) \/ Removes(t, n)
  /\ \A n \in live : refs[n] = 0 => ~ Free(n)

Depth(n) == Len(at[n])
CallInStep(t) ==
  LET c == call[t] IN
  /\ (InCall(t) \/ todo[t] # <<>>) /\ c.fs # "none" => c.fs \in owned
  /\ InCall(t) => /\ c.fs \in Fs /\ c.cur \in live
                  /\ Depth(fsroot[c.fs]) <= Depth(c.cur)
                  /\ c.op = "subfs" => Depth(c.cur) + Len(c.rest) >= 1
                  /\ c.op = "open" => handles[t] = {}
  /\ pc[t] \in {"found", "new", "newfs"} =>
       c.rest # <<>> /\ <<Head(c.rest), c.nxt>> \in kids[c.cur]
  /\ pc[t] = "miss" => c.rest # <<>> /\ Child(c.cur, Head(c.rest)) = {}
  /\ pc[t] = "opened" => c.op = "open"
CallsInStep == \A t \in Threads : CallInStep(t)

\* A node is loaded by one thread.
LoadedByOne == \A t, u \in Threads :
  {pc[t], pc[u]} \subseteq {"new", "newfs"} /\ call[t].nxt = call[u].nxt => t = u

HandlesPlaced == \A t \in Threads : \A h \in handles[t] :
  h[2] \in live /\ Depth(fsroot[h[1]]) <= Depth(h[2])

FsPlaced ==
  /\ fsroot["main"] = Root
  /\ Root \in live <=> fsrefs["main"] > 0
  /\ fsrefs["sub"] > 0 => fsroot["sub"] \in live /\ Depth(fsroot["sub"]) >= 1
  /\ \A j \in disk : Front(j) \in Dirs
  /\ \A n \in Slots : leaked[n] > 0 => n \in live \/ n = Root

\* Who drops a reference to the root has one on the file system until later.
RootKept == \A t \in Threads : \A i \in DOMAIN todo[t] :
  todo[t][i] = node(Root) =>
    call[t].fs = "main" \/ \E j \in DOMAIN todo[t] : j > i /\ todo[t][j] = fsys("main")

OncePerItem ==
  \A m, n \in live : refs[m] > 0 /\ refs[n] > 0 /\ at[m] = at[n] => m = n

LookedUp == \A t \in Threads : Deleting(t) =>
  \A n \in live :
    at[n] = Item(cur(t), call[t].last) /\ refs[n] > 0 => n \in seen[t]

\* There are finitely many calls under way.
StacksFinite == \A x \in Items : IsFiniteSet(Places(x))

IInv ==
  /\ TypeOK
  /\ StacksFinite
  /\ CountsExact
  /\ Stacks
  /\ Tree
  /\ Locks
  /\ CallsInStep
  /\ LoadedByOne
  /\ HandlesPlaced
  /\ FsPlaced
  /\ RootKept
  /\ OncePerItem
  /\ LookedUp

-----------------------------------------------------------------------------
(***************************************************************************)
(* Counting.                                                               *)
(***************************************************************************)

One(b) == IF b THEN 1 ELSE 0

\* A set that one element may join or leave.
LEMMA OneMoves ==
  ASSUME NEW S, NEW T, NEW a, IsFiniteSet(S),
         \A b : b # a => (b \in T <=> b \in S)
  PROVE  /\ IsFiniteSet(T)
         /\ Cardinality(T) = Cardinality(S) + One(a \in T) - One(a \in S)
         /\ Cardinality(S) \in Nat /\ Cardinality(T) \in Nat
<1>1. Cardinality(S) \in Nat
  BY FS_CardinalityType
<1>2. CASE a \in T <=> a \in S
  <2>1. T = S
    BY <1>2
  <2> QED
    BY <1>1, <2>1 DEF One
<1>3. CASE a \in T /\ a \notin S
  <2>1. T = S \cup {a}
    BY <1>3
  <2> QED
    BY <1>1, <1>3, <2>1, FS_AddElement DEF One
<1>4. CASE a \notin T /\ a \in S
  <2>1. T = S \ {a}
    BY <1>4
  <2>2. IsFiniteSet(T) /\ Cardinality(T) = Cardinality(S) - 1
    BY <1>4, <2>1, FS_RemoveElement
  <2>3. Cardinality(T) \in Nat
    BY <2>2, FS_CardinalityType
  <2> QED
    BY <1>1, <1>4, <2>2, <2>3 DEF One
<1> QED
  BY <1>2, <1>3, <1>4

\* A finite set with an element has a positive count.
LEMMA Counted ==
  ASSUME NEW S, IsFiniteSet(S)
  PROVE  /\ Cardinality(S) \in Nat
         /\ \A a \in S : Cardinality(S) >= 1
         /\ \A a, b \in S : a # b => Cardinality(S) >= 2
         /\ S = {} => Cardinality(S) = 0
<1>1. Cardinality(S) \in Nat /\ (Cardinality(S) = 0 <=> S = {})
  BY FS_CardinalityType, FS_EmptySet
<1>2. ASSUME NEW a \in S, NEW b \in S, a # b PROVE Cardinality(S) >= 2
  <2>1. IsFiniteSet(S \ {a}) /\ Cardinality(S \ {a}) = Cardinality(S) - 1
    BY FS_RemoveElement
  <2>2. b \in S \ {a}
    BY <1>2
  <2>3. Cardinality(S \ {a}) \in Nat /\ Cardinality(S \ {a}) # 0
    BY <2>1, <2>2, FS_CardinalityType, FS_EmptySet
  <2> QED
    BY <1>1, <2>1, <2>3
<1> QED
  BY <1>1, <1>2

\* Whatever is counted is a part of one of these sets.
LEMMA ProductsFinite ==
  /\ IsFiniteSet(Threads) /\ IsFiniteSet(Slots) /\ IsFiniteSet(Fs)
  /\ IsFiniteSet(Threads \X Fs) /\ IsFiniteSet(Threads \X Slots)
<1>1. IsFiniteSet({"main"})
  BY FS_Singleton
<1>2. IsFiniteSet({"main"} \cup {"sub"})
  BY <1>1, FS_AddElement
<1>3. Fs = {"main"} \cup {"sub"}
  BY DEF Fs
<1>4. IsFiniteSet(Threads) /\ IsFiniteSet(Slots) /\ IsFiniteSet(Fs)
  BY <1>2, <1>3, VfsAssumption
<1> QED
  BY <1>4, FS_Product

\* Everything that is counted is finite.
LEMMA HoldersFinite ==
  ASSUME TypeOK, NEW n, NEW f
  PROVE  /\ IsFiniteSet(Walkers(n)) /\ IsFiniteSet(Loading(n, {"new", "newfs"}))
         /\ IsFiniteSet(Children(n))
         /\ IsFiniteSet(OpenNodes(n)) /\ IsFiniteSet(Roots(n))
         /\ IsFiniteSet({f} \cap owned) /\ IsFiniteSet(OpenFiles(f))
         /\ IsFiniteSet(Nodes(f))
<1>1. Walkers(n) \in SUBSET Threads /\ Loading(n, {"new", "newfs"}) \in SUBSET Threads
  BY DEF Walkers, Loading
<1>2. OpenNodes(n) \in SUBSET (Threads \X Fs) /\ OpenFiles(f) \in SUBSET (Threads \X Slots)
  BY DEF OpenNodes, OpenFiles
<1>3. Roots(n) \in SUBSET Fs
  BY DEF Roots
<1>4. Children(n) \in SUBSET Slots /\ Nodes(f) \in SUBSET Slots
  BY DEF Children, Nodes, TypeOK
<1>5. {f} \cap owned \in SUBSET {f} /\ IsFiniteSet({f})
  BY FS_Singleton
<1>6. IsFiniteSet(Walkers(n)) /\ IsFiniteSet(Loading(n, {"new", "newfs"}))
  BY <1>1, ProductsFinite, FS_Subset
<1>7. IsFiniteSet(OpenNodes(n)) /\ IsFiniteSet(OpenFiles(f))
  BY <1>2, ProductsFinite, FS_Subset
<1>8. IsFiniteSet(Roots(n))
  BY <1>3, ProductsFinite, FS_Subset
<1>9. IsFiniteSet(Children(n)) /\ IsFiniteSet(Nodes(f))
  BY <1>4, ProductsFinite, FS_Subset
<1>10. IsFiniteSet({f} \cap owned)
  BY <1>5, FS_Subset
<1> QED
  BY <1>6, <1>7, <1>8, <1>9, <1>10

-----------------------------------------------------------------------------
(***************************************************************************)
(* Stacks.                                                                 *)
(***************************************************************************)

\* Items differ when what they are about does.
LEMMA ItemFacts ==
  /\ \A n \in Slots : node(n) \in Items /\ par(n) \in Items /\ free(n) \in Items
  /\ \A f \in Fs : fsys(f) \in Items
  /\ \A n : node(n).do = "node" /\ par(n).do = "parent" /\ free(n).do = "free"
  /\ \A n : node(n).n = n /\ par(n).n = n /\ free(n).n = n
  /\ \A f : fsys(f).do = "fs" /\ fsys(f).fs = f
  /\ \A x \in Items : x.fs \in Fs /\ x.n \in Slots \cup {NoSlot}
BY DEF node, par, free, fsys, Items, Fs

\* The places of an item in some stacks.
PlacesIn(f, x) == UNION {{t} \X {i \in DOMAIN f[t] : f[t][i] = x} : t \in Threads}

\* PlacesIn() says where an item stands, stack by stack.
LEMMA InPlaces ==
  ASSUME NEW f, NEW x
  PROVE  \A p : p \in PlacesIn(f, x) <=>
           \E t \in Threads : \E i \in DOMAIN f[t] : p = <<t, i>> /\ f[t][i] = x
BY DEF PlacesIn

\* Places(x) is PlacesIn() of the stacks, before a step and after it.
LEMMA PlacesAreIn == \A x : Places(x) = PlacesIn(todo, x) /\ Places(x)' = PlacesIn(todo', x)
BY DEF Places, PlacesIn

\* An item is put onto a stack, and what was there moves up.
Push(y, s) == <<y>> \o s

\* What Push() makes of a sequence.
LEMMA Shifted ==
  ASSUME NEW s \in Seq(Items), NEW y \in Items
  PROVE  LET r == Push(y, s) IN
         /\ r \in Seq(Items) /\ DOMAIN r = 1 .. (Len(s) + 1) /\ DOMAIN s = 1 .. Len(s)
         /\ Len(s) \in Nat /\ r[1] = y
         /\ \A i \in 1 .. Len(s) : r[i + 1] = s[i]
<1>1. <<y>> \in Seq(Items) /\ Len(<<y>>) = 1 /\ <<y>>[1] = y
  OBVIOUS
<1>2. Len(<<y>> \o s) = 1 + Len(s) /\ <<y>> \o s \in Seq(Items)
  BY <1>1, ConcatProperties
<1>3. \A i \in 1 .. Len(s) + 1 : (<<y>> \o s)[i] = IF i <= 1 THEN <<y>>[i] ELSE s[i - 1]
  BY <1>1, <1>2, ConcatProperties
<1>4. Len(s) \in Nat
  OBVIOUS
<1>5. ASSUME NEW i \in 1 .. Len(s) PROVE (<<y>> \o s)[i + 1] = s[i]
  <2>1. i + 1 \in 1 .. Len(s) + 1 /\ ~ (i + 1 <= 1) /\ (i + 1) - 1 = i
    BY <1>4
  <2> QED
    BY <1>3, <2>1
<1> QED
  BY <1>1, <1>2, <1>3, <1>4, <1>5 DEF Push

\* A push adds one place of the item pushed, and none of any other.
LEMMA Pushed ==
  ASSUME NEW f \in [Threads -> Seq(Items)], NEW g \in [Threads -> Seq(Items)],
         NEW t \in Threads, NEW y \in Items, NEW x,
         g[t] = Push(y, f[t]), \A u \in Threads : u # t => g[u] = f[u]
  PROVE  /\ IsFiniteSet(PlacesIn(f, x)) <=> IsFiniteSet(PlacesIn(g, x))
         /\ IsFiniteSet(PlacesIn(f, x)) =>
              /\ Cardinality(PlacesIn(f, x)) \in Nat /\ Cardinality(PlacesIn(g, x)) \in Nat
              /\ x = y => Cardinality(PlacesIn(g, x)) = Cardinality(PlacesIn(f, x)) + 1
              /\ x # y => Cardinality(PlacesIn(g, x)) = Cardinality(PlacesIn(f, x))
<1> DEFINE F == PlacesIn(f, x)
           G == PlacesIn(g, x)
           H == G \ {<<t, 1>>}
           h == [p \in F |-> IF p[1] = t THEN <<t, p[2] + 1>> ELSE p]
<1>1. /\ Len(f[t]) \in Nat
      /\ DOMAIN f[t] = 1 .. Len(f[t]) /\ DOMAIN g[t] = 1 .. (Len(f[t]) + 1)
      /\ g[t][1] = y /\ \A i \in 1 .. Len(f[t]) : g[t][i + 1] = f[t][i]
  <2>1. f[t] \in Seq(Items)
    OBVIOUS
  <2>2. /\ Push(y, f[t]) \in Seq(Items) /\ DOMAIN Push(y, f[t]) = 1 .. (Len(f[t]) + 1)
        /\ DOMAIN f[t] = 1 .. Len(f[t]) /\ Len(f[t]) \in Nat /\ Push(y, f[t])[1] = y
        /\ \A i \in 1 .. Len(f[t]) : Push(y, f[t])[i + 1] = f[t][i]
    BY <2>1, Shifted
  <2> QED
    BY <2>2
<1>2. ASSUME NEW p \in F PROVE h[p] \in H
  <2>1a. PICK u \in Threads : \E i \in DOMAIN f[u] : p = <<u, i>> /\ f[u][i] = x
    BY <1>2, InPlaces
  <2>1. PICK i \in DOMAIN f[u] : p = <<u, i>> /\ f[u][i] = x
    BY <2>1a
  <2>2. CASE u = t
    <3>1. h[p] = <<t, i + 1>> /\ i + 1 # 1 /\ i + 1 \in DOMAIN g[t] /\ g[t][i + 1] = x
      BY <1>1, <2>1, <2>2
    <3>2. <<t, i + 1>> \in G
      BY <3>1, InPlaces
    <3>3. <<t, i + 1>> # <<t, 1>>
      BY <3>1
    <3> QED
      BY <3>1, <3>2, <3>3
  <2>3. CASE u # t
    <3>1. h[p] = <<u, i>> /\ i \in DOMAIN g[u] /\ g[u][i] = x
      BY <2>1, <2>3
    <3> QED
      BY <3>1, <2>3, InPlaces
  <2> QED
    BY <2>2, <2>3
<1>3. ASSUME NEW p \in F, NEW q \in F, h[p] = h[q] PROVE p = q
  <2>1a. PICK u \in Threads : \E i \in DOMAIN f[u] : p = <<u, i>>
    BY InPlaces
  <2>1. PICK i \in DOMAIN f[u] : p = <<u, i>>
    BY <2>1a
  <2>2a. PICK v \in Threads : \E j \in DOMAIN f[v] : q = <<v, j>>
    BY InPlaces
  <2>2. PICK j \in DOMAIN f[v] : q = <<v, j>>
    BY <2>2a
  <2>3. /\ h[p] = IF u = t THEN <<t, i + 1>> ELSE <<u, i>>
        /\ h[q] = IF v = t THEN <<t, j + 1>> ELSE <<v, j>>
    BY <2>1, <2>2
  <2>4. u = v
    BY <1>3, <2>3
  <2>5. u = t => i = j
    <3>1. u = t => i \in Nat /\ j \in Nat /\ i + 1 = j + 1
      BY <1>1, <1>3, <2>3, <2>4
    <3> QED
      BY <3>1
  <2>6. u # t => i = j
    BY <1>3, <2>3, <2>4
  <2> QED
    BY <2>1, <2>2, <2>4, <2>5, <2>6
<1>4. ASSUME NEW q \in H PROVE \E p \in F : h[p] = q
  <2>1a. PICK u \in Threads : \E i \in DOMAIN g[u] : q = <<u, i>> /\ g[u][i] = x
    BY <1>4, InPlaces
  <2>1. PICK i \in DOMAIN g[u] : q = <<u, i>> /\ g[u][i] = x
    BY <2>1a
  <2>2. CASE u = t
    <3>1. i \in 1 .. (Len(f[t]) + 1) /\ i # 1
      BY <1>1, <1>4, <2>1, <2>2
    <3>2. i - 1 \in 1 .. Len(f[t]) /\ (i - 1) + 1 = i
      BY <1>1, <3>1
    <3>5. g[t][(i - 1) + 1] = f[t][i - 1] /\ i - 1 \in DOMAIN f[t]
      BY <1>1, <3>2
    <3>6. f[t][i - 1] = x
      BY <2>1, <2>2, <3>2, <3>5
    <3>3. <<t, i - 1>> \in F
      BY <3>5, <3>6, InPlaces
    <3>4. h[<<t, i - 1>>] = q
      BY <2>1, <2>2, <3>2, <3>3
    <3> QED
      BY <3>3, <3>4
  <2>3. CASE u # t
    <3>1. q \in F
      BY <2>1, <2>3, InPlaces
    <3>2. h[q] = q
      BY <2>1, <2>3, <3>1
    <3> QED
      BY <3>1, <3>2
  <2> QED
    BY <2>2, <2>3
<1>5. <<t, 1>> \in G <=> x = y
  <2>1. 1 \in DOMAIN g[t]
    BY <1>1
  <2> QED
    BY <1>1, <2>1, InPlaces
<1> HIDE DEF F, G
<1>6. h \in Injection(F, H) /\ h \in Surjection(F, H)
  BY <1>2, <1>3, <1>4 DEF Injection, Surjection, IsInjective
<1> HIDE DEF h
<1>7. ASSUME IsFiniteSet(G)
      PROVE  IsFiniteSet(F)
  <2>1. IsFiniteSet(H)
    BY <1>7, FS_RemoveElement
  <2> QED
    BY <1>6, <2>1, FS_Injection
<1>8. ASSUME IsFiniteSet(F)
      PROVE  /\ IsFiniteSet(G)
             /\ Cardinality(F) \in Nat /\ Cardinality(G) \in Nat
             /\ x = y => Cardinality(G) = Cardinality(F) + 1
             /\ x # y => Cardinality(G) = Cardinality(F)
  <2>1. IsFiniteSet(H) /\ Cardinality(H) = Cardinality(F)
    BY <1>6, <1>8, FS_Surjection
  <2>2. G = IF x = y THEN H \cup {<<t, 1>>} ELSE H
    BY <1>5
  <2>3. <<t, 1>> \notin H /\ Cardinality(F) \in Nat
    BY <1>8, FS_CardinalityType
  <2>4. IsFiniteSet(H \cup {<<t, 1>>}) /\ Cardinality(H \cup {<<t, 1>>}) = Cardinality(H) + 1
    BY <2>1, <2>3, FS_AddElement
  <2> HIDE DEF H
  <2>5. CASE x = y
    <3>1. G = H \cup {<<t, 1>>}
      BY <2>2, <2>5
    <3> QED
      BY <2>1, <2>3, <2>4, <2>5, <3>1
  <2>6. CASE x # y
    <3>1. G = H
      BY <2>2, <2>6
    <3> QED
      BY <2>1, <2>3, <2>6, <3>1
  <2> QED
    BY <2>5, <2>6
<1> QED
  BY <1>7, <1>8 DEF F, G

\* T has what S has, and one more if x is y.
Up(S, T, x, y) ==
  /\ IsFiniteSet(T) /\ Cardinality(S) \in Nat /\ Cardinality(T) \in Nat
  /\ Cardinality(T) = Cardinality(S) + One(x = y)

\* The same, as Up() says it.
LEMMA PushedUp ==
  ASSUME NEW f \in [Threads -> Seq(Items)], NEW g \in [Threads -> Seq(Items)],
         NEW t \in Threads, NEW y \in Items, NEW x,
         g[t] = Push(y, f[t]), \A u \in Threads : u # t => g[u] = f[u],
         IsFiniteSet(PlacesIn(f, x))
  PROVE  Up(PlacesIn(f, x), PlacesIn(g, x), x, y)
<1>1. x = y => Cardinality(PlacesIn(g, x)) = Cardinality(PlacesIn(f, x)) + 1
  BY Pushed
<1>2. x # y => Cardinality(PlacesIn(g, x)) = Cardinality(PlacesIn(f, x))
  BY Pushed
<1>3. IsFiniteSet(PlacesIn(g, x))
  BY Pushed
<1>4. Cardinality(PlacesIn(f, x)) \in Nat /\ Cardinality(PlacesIn(g, x)) \in Nat
  BY <1>3, FS_CardinalityType
<1> QED
  BY <1>1, <1>2, <1>3, <1>4 DEF Up, One

\* The sequences that steps put onto a stack, as pushes.
LEMMA Tuples ==
  ASSUME NEW a \in Items, NEW b \in Items, NEW c \in Items
  PROVE  /\ <<a, b>> = Push(a, <<b>>) /\ <<a, b>> \in Seq(Items)
         /\ <<b>> = Push(b, <<>>) /\ <<b>> \in Seq(Items)
         /\ <<a, b, c>> = Push(a, Push(b, <<c>>)) /\ <<a, b, c>> \in Seq(Items)
<1>1. <<a, b>> \in Seq(Items) /\ <<a, b, c>> \in Seq(Items) /\ <<b>> \in Seq(Items)
  OBVIOUS
<1>2. ASSUME NEW y \in Items, NEW z \in Items PROVE <<y, z>> = Push(y, <<z>>)
  <2>1. <<z>> \in Seq(Items) /\ Len(<<z>>) = 1 /\ <<z>>[1] = z
    OBVIOUS
  <2> DEFINE q == Push(y, <<z>>)
  <2>2. q \in Seq(Items) /\ DOMAIN q = 1 .. 2 /\ q[1] = y /\ q[2] = z
    <3>1. /\ Push(y, <<z>>) \in Seq(Items) /\ DOMAIN Push(y, <<z>>) = 1 .. (Len(<<z>>) + 1)
          /\ DOMAIN <<z>> = 1 .. Len(<<z>>) /\ Len(<<z>>) \in Nat /\ Push(y, <<z>>)[1] = y
          /\ \A i \in 1 .. Len(<<z>>) : Push(y, <<z>>)[i + 1] = <<z>>[i]
      BY <2>1, Shifted
    <3>2. 1 \in 1 .. Len(<<z>>) /\ 1 + 1 = 2
      BY <2>1
    <3>3. q[2] = z
      BY <2>1, <3>1, <3>2
    <3> QED
      BY <2>1, <3>1, <3>2, <3>3
  <2>3. <<y, z>> \in Seq(Items) /\ Len(<<y, z>>) = 2 /\ <<y, z>>[1] = y /\ <<y, z>>[2] = z
    OBVIOUS
  <2> HIDE DEF q
  <2>4. Len(q) = 2
    BY <2>2
  <2>5. \A i \in 1 .. Len(q) : q[i] = <<y, z>>[i]
    BY <2>2, <2>3, <2>4
  <2>6. q = <<y, z>>
    BY <2>2, <2>3, <2>4, <2>5, SeqEqual
  <2> QED
    BY <2>6 DEF q
<1>3. <<a, b, c>> = Push(a, <<b, c>>)
  <2>1. <<b, c>> \in Seq(Items) /\ Len(<<b, c>>) = 2 /\ <<b, c>>[1] = b /\ <<b, c>>[2] = c
    OBVIOUS
  <2> DEFINE q == Push(a, <<b, c>>)
  <2>2. q \in Seq(Items) /\ DOMAIN q = 1 .. 3 /\ q[1] = a /\ q[2] = b /\ q[3] = c
    <3>1. /\ Push(a, <<b, c>>) \in Seq(Items) /\ DOMAIN Push(a, <<b, c>>) = 1 .. (Len(<<b, c>>) + 1)
          /\ DOMAIN <<b, c>> = 1 .. Len(<<b, c>>) /\ Len(<<b, c>>) \in Nat /\ Push(a, <<b, c>>)[1] = a
          /\ \A i \in 1 .. Len(<<b, c>>) : Push(a, <<b, c>>)[i + 1] = <<b, c>>[i]
      BY <2>1, Shifted
    <3>2. 1 \in 1 .. Len(<<b, c>>) /\ 2 \in 1 .. Len(<<b, c>>) /\ 1 + 1 = 2 /\ 2 + 1 = 3
      BY <2>1
    <3>3. q[2] = b /\ q[3] = c
      BY <2>1, <3>1, <3>2
    <3> QED
      BY <2>1, <3>1, <3>2, <3>3
  <2>3. /\ <<a, b, c>> \in Seq(Items) /\ Len(<<a, b, c>>) = 3
        /\ <<a, b, c>>[1] = a /\ <<a, b, c>>[2] = b /\ <<a, b, c>>[3] = c
    OBVIOUS
  <2> HIDE DEF q
  <2>4. Len(q) = 3 /\ q[2] = b /\ q[3] = c
    BY <2>2
  <2>5. \A i \in 1 .. Len(q) : q[i] = <<a, b, c>>[i]
    BY <2>2, <2>3, <2>4
  <2>6. q = <<a, b, c>>
    BY <2>2, <2>3, <2>4, <2>5, SeqEqual
  <2> QED
    BY <2>6 DEF q
<1>4. Push(b, <<c>>) = <<b, c>>
  BY <1>2
<1>5. Push(b, <<>>) = <<b>>
  BY ConcatEmptySeq DEF Push
<1> QED
  BY <1>1, <1>2, <1>3, <1>4, <1>5

\* An item is taken off a stack.
LEMMA HeadAndTail ==
  ASSUME NEW s \in Seq(Items), s # <<>>
  PROVE  /\ Head(s) \in Items /\ Head(s) = s[1] /\ 1 \in DOMAIN s
         /\ Tail(s) \in Seq(Items) /\ s = Push(Head(s), Tail(s))
         /\ Len(s) \in Nat \ {0} /\ DOMAIN s = 1 .. Len(s) /\ Len(Tail(s)) = Len(s) - 1
         /\ \A i \in 1 .. (Len(s) - 1) : Tail(s)[i] = s[i + 1]
<1>1. /\ Head(s) \in Items /\ Tail(s) \in Seq(Items) /\ Len(Tail(s)) = Len(s) - 1
      /\ \A i \in 1 .. Len(Tail(s)) : Tail(s)[i] = s[i + 1]
  BY HeadTailProperties
<1>2. Len(s) \in Nat \ {0} /\ DOMAIN s = 1 .. Len(s) /\ Head(s) = s[1]
  BY EmptySeq
<1> DEFINE r == Push(Head(s), Tail(s))
<1>3. /\ r \in Seq(Items) /\ DOMAIN r = 1 .. (Len(s) - 1 + 1) /\ r[1] = Head(s)
      /\ \A i \in 1 .. (Len(s) - 1) : r[i + 1] = s[i + 1]
  <2>1. /\ Push(Head(s), Tail(s)) \in Seq(Items) /\ DOMAIN Push(Head(s), Tail(s)) = 1 .. (Len(Tail(s)) + 1)
        /\ DOMAIN Tail(s) = 1 .. Len(Tail(s)) /\ Len(Tail(s)) \in Nat /\ Push(Head(s), Tail(s))[1] = Head(s)
        /\ \A i \in 1 .. Len(Tail(s)) : Push(Head(s), Tail(s))[i + 1] = Tail(s)[i]
    BY <1>1, Shifted
  <2> QED
    BY <1>1, <1>2, <2>1
<1>4. ASSUME NEW i \in 1 .. Len(s) PROVE r[i] = s[i]
  <2>1. CASE i = 1
    BY <1>2, <1>3, <2>1
  <2>2. CASE i # 1
    <3>1. i - 1 \in 1 .. (Len(s) - 1) /\ (i - 1) + 1 = i
      BY <1>2, <2>2
    <3> QED
      BY <1>3, <3>1
  <2> QED
    BY <2>1, <2>2
<1>5. Len(r) = Len(s)
  <2>1. Len(s) - 1 + 1 = Len(s)
    BY <1>2
  <2>2. Len(r) \in Nat /\ DOMAIN r = 1 .. Len(r)
    BY <1>3
  <2> QED
    BY <1>2, <1>3, <2>1, <2>2
<1> HIDE DEF r
<1>6. r = s
  BY <1>3, <1>4, <1>5, SeqEqual
<1> QED
  BY <1>1, <1>2, <1>6 DEF r

\* A pop takes one place of the item at the head.
LEMMA Popped ==
  ASSUME NEW f \in [Threads -> Seq(Items)], NEW t \in Threads, NEW x, f[t] # <<>>,
         IsFiniteSet(PlacesIn(f, x))
  PROVE  LET g == [f EXCEPT ![t] = Tail(@)] IN
         /\ g \in [Threads -> Seq(Items)] /\ g[t] = Tail(f[t])
         /\ \A u \in Threads : u # t => g[u] = f[u]
         /\ IsFiniteSet(PlacesIn(g, x))
         /\ Cardinality(PlacesIn(g, x)) = Cardinality(PlacesIn(f, x)) - One(x = Head(f[t]))
         /\ Cardinality(PlacesIn(f, x)) \in Nat
<1> DEFINE g == [f EXCEPT ![t] = Tail(@)]
<1>1. Head(f[t]) \in Items /\ Tail(f[t]) \in Seq(Items) /\ f[t] = Push(Head(f[t]), Tail(f[t]))
  BY HeadAndTail
<1>2. /\ g \in [Threads -> Seq(Items)] /\ g[t] = Tail(f[t])
      /\ \A u \in Threads : u # t => f[u] = g[u]
  BY <1>1
<1>3. f[t] = Push(Head(f[t]), g[t])
  BY <1>1, <1>2
<1> HIDE DEF g
<1>4. IsFiniteSet(PlacesIn(g, x))
  BY <1>1, <1>2, <1>3, Pushed DEF One
<1>5. Cardinality(PlacesIn(f, x)) = Cardinality(PlacesIn(g, x)) + One(x = Head(f[t]))
  <2>1. /\ x = Head(f[t]) => Cardinality(PlacesIn(f, x)) = Cardinality(PlacesIn(g, x)) + 1
        /\ x # Head(f[t]) => Cardinality(PlacesIn(f, x)) = Cardinality(PlacesIn(g, x))
        /\ Cardinality(PlacesIn(g, x)) \in Nat
    <3>1. PICK y \in Items : y = Head(f[t])
      BY <1>1
    <3>2. f[t] = Push(y, g[t])
      BY <1>3, <3>1
    <3>3. x = y => Cardinality(PlacesIn(f, x)) = Cardinality(PlacesIn(g, x)) + 1
      BY <1>2, <1>4, <3>2, Pushed
    <3>4. x # y => Cardinality(PlacesIn(f, x)) = Cardinality(PlacesIn(g, x))
      BY <1>2, <1>4, <3>2, Pushed
    <3>5. Cardinality(PlacesIn(g, x)) \in Nat
      BY <1>2, <1>4, <3>2, Pushed
    <3> QED
      BY <3>1, <3>3, <3>4, <3>5
  <2> QED
    BY <2>1 DEF One
<1>6. Cardinality(PlacesIn(g, x)) \in Nat /\ Cardinality(PlacesIn(f, x)) \in Nat
  BY <1>4, FS_CardinalityType
<1>7. One(x = Head(f[t])) \in {0, 1}
  BY DEF One
<1>8. Cardinality(PlacesIn(g, x)) = Cardinality(PlacesIn(f, x)) - One(x = Head(f[t]))
  BY <1>5, <1>6, <1>7
<1> QED
  BY <1>2, <1>4, <1>6, <1>8 DEF g

\* What becomes of a count n of the items x: h goes and a, b and c come.
Take(m, n, x, h) == m = n - One(x = h)
Put(m, n, x, a) == m = n + One(x = a)
Put2(m, n, x, a, b) == m = n + One(x = b) + One(x = a)
Swap(m, n, x, h, a) == m = n - One(x = h) + One(x = a)
Swap3(m, n, x, h, a, b, c) == m = n - One(x = h) + One(x = c) + One(x = b) + One(x = a)

\* The calls of unref_*() under way after one has ended and others have begun, ...
LEMMA PlacesInstead ==
  ASSUME TypeOK, StacksFinite, NEW t \in Threads, todo[t] # <<>>, NEW x \in Items,
         NEW a \in Items, NEW b \in Items, NEW c \in Items
  PROVE  LET n == Cardinality(Places(x))
             h == Head(todo[t]) IN
         /\ Cardinality(Places(x)) \in Nat
         /\ Instead(t, <<>>) =>
              IsFiniteSet(Places(x)') /\ Take(Cardinality(Places(x)'), n, x, h)
         /\ Instead(t, <<a>>) =>
              IsFiniteSet(Places(x)') /\ Swap(Cardinality(Places(x)'), n, x, h, a)
         /\ Instead(t, <<a, b, c>>) =>
              IsFiniteSet(Places(x)') /\ Swap3(Cardinality(Places(x)'), n, x, h, a, b, c)
<1> DEFINE g == [todo EXCEPT ![t] = Tail(@)]
<1>1. todo \in [Threads -> Seq(Items)] /\ todo[t] \in Seq(Items)
  BY DEF TypeOK
<1>2. IsFiniteSet(PlacesIn(todo, x))
  BY PlacesAreIn DEF StacksFinite
<1>3. /\ g \in [Threads -> Seq(Items)] /\ g[t] = Tail(todo[t])
      /\ \A u \in Threads : u # t => g[u] = todo[u]
      /\ IsFiniteSet(PlacesIn(g, x))
      /\ Cardinality(PlacesIn(g, x)) = Cardinality(PlacesIn(todo, x)) - One(x = Head(todo[t]))
      /\ Cardinality(PlacesIn(todo, x)) \in Nat
  BY <1>1, <1>2, Popped
<1> HIDE DEF g
<1>4. ASSUME NEW r \in Seq(Items)
      PROVE  LET h == [g EXCEPT ![t] = r] IN
             h \in [Threads -> Seq(Items)] /\ h[t] = r /\ \A u \in Threads : u # t => h[u] = g[u]
  BY <1>3
<1>5. Tail(todo[t]) \in Seq(Items)
  BY <1>1, HeadAndTail
<1>6. ASSUME Instead(t, <<>>)
      PROVE  IsFiniteSet(Places(x)') /\ Cardinality(Places(x)') = Cardinality(PlacesIn(g, x))
  <2>1. <<>> \o Tail(todo[t]) = Tail(todo[t])
    BY <1>5, ConcatEmptySeq
  <2>2. todo' = g
    BY <1>6, <2>1 DEF Instead, g
  <2> QED
    BY <1>3, <2>2, PlacesAreIn
<1> DEFINE r1(z) == Push(z, Tail(todo[t]))
           g1(z) == [g EXCEPT ![t] = r1(z)]
<1>7. ASSUME NEW z \in Items
      PROVE  /\ r1(z) \in Seq(Items) /\ g1(z) \in [Threads -> Seq(Items)]
             /\ g1(z)[t] = r1(z) /\ \A u \in Threads : u # t => g1(z)[u] = g[u]
             /\ Up(PlacesIn(g, x), PlacesIn(g1(z), x), x, z)
  <2>1. r1(z) \in Seq(Items)
    BY <1>5, Shifted
  <2> HIDE DEF r1
  <2>2. /\ g1(z) \in [Threads -> Seq(Items)]
        /\ g1(z)[t] = r1(z) /\ \A u \in Threads : u # t => g1(z)[u] = g[u]
    BY <1>4, <2>1
  <2>3. g1(z)[t] = Push(z, g[t])
    BY <1>3, <2>2 DEF r1
  <2> HIDE DEF g1
  <2> QED
    BY <1>3, <2>1, <2>2, <2>3, PushedUp
<1>8. ASSUME Instead(t, <<a>>)
      PROVE  /\ IsFiniteSet(Places(x)')
             /\ Cardinality(Places(x)') = Cardinality(PlacesIn(g, x)) + One(x = a)
  <2>1. todo' = g1(a)
    <3>1. /\ todo' = [todo EXCEPT ![t] = <<a>> \o Tail(@)]
          /\ g1(a) = [g EXCEPT ![t] = <<a>> \o Tail(todo[t])]
      BY <1>8 DEF Instead, Push
    <3>2. todo' = [todo EXCEPT ![t] = <<a>> \o Tail(todo[t])]
      BY <3>1
    <3> QED
      BY <1>1, <1>3, <3>1, <3>2
  <2> HIDE DEF g1
  <2> QED
    BY <1>7, <2>1, PlacesAreIn DEF Up, One
<1> DEFINE r2 == Push(b, r1(c))
           g2 == [g EXCEPT ![t] = r2]
           r3 == Push(a, r2)
           g3 == [g EXCEPT ![t] = r3]
<1>9. ASSUME Instead(t, <<a, b, c>>)
      PROVE  /\ IsFiniteSet(Places(x)')
             /\ Cardinality(Places(x)') =
                  Cardinality(PlacesIn(g, x)) + One(x = c) + One(x = b) + One(x = a)
  <2>0. r1(c) \in Seq(Items)
    BY <1>7
  <2>1. r2 \in Seq(Items)
    <3> HIDE DEF r1
    <3> QED
      BY <2>0, Shifted
  <2>2. r3 \in Seq(Items)
    <3> HIDE DEF r2
    <3> QED
      BY <2>1, Shifted
  <2>3. r3 = <<a, b, c>> \o Tail(todo[t])
    <3>1. <<a>> \in Seq(Items) /\ <<b>> \in Seq(Items) /\ <<c>> \in Seq(Items)
      BY Tuples
    <3>2. (<<a>> \o (<<b>> \o <<c>>)) \o Tail(todo[t])
            = <<a>> \o ((<<b>> \o <<c>>) \o Tail(todo[t]))
      <4>1. <<b>> \o <<c>> \in Seq(Items)
        BY <3>1, ConcatProperties
      <4> QED
        BY <1>5, <3>1, <4>1, ConcatAssociative
    <3>3. (<<b>> \o <<c>>) \o Tail(todo[t]) = <<b>> \o (<<c>> \o Tail(todo[t]))
      BY <1>5, <3>1, ConcatAssociative
    <3>4. <<a, b, c>> = <<a>> \o (<<b>> \o <<c>>)
      BY Tuples DEF Push
    <3> QED
      BY <3>2, <3>3, <3>4 DEF Push
  <2>4. todo' = g3
    <3> HIDE DEF r3
    <3>1. todo' = [todo EXCEPT ![t] = <<a, b, c>> \o Tail(todo[t])]
      BY <1>9 DEF Instead
    <3>2. todo' = [todo EXCEPT ![t] = r3]
      BY <2>3, <3>1
    <3> QED
      BY <1>1, <1>3, <3>2
  <2>5. /\ g2 \in [Threads -> Seq(Items)] /\ g2[t] = r2
        /\ \A u \in Threads : u # t => g2[u] = g[u]
    <3> HIDE DEF r2
    <3> QED
      BY <1>4, <2>1
  <2>6. /\ g3 \in [Threads -> Seq(Items)] /\ g3[t] = r3
        /\ \A u \in Threads : u # t => g3[u] = g[u]
    <3> HIDE DEF r3
    <3> QED
      BY <1>4, <2>2
  <2>7. g2[t] = Push(b, g1(c)[t]) /\ \A u \in Threads : u # t => g2[u] = g1(c)[u]
    BY <1>7, <2>5
  <2>8. g3[t] = Push(a, g2[t]) /\ \A u \in Threads : u # t => g3[u] = g2[u]
    BY <2>5, <2>6
  <2> HIDE DEF g1, g2, g3, r1, r2, r3
  <2>9. Up(PlacesIn(g, x), PlacesIn(g1(c), x), x, c) /\ g1(c) \in [Threads -> Seq(Items)]
    BY <1>7
  <2>10. Up(PlacesIn(g1(c), x), PlacesIn(g2, x), x, b)
    <3>1. IsFiniteSet(PlacesIn(g1(c), x))
      BY <2>9 DEF Up
    <3> QED
      BY <2>5, <2>7, <2>9, <3>1, PushedUp
  <2>11. Up(PlacesIn(g2, x), PlacesIn(g3, x), x, a)
    <3>1. IsFiniteSet(PlacesIn(g2, x))
      BY <2>10 DEF Up
    <3> QED
      BY <2>5, <2>6, <2>8, <3>1, PushedUp
  <2> QED
    BY <2>4, <2>9, <2>10, <2>11, PlacesAreIn DEF Up, One
<1> HIDE DEF g1, r1, g2, r2, g3, r3
<1>10. Cardinality(PlacesIn(g, x)) = Cardinality(Places(x)) - One(x = Head(todo[t]))
       /\ Cardinality(Places(x)) \in Nat
  BY <1>3, PlacesAreIn
<1>11. Instead(t, <<>>) =>
         Take(Cardinality(Places(x)'), Cardinality(Places(x)), x, Head(todo[t]))
  BY <1>6, <1>10 DEF Take
<1>12. Instead(t, <<a>>) =>
         Swap(Cardinality(Places(x)'), Cardinality(Places(x)), x, Head(todo[t]), a)
  BY <1>8, <1>10 DEF Swap
<1>13. Instead(t, <<a, b, c>>) =>
         Swap3(Cardinality(Places(x)'), Cardinality(Places(x)), x, Head(todo[t]), a, b, c)
  BY <1>9, <1>10 DEF Swap3
<1> QED
  BY <1>6, <1>8, <1>9, <1>10, <1>11, <1>12, <1>13

\* ... and when a thread begins with one or two that it has to make.
LEMMA PlacesPut ==
  ASSUME TypeOK, StacksFinite, NEW t \in Threads, todo[t] = <<>>, NEW x \in Items,
         NEW a \in Items, NEW b \in Items
  PROVE  /\ Cardinality(Places(x)) \in Nat
         /\ todo' = [todo EXCEPT ![t] = <<a>>] =>
              /\ IsFiniteSet(Places(x)')
              /\ Put(Cardinality(Places(x)'), Cardinality(Places(x)), x, a)
         /\ todo' = [todo EXCEPT ![t] = <<a, b>>] =>
              /\ IsFiniteSet(Places(x)')
              /\ Put2(Cardinality(Places(x)'), Cardinality(Places(x)), x, a, b)
<1>1. todo \in [Threads -> Seq(Items)] /\ todo[t] \in Seq(Items)
  BY DEF TypeOK
<1>2. IsFiniteSet(PlacesIn(todo, x))
  BY PlacesAreIn DEF StacksFinite
<1> DEFINE g1(z) == [todo EXCEPT ![t] = <<z>>]
           g2 == [todo EXCEPT ![t] = <<a, b>>]
<1>3. ASSUME NEW z \in Items
      PROVE  /\ g1(z) \in [Threads -> Seq(Items)] /\ g1(z)[t] = Push(z, todo[t])
             /\ g1(z)[t] = <<z>> /\ \A u \in Threads : u # t => g1(z)[u] = todo[u]
  <2>1. <<z>> \in Seq(Items) /\ Push(z, <<>>) = <<z>>
    BY Tuples
  <2> QED
    BY <1>1, <2>1
<1>4. g2 \in [Threads -> Seq(Items)] /\ g2[t] = <<a, b>> /\ \A u \in Threads : u # t => g2[u] = todo[u]
  BY <1>1
<1>5. <<a, b>> = Push(a, <<b>>)
  BY Tuples
<1>6. g2[t] = Push(a, g1(b)[t]) /\ \A u \in Threads : u # t => g2[u] = g1(b)[u]
  BY <1>3, <1>4, <1>5
<1> HIDE DEF g1, g2
<1>7. ASSUME NEW z \in Items
      PROVE  Up(PlacesIn(todo, x), PlacesIn(g1(z), x), x, z)
  BY <1>1, <1>2, <1>3, PushedUp
<1>8. g1(b) \in [Threads -> Seq(Items)]
  BY <1>3
<1>9. Up(PlacesIn(g1(b), x), PlacesIn(g2, x), x, a)
  <2>1. IsFiniteSet(PlacesIn(g1(b), x))
    BY <1>7 DEF Up
  <2> QED
    BY <1>4, <1>6, <1>8, <2>1, PushedUp
<1>10. Cardinality(Places(x)) \in Nat
  BY <1>2, PlacesAreIn, FS_CardinalityType
<1>11. ASSUME todo' = [todo EXCEPT ![t] = <<a>>]
       PROVE  /\ IsFiniteSet(Places(x)')
              /\ Cardinality(Places(x)') = Cardinality(Places(x)) + One(x = a)
  <2>1. todo' = g1(a)
    BY <1>11 DEF g1
  <2> QED
    BY <1>7, <2>1, PlacesAreIn DEF Up, One
<1>12. ASSUME todo' = [todo EXCEPT ![t] = <<a, b>>]
       PROVE  /\ IsFiniteSet(Places(x)')
              /\ Cardinality(Places(x)') = Cardinality(Places(x)) + One(x = b) + One(x = a)
  <2>1. todo' = g2
    BY <1>12 DEF g2
  <2> QED
    BY <1>7, <1>9, <2>1, PlacesAreIn DEF Up, One
<1>13. todo' = [todo EXCEPT ![t] = <<a>>] =>
         Put(Cardinality(Places(x)'), Cardinality(Places(x)), x, a)
  BY <1>11 DEF Put
<1>14. todo' = [todo EXCEPT ![t] = <<a, b>>] =>
         Put2(Cardinality(Places(x)'), Cardinality(Places(x)), x, a, b)
  BY <1>12 DEF Put2
<1> QED
  BY <1>10, <1>11, <1>12, <1>13, <1>14

-----------------------------------------------------------------------------
(***************************************************************************)
(* Types.                                                                  *)
(***************************************************************************)

\* Calls have the types that TypeOK asks for.
LEMMA CallTypes ==
  /\ \A op \in Ops : \A f \in Fs \cup {"none"} : \A n, m \in Slots \cup {NoSlot} :
       \A r \in Seq(STRING) : \A x \in STRING \cup {""} : Call(op, f, n, m, r, x) \in Calls
  /\ NoCall \in Calls
  /\ \A c \in Calls : /\ c.op \in Ops /\ c.fs \in Fs \cup {"none"}
                      /\ c.cur \in Slots \cup {NoSlot} /\ c.nxt \in Slots \cup {NoSlot}
                      /\ c.rest \in Seq(STRING) /\ c.last \in STRING \cup {""}
<1>1. ASSUME NEW op \in Ops, NEW f \in Fs \cup {"none"}, NEW n \in Slots \cup {NoSlot},
             NEW m \in Slots \cup {NoSlot}, NEW r \in Seq(STRING), NEW x \in STRING \cup {""}
      PROVE  Call(op, f, n, m, r, x) \in Calls
  BY DEF Call, Calls
<1>2. "stat" \in Ops /\ <<>> \in Seq(STRING)
  BY DEF Ops
<1>3. NoCall \in Calls
  BY <1>1, <1>2 DEF NoCall
<1>4. \A c \in Calls : /\ c.op \in Ops /\ c.fs \in Fs \cup {"none"}
                      /\ c.cur \in Slots \cup {NoSlot} /\ c.nxt \in Slots \cup {NoSlot}
                      /\ c.rest \in Seq(STRING) /\ c.last \in STRING \cup {""}
  BY DEF Calls
<1> QED
  BY <1>1, <1>3, <1>4

\* The types of what a thread has in hand.
LEMMA ThreadTypes ==
  ASSUME TypeOK, NEW t \in Threads
  PROVE  /\ call[t] \in Calls /\ todo[t] \in Seq(Items) /\ pc[t] \in PCs
         /\ call[t].op \in Ops /\ call[t].fs \in Fs \cup {"none"}
         /\ call[t].cur \in Slots \cup {NoSlot} /\ call[t].nxt \in Slots \cup {NoSlot}
         /\ call[t].rest \in Seq(STRING) /\ call[t].last \in STRING \cup {""}
         /\ cur(t) = call[t].cur
         /\ todo[t] # <<>> =>
              /\ Head(todo[t]) \in Items /\ Head(todo[t]) = todo[t][1] /\ 1 \in DOMAIN todo[t]
              /\ Tail(todo[t]) \in Seq(Items)
<1>1. call[t] \in Calls /\ todo[t] \in Seq(Items) /\ pc[t] \in PCs
  BY DEF TypeOK
<1> QED
  BY <1>1, CallTypes, HeadAndTail DEF cur

\* What a state says at once of the references that there are.
LEMMA Positive ==
  ASSUME TypeOK, StacksFinite, CountsExact
  PROVE  /\ \A n \in live :
              /\ \A t \in Threads : InCall(t) /\ cur(t) = n => refs[n] >= 1
              /\ \A t \in Threads : pc[t] \in {"new", "newfs"} /\ call[t].nxt = n => refs[n] >= 1
              /\ \A t \in Threads : \A i \in DOMAIN todo[t] :
                   n \in Slots /\ todo[t][i] = node(n) => refs[n] >= 1
              /\ \A s \in live : HoldsParent(s) /\ parent[s] = n => refs[n] >= 1
              /\ \A t \in Threads : \A f \in Fs : <<f, n>> \in handles[t] => refs[n] >= 1
              /\ \A f \in Fs : fsrefs[f] > 0 /\ fsroot[f] = n => refs[n] >= 1
         /\ \A f \in Fs :
              /\ f \in owned => fsrefs[f] >= 1
              /\ \A t \in Threads : \A i \in DOMAIN todo[t] : todo[t][i] = fsys(f) => fsrefs[f] >= 1
              /\ \A t \in Threads : \A n \in Slots : <<f, n>> \in handles[t] => fsrefs[f] >= 1
              /\ f = "main" => \A s \in live : HoldsFs(s) => fsrefs[f] >= 1
<1>1. \A x \in Items : \A t \in Threads : \A i \in DOMAIN todo[t] :
        todo[t][i] = x => <<t, i>> \in Places(x)
  BY InPlaces, PlacesAreIn
<1>2. ASSUME NEW n \in live
      PROVE  /\ \A t \in Threads : InCall(t) /\ cur(t) = n => refs[n] >= 1
             /\ \A t \in Threads : pc[t] \in {"new", "newfs"} /\ call[t].nxt = n => refs[n] >= 1
             /\ \A t \in Threads : \A i \in DOMAIN todo[t] :
                  n \in Slots /\ todo[t][i] = node(n) => refs[n] >= 1
             /\ \A s \in live : HoldsParent(s) /\ parent[s] = n => refs[n] >= 1
             /\ \A t \in Threads : \A f \in Fs : <<f, n>> \in handles[t] => refs[n] >= 1
             /\ \A f \in Fs : fsrefs[f] > 0 /\ fsroot[f] = n => refs[n] >= 1
  <2>1. n \in Slots /\ leaked[n] \in Nat /\ node(n) \in Items
    BY ItemFacts, VfsAssumption DEF TypeOK
  <2>2. /\ IsFiniteSet(Walkers(n)) /\ IsFiniteSet(Loading(n, {"new", "newfs"}))
        /\ IsFiniteSet(Children(n)) /\ IsFiniteSet(OpenNodes(n)) /\ IsFiniteSet(Roots(n))
        /\ IsFiniteSet(Places(node(n)))
    BY <2>1, HoldersFinite DEF StacksFinite
  <2>3. /\ Cardinality(Walkers(n)) \in Nat /\ Cardinality(Loading(n, {"new", "newfs"})) \in Nat
        /\ Cardinality(Children(n)) \in Nat /\ Cardinality(OpenNodes(n)) \in Nat
        /\ Cardinality(Roots(n)) \in Nat /\ Cardinality(Places(node(n))) \in Nat
    BY <2>2, FS_CardinalityType
  <2>4. refs[n] = NodeRefs(n)
    BY DEF CountsExact
  <2>5. /\ refs[n] >= Cardinality(Walkers(n)) /\ refs[n] >= Cardinality(Loading(n, {"new", "newfs"}))
        /\ refs[n] >= Cardinality(Children(n)) /\ refs[n] >= Cardinality(OpenNodes(n))
        /\ refs[n] >= Cardinality(Roots(n)) /\ refs[n] >= Cardinality(Places(node(n)))
    BY <2>1, <2>3, <2>4 DEF NodeRefs
  <2>6. ASSUME NEW S, NEW a \in S, IsFiniteSet(S), Cardinality(S) \in Nat, refs[n] >= Cardinality(S)
        PROVE  refs[n] >= 1
    <3>1. Cardinality(S) >= 1
      BY <2>6, Counted
    <3>2. refs[n] \in Nat
      BY <2>1 DEF TypeOK
    <3> QED
      BY <2>6, <3>1, <3>2
  <2>7. ASSUME NEW t \in Threads, InCall(t), cur(t) = n PROVE refs[n] >= 1
    <3>1. t \in Walkers(n)
      BY <2>7 DEF Walkers
    <3> QED
      BY <2>2, <2>3, <2>5, <2>6, <3>1
  <2>8. ASSUME NEW t \in Threads, pc[t] \in {"new", "newfs"}, call[t].nxt = n PROVE refs[n] >= 1
    <3>1. t \in Loading(n, {"new", "newfs"})
      BY <2>8 DEF Loading
    <3> QED
      BY <2>2, <2>3, <2>5, <2>6, <3>1
  <2>9. ASSUME NEW t \in Threads, NEW i \in DOMAIN todo[t], todo[t][i] = node(n) PROVE refs[n] >= 1
    <3>1. <<t, i>> \in Places(node(n))
      BY <1>1, <2>1, <2>9
    <3> QED
      BY <2>2, <2>3, <2>5, <2>6, <3>1
  <2>10. ASSUME NEW s \in live, HoldsParent(s), parent[s] = n PROVE refs[n] >= 1
    <3>1. s \in Children(n)
      BY <2>10 DEF Children
    <3> QED
      BY <2>2, <2>3, <2>5, <2>6, <3>1
  <2>11. ASSUME NEW t \in Threads, NEW f \in Fs, <<f, n>> \in handles[t] PROVE refs[n] >= 1
    <3>1. <<t, f>> \in OpenNodes(n)
      BY <2>11 DEF OpenNodes
    <3> QED
      BY <2>2, <2>3, <2>5, <2>6, <3>1
  <2>12. ASSUME NEW f \in Fs, fsrefs[f] > 0, fsroot[f] = n PROVE refs[n] >= 1
    <3>1. f \in Roots(n)
      BY <2>12 DEF Roots
    <3> QED
      BY <2>2, <2>3, <2>5, <2>6, <3>1
  <2> QED
    BY <2>7, <2>8, <2>9, <2>10, <2>11, <2>12
<1>3. ASSUME NEW f \in Fs
      PROVE  /\ f \in owned => fsrefs[f] >= 1
             /\ \A t \in Threads : \A i \in DOMAIN todo[t] : todo[t][i] = fsys(f) => fsrefs[f] >= 1
             /\ \A t \in Threads : \A n \in Slots : <<f, n>> \in handles[t] => fsrefs[f] >= 1
             /\ f = "main" => \A s \in live : HoldsFs(s) => fsrefs[f] >= 1
  <2>1. fsys(f) \in Items
    BY ItemFacts
  <2>2. /\ IsFiniteSet({f} \cap owned) /\ IsFiniteSet(Places(fsys(f)))
        /\ IsFiniteSet(OpenFiles(f)) /\ IsFiniteSet(Nodes(f))
    BY <2>1, HoldersFinite DEF StacksFinite
  <2>3. /\ Cardinality({f} \cap owned) \in Nat /\ Cardinality(Places(fsys(f))) \in Nat
        /\ Cardinality(OpenFiles(f)) \in Nat /\ Cardinality(Nodes(f)) \in Nat
    BY <2>2, FS_CardinalityType
  <2>4. fsrefs[f] = FsRefs(f)
    BY DEF CountsExact
  <2>5. /\ fsrefs[f] >= Cardinality({f} \cap owned) /\ fsrefs[f] >= Cardinality(Places(fsys(f)))
        /\ fsrefs[f] >= Cardinality(OpenFiles(f)) /\ fsrefs[f] >= Cardinality(Nodes(f))
    BY <2>3, <2>4 DEF FsRefs
  <2>6. ASSUME NEW S, NEW a \in S, IsFiniteSet(S), Cardinality(S) \in Nat, fsrefs[f] >= Cardinality(S)
        PROVE  fsrefs[f] >= 1
    <3>1. Cardinality(S) >= 1
      BY <2>6, Counted
    <3>2. fsrefs[f] \in Nat
      BY <2>1 DEF TypeOK
    <3> QED
      BY <2>6, <3>1, <3>2
  <2>7. ASSUME f \in owned PROVE fsrefs[f] >= 1
    <3>1. f \in {f} \cap owned
      BY <2>7
    <3> QED
      BY <2>2, <2>3, <2>5, <2>6, <3>1
  <2>8. ASSUME NEW t \in Threads, NEW i \in DOMAIN todo[t], todo[t][i] = fsys(f) PROVE fsrefs[f] >= 1
    <3>1. <<t, i>> \in Places(fsys(f))
      BY <1>1, <2>1, <2>8
    <3> QED
      BY <2>2, <2>3, <2>5, <2>6, <3>1
  <2>9. ASSUME NEW t \in Threads, NEW n \in Slots, <<f, n>> \in handles[t] PROVE fsrefs[f] >= 1
    <3>1. <<t, n>> \in OpenFiles(f)
      BY <2>9 DEF OpenFiles
    <3> QED
      BY <2>2, <2>3, <2>5, <2>6, <3>1
  <2>10. ASSUME f = "main", NEW s \in live, HoldsFs(s) PROVE fsrefs[f] >= 1
    <3>1. s \in Nodes(f)
      BY <2>10 DEF Nodes
    <3> QED
      BY <2>2, <2>3, <2>5, <2>6, <3>1
  <2> QED
    BY <2>7, <2>8, <2>9, <2>10
<1> QED
  BY <1>2, <1>3

\* The step of a call that has a node, its parent and its file system alive.
LEMMA CallFacts ==
  ASSUME IInv, NEW t \in Threads, InCall(t)
  PROVE  /\ cur(t) \in live /\ cur(t) \in Slots /\ cur(t) # NoSlot
         /\ call[t].fs \in Fs /\ call[t].fs \in owned
         /\ refs[cur(t)] >= 1 /\ refs[cur(t)] \in Nat
         /\ fsrefs[call[t].fs] >= 1
<1>1. cur(t) \in live /\ call[t].fs \in Fs /\ call[t].fs # "none"
  BY DEF IInv, CallsInStep, CallInStep, cur, Fs
<1>2. call[t].fs \in owned
  BY <1>1 DEF IInv, CallsInStep, CallInStep
<1>3. TypeOK /\ StacksFinite /\ CountsExact
  BY DEF IInv
<1>4. cur(t) \in Slots /\ refs[cur(t)] \in Nat
  BY <1>1, <1>3 DEF TypeOK
<1> QED
  BY <1>1, <1>2, <1>3, <1>4, Positive, VfsAssumption

\* Front() gives all but the last component.
LEMMA FrontFacts ==
  ASSUME NEW S, NEW s \in Seq(S)
  PROVE  s # <<>> => Front(s) \in Seq(S) /\ s[Len(s)] \in S /\ Len(Front(s)) = Len(s) - 1
<1>1. ASSUME s # <<>>
      PROVE  Front(s) \in Seq(S) /\ s[Len(s)] \in S /\ Len(Front(s)) = Len(s) - 1
  <2>1. Len(s) \in Nat \ {0} /\ \A i \in 1 .. Len(s) : s[i] \in S
    BY <1>1, EmptySeq
  <2>2. 1 \in Int /\ Len(s) - 1 \in Int /\ \A i \in 1 .. (Len(s) - 1) : s[i] \in S
    BY <2>1
  <2>3. /\ SubSeq(s, 1, Len(s) - 1) \in Seq(S)
        /\ Len(SubSeq(s, 1, Len(s) - 1)) = IF 1 <= Len(s) - 1 THEN (Len(s) - 1) - 1 + 1 ELSE 0
    BY <2>2, SubSeqProperties
  <2>4. s[Len(s)] \in S
    BY <2>1
  <2>5. Len(SubSeq(s, 1, Len(s) - 1)) = Len(s) - 1
    <3>1. CASE Len(s) = 1
      BY <2>3, <3>1
    <3>2. CASE Len(s) # 1
      <4>1. PICK n \in Nat \ {0} : n = Len(s)
        BY <2>1
      <4>2. 1 <= n - 1 /\ (n - 1) - 1 + 1 = n - 1
        BY <3>2, <4>1
      <4>3. Len(SubSeq(s, 1, n - 1)) = (n - 1) - 1 + 1
        BY <2>3, <4>1, <4>2
      <4> QED
        BY <4>1, <4>2, <4>3
    <3> QED
      BY <3>1, <3>2
  <2> QED
    BY <2>3, <2>4, <2>5 DEF Front
<1> QED
  BY <1>1

\* The parent's path is the path without its last component.
LEMMA FrontOfAppend ==
  ASSUME NEW S, NEW s \in Seq(S), NEW x \in S
  PROVE  /\ Append(s, x) \in Seq(S) /\ Front(Append(s, x)) = s
         /\ Len(Append(s, x)) = Len(s) + 1
         /\ Append(s, x)[Len(Append(s, x))] = x
<1> DEFINE r == Append(s, x)
<1>1. /\ r \in Seq(S) /\ Len(r) = Len(s) + 1 /\ r[Len(s) + 1] = x
      /\ \A i \in 1 .. Len(s) : r[i] = s[i]
  BY AppendProperties
<1> HIDE DEF r
<1>2. Len(s) \in Nat /\ Len(r) - 1 = Len(s)
  BY <1>1
<1> DEFINE q == SubSeq(r, 1, Len(s))
<1>3. 1 \in Int /\ Len(s) \in Int /\ \A i \in 1 .. Len(s) : r[i] \in S
  BY <1>1, <1>2
<1>4. /\ q \in Seq(S) /\ Len(q) = IF 1 <= Len(s) THEN Len(s) - 1 + 1 ELSE 0
      /\ \A i \in 1 .. (Len(s) - 1 + 1) : q[i] = r[1 + i - 1]
  BY <1>3, SubSeqProperties
<1> HIDE DEF q
<1>5. Len(q) = Len(s)
  BY <1>2, <1>4
<1>6. \A i \in 1 .. Len(q) : q[i] = s[i]
  BY <1>1, <1>2, <1>4, <1>5
<1>7. q = s
  BY <1>4, <1>5, <1>6, SeqEqual
<1>8. Front(r) = s
  BY <1>2, <1>7 DEF q, Front
<1> QED
  BY <1>1, <1>8 DEF r

\* The stacks that a step may leave.
LEMMA StackTypes ==
  ASSUME TypeOK, NEW t \in Threads
  PROVE  /\ \A a \in Items : todo' = [todo EXCEPT ![t] = <<a>>] => todo' \in [Threads -> Seq(Items)]
         /\ \A a, b \in Items : todo' = [todo EXCEPT ![t] = <<a, b>>] => todo' \in [Threads -> Seq(Items)]
         /\ \A s \in Seq(Items) : todo[t] # <<>> /\ Instead(t, s) => todo' \in [Threads -> Seq(Items)]
         /\ <<>> \in Seq(Items)
         /\ \A a \in Items : <<a>> \in Seq(Items)
         /\ \A a, b, c \in Items : <<a, b, c>> \in Seq(Items)
<1>1. \A a, b \in Items : <<a>> \in Seq(Items) /\ <<a, b>> \in Seq(Items)
  BY Tuples
<1>2. \A a, b, c \in Items : <<a, b, c>> \in Seq(Items)
  BY Tuples
<1>3. ASSUME NEW s \in Seq(Items), todo[t] # <<>>, Instead(t, s)
      PROVE  todo' \in [Threads -> Seq(Items)]
  <2>1. Tail(todo[t]) \in Seq(Items)
    BY <1>3, ThreadTypes
  <2>2. s \o Tail(todo[t]) \in Seq(Items)
    BY <2>1, ConcatProperties
  <2> QED
    BY <1>3, <2>2 DEF Instead, TypeOK
<1>4. todo \in [Threads -> Seq(Items)] /\ <<>> \in Seq(Items)
  BY DEF TypeOK
<1>5. ASSUME NEW a \in Items, todo' = [todo EXCEPT ![t] = <<a>>]
      PROVE  todo' \in [Threads -> Seq(Items)]
  BY <1>1, <1>4, <1>5
<1>6. ASSUME NEW a \in Items, NEW b \in Items, todo' = [todo EXCEPT ![t] = <<a, b>>]
      PROVE  todo' \in [Threads -> Seq(Items)]
  BY <1>1, <1>4, <1>6
<1> QED
  BY <1>1, <1>2, <1>3, <1>4, <1>5, <1>6

\* A call that returns, or goes on from another node.
LEMMA ReturnTypes ==
  ASSUME TypeOK, NEW t \in Threads, cur(t) \in Slots
  PROVE  /\ Return(t, cur(t)) =>
              /\ pc' \in [Threads -> PCs] /\ call' \in [Threads -> Calls]
              /\ todo' \in [Threads -> Seq(Items)]
         /\ Step(t) /\ call[t].rest # <<>> =>
              /\ pc' \in [Threads -> PCs] /\ call' \in [Threads -> Calls]
              /\ todo' \in [Threads -> Seq(Items)]
<1>1. node(cur(t)) \in Items
  BY ItemFacts
<1>2. ASSUME Return(t, cur(t))
      PROVE  /\ pc' \in [Threads -> PCs] /\ call' \in [Threads -> Calls]
             /\ todo' \in [Threads -> Seq(Items)]
  <2>1. todo' \in [Threads -> Seq(Items)]
    BY <1>1, <1>2, StackTypes DEF Return
  <2>2. "stat" \in Ops /\ NoSlot \in Slots \cup {NoSlot} /\ <<>> \in Seq(STRING) /\ "" \in STRING \cup {""}
    BY DEF Ops
  <2>3. Call("stat", call[t].fs, NoSlot, NoSlot, <<>>, "") \in Calls
    BY <2>2, ThreadTypes, CallTypes
  <2>4. call' \in [Threads -> Calls]
    BY <1>2, <2>3 DEF Return, TypeOK
  <2>5. pc' \in [Threads -> PCs]
    BY <1>2 DEF Return, Goto, TypeOK, PCs
  <2> QED
    BY <2>1, <2>4, <2>5
<1>3. ASSUME Step(t), call[t].rest # <<>>
      PROVE  /\ pc' \in [Threads -> PCs] /\ call' \in [Threads -> Calls]
             /\ todo' \in [Threads -> Seq(Items)]
  <2>1. todo' \in [Threads -> Seq(Items)]
    BY <1>1, <1>3, StackTypes DEF Step
  <2>2. NoSlot \in Slots \cup {NoSlot} /\ Tail(call[t].rest) \in Seq(STRING)
    BY <1>3, ThreadTypes, HeadTailProperties
  <2>3. Call(call[t].op, call[t].fs, call[t].nxt, NoSlot, Tail(call[t].rest), call[t].last) \in Calls
    BY <2>2, ThreadTypes, CallTypes
  <2>4. call' \in [Threads -> Calls]
    BY <1>3, <2>3 DEF Step, TypeOK
  <2>5. pc' \in [Threads -> PCs]
    BY <1>3 DEF Step, Goto, TypeOK, PCs
  <2> QED
    BY <2>1, <2>4, <2>5
<1> QED
  BY <1>2, <1>3

-----------------------------------------------------------------------------
(***************************************************************************)
(* What the invariant says of a state.                                     *)
(***************************************************************************)

\* The items of a stack.
LEMMA ItemOf ==
  ASSUME IInv, NEW t \in Threads, NEW i \in DOMAIN todo[t]
  PROVE  LET x == todo[t][i] IN
         /\ x \in Items
         /\ x.do = "node" => x = node(x.n) /\ x.n \in live /\ refs[x.n] >= 1
         /\ x.do = "parent" => x = par(x.n) /\ i = 1
         /\ x.do = "free" => x = free(x.n)
         /\ x.do \in {"parent", "free"} =>
              x.n \in live \ {Root} /\ refs[x.n] = 0 /\ Removes(t, x.n)
         /\ x.do = "fs" => x = fsys(x.fs) /\ x.fs \in Fs /\ fsrefs[x.fs] >= 1
         /\ x.do \in {"node", "parent", "free", "fs"}
<1> DEFINE x == todo[t][i]
<1>1. TypeOK /\ StacksFinite /\ CountsExact /\ StackOk(t)
  BY DEF IInv, Stacks
<1>2. x \in Items
  <2>1. todo[t] \in Seq(Items)
    BY <1>1, ThreadTypes
  <2> QED
    BY <2>1, ElementOfSeq
<1>3. /\ x \in {node(x.n), par(x.n), free(x.n), fsys(x.fs)}
      /\ x.do # "fs" => x.n \in live
      /\ x.do = "parent" => i = 1
      /\ x \in Removed(x.n) => x.n # Root /\ refs[x.n] = 0
  BY <1>1 DEF StackOk
<1>4. x.do \in {"node", "parent", "free", "fs"} /\ x.fs \in Fs
  BY <1>2 DEF Items
<1> HIDE DEF x
<1>5. /\ x.do = "node" => x = node(x.n)
      /\ x.do = "parent" => x = par(x.n)
      /\ x.do = "free" => x = free(x.n)
      /\ x.do = "fs" => x = fsys(x.fs)
  BY <1>3, ItemFacts
<1>6. ASSUME x.do = "node" PROVE x.n \in live /\ refs[x.n] >= 1
  <2>1. x.n \in live /\ x.n \in Slots /\ x = node(x.n)
    BY <1>1, <1>3, <1>5, <1>6 DEF TypeOK
  <2> QED
    BY <1>1, <2>1, Positive DEF x
<1>7. ASSUME x.do \in {"parent", "free"}
      PROVE  x.n \in live \ {Root} /\ refs[x.n] = 0 /\ Removes(t, x.n)
  <2>1. x \in Removed(x.n)
    BY <1>5, <1>7 DEF Removed
  <2> QED
    BY <1>3, <1>7, <2>1 DEF Removes, x
<1>8. ASSUME x.do = "fs" PROVE fsrefs[x.fs] >= 1
  BY <1>1, <1>4, <1>5, <1>8, Positive DEF x
<1> QED
  BY <1>2, <1>3, <1>4, <1>5, <1>6, <1>7, <1>8 DEF x

\* A node that is being removed.
LEMMA BeingRemoved ==
  ASSUME IInv, NEW n
  PROVE  /\ \A t \in Threads : Removes(t, n) =>
              n \in live \ {Root} /\ n \in Slots /\ refs[n] = 0
         /\ Unlinked(n) <=> \E t \in Threads : \E i \in DOMAIN todo[t] : todo[t][i] = free(n)
         /\ Unlinked(n) => \E t \in Threads : Removes(t, n)
         /\ \A t \in Threads : \A i, j \in DOMAIN todo[t] :
              todo[t][i] \in Removed(n) /\ todo[t][j] \in Removed(n) => i = j
<1>1. ASSUME NEW t \in Threads, NEW i \in DOMAIN todo[t], todo[t][i] \in Removed(n)
      PROVE  /\ n \in live \ {Root} /\ n \in Slots /\ refs[n] = 0
             /\ todo[t][i].n = n
  <2>1. todo[t][i].n = n /\ todo[t][i].do \in {"parent", "free"}
    BY <1>1, ItemFacts DEF Removed
  <2>2. n \in live \ {Root} /\ refs[n] = 0
    BY <2>1, ItemOf
  <2> QED
    BY <2>1, <2>2 DEF IInv, TypeOK
<1>2. Unlinked(n) <=> \E t \in Threads : \E i \in DOMAIN todo[t] : todo[t][i] = free(n)
  BY DEF Unlinked, Range
<1>3. Unlinked(n) => \E t \in Threads : Removes(t, n)
  BY <1>2 DEF Removes, Removed
<1>4. ASSUME NEW t \in Threads, NEW i \in DOMAIN todo[t], NEW j \in DOMAIN todo[t],
             todo[t][i] \in Removed(n), todo[t][j] \in Removed(n)
      PROVE  i = j
  BY <1>1, <1>4 DEF IInv, Stacks, StackOk
<1> QED
  BY <1>1, <1>2, <1>3, <1>4 DEF Removes

\* A lock has one holder.
LEMMA OneHolder ==
  ASSUME IInv, NEW n \in Slots, NEW t \in Threads, InDriver(t, n) \/ Removes(t, n)
  PROVE  /\ ~ Free(n)
         /\ \A u \in Threads : InDriver(u, n) \/ Removes(u, n) => u = t
<1>1. lock[n] = t
  BY DEF IInv, Locks
<1>2. \A u \in Threads : InDriver(u, n) \/ Removes(u, n) => lock[n] = u
  BY DEF IInv, Locks
<1> QED
  BY <1>1, <1>2, VfsAssumption DEF Free

\* A node with references is linked, or the root; so is one that is not locked.
LEMMA UsedLinked ==
  ASSUME IInv, NEW n \in live
  PROVE  /\ n \in Slots /\ refs[n] \in Nat
         /\ refs[n] >= 1 /\ n # Root => Linked(n)
         /\ Free(n) => refs[n] >= 1
<1>1. n \in Slots /\ refs[n] \in Nat
  BY DEF IInv, TypeOK
<1>2. refs[n] >= 1 => ~ Unlinked(n)
  BY <1>1, BeingRemoved
<1>3. Free(n) => refs[n] >= 1
  BY <1>1 DEF IInv, Locks
<1> QED
  BY <1>1, <1>2, <1>3 DEF Linked

\* The paths of nodes are sequences of names; only the root's is empty.
LEMMA PathTypes ==
  ASSUME TypeOK, NEW n \in Slots
  PROVE  at[n] \in Seq(STRING) /\ Len(at[n]) \in Nat /\ (at[n] = <<>> <=> Len(at[n]) = 0)
<1>1. <<>> \in Seq(STRING) /\ Paths \subseteq Seq(STRING)
  BY VfsAssumption
<1>2. at[n] \in Paths \cup {<<>>}
  BY DEF TypeOK
<1>3. at[n] \in Seq(STRING)
  BY <1>1, <1>2
<1> QED
  BY <1>3, EmptySeq

\* A child in the table of a node.
LEMMA KidFacts ==
  ASSUME IInv, NEW n \in live, NEW k \in kids[n]
  PROVE  /\ k[1] \in STRING /\ k[2] \in Slots /\ k = <<k[1], k[2]>>
         /\ Linked(k[2]) /\ parent[k[2]] = n /\ at[k[2]] = Append(at[n], k[1])
         /\ at[n] \in Seq(STRING) /\ at[k[2]] \in Seq(STRING)
         /\ Len(at[n]) \in Nat /\ Len(at[k[2]]) = Len(at[n]) + 1
<1>1. n \in Slots /\ kids[n] \subseteq STRING \X Slots
  BY DEF IInv, TypeOK
<1>2. k[1] \in STRING /\ k[2] \in Slots /\ k = <<k[1], k[2]>>
  BY <1>1
<1>3. Linked(k[2]) /\ parent[k[2]] = n /\ at[k[2]] = Append(at[n], k[1])
  BY DEF IInv, Tree
<1>4. at[n] \in Seq(STRING) /\ at[k[2]] \in Seq(STRING)
  BY <1>1, <1>2, PathTypes DEF IInv
<1> QED
  BY <1>2, <1>3, <1>4, AppendProperties

\* The node that a walk has found or loaded.
LEMMA NextFacts ==
  ASSUME IInv, NEW t \in Threads, pc[t] \in {"found", "new", "newfs"}
  PROVE  LET n == call[t].nxt IN
         /\ InCall(t) /\ call[t].rest # <<>> /\ <<Head(call[t].rest), n>> \in kids[cur(t)]
         /\ n \in live /\ n \in Slots /\ Linked(n) /\ parent[n] = cur(t) /\ n # cur(t)
         /\ Len(at[cur(t)]) \in Nat /\ Len(at[n]) = Len(at[cur(t)]) + 1
<1>1. InCall(t)
  BY DEF InCall
<1>2. cur(t) \in live
  BY <1>1, CallFacts
<1>3. call[t].rest # <<>> /\ <<Head(call[t].rest), call[t].nxt>> \in kids[cur(t)]
  BY DEF IInv, CallsInStep, CallInStep, cur
<1> DEFINE k == <<Head(call[t].rest), call[t].nxt>>
<1>4. /\ k[2] \in Slots /\ Linked(k[2]) /\ parent[k[2]] = cur(t)
      /\ Len(at[cur(t)]) \in Nat /\ Len(at[k[2]]) = Len(at[cur(t)]) + 1
  BY <1>2, <1>3, KidFacts
<1>5. k[2] = call[t].nxt
  OBVIOUS
<1> HIDE DEF k
<1>6. call[t].nxt # cur(t)
  BY <1>4, <1>5
<1> QED
  BY <1>1, <1>3, <1>4, <1>5, <1>6 DEF Linked

\* The parent of a linked node has a reference.
LEMMA ParentUsed ==
  ASSUME IInv, NEW s \in Slots, Linked(s)
  PROVE  /\ parent[s] \in live /\ refs[parent[s]] >= 1
         /\ \E x \in STRING : <<x, s>> \in kids[parent[s]] /\ at[s] = Append(at[parent[s]], x)
<1>1. parent[s] \in live /\ \E k \in kids[parent[s]] : k[2] = s
  BY DEF IInv, Tree
<1>2. PICK k \in kids[parent[s]] : k[2] = s
  BY <1>1
<1>3. k[1] \in STRING /\ k = <<k[1], k[2]>> /\ at[k[2]] = Append(at[parent[s]], k[1])
  BY <1>1, KidFacts
<1>4. refs[parent[s]] >= 1
  <2>1. CASE HoldsParent(s)
    BY <1>1, <2>1, Positive DEF IInv, Linked
  <2>2. CASE ~ HoldsParent(s)
    <3>1. PICK u \in Threads : pc[u] = "new" /\ call[u].nxt = s
      BY <2>2 DEF HoldsParent, Linked, Loading
    <3>2. parent[s] = cur(u) /\ InCall(u)
      BY <3>1, NextFacts
    <3> QED
      BY <3>2, CallFacts
  <2> QED
    BY <2>1, <2>2
<1> QED
  BY <1>1, <1>2, <1>3, <1>4

\* A node without references has no child.
LEMMA NoKids ==
  ASSUME IInv, NEW n \in live, refs[n] = 0
  PROVE  kids[n] = {} /\ \A s \in Slots : Linked(s) => parent[s] # n
<1>1. \A s \in Slots : Linked(s) => parent[s] # n
  <2> SUFFICES ASSUME NEW s \in Slots, Linked(s), parent[s] = n PROVE FALSE
    OBVIOUS
  <2>1. refs[n] >= 1
    BY ParentUsed
  <2> QED
    BY <2>1
<1>2. ASSUME NEW k \in kids[n] PROVE FALSE
  BY <1>1, <1>2, KidFacts
<1> QED
  BY <1>1, <1>2

\* The node in use for an item of a directory in use is in its table.
LEMMA OnlyChild ==
  ASSUME IInv, NEW n \in live, refs[n] >= 1, NEW m \in live, refs[m] >= 1,
         NEW x \in STRING, at[m] = Append(at[n], x)
  PROVE  m \in Child(n, x)
<1>0. n \in Slots /\ m \in Slots
  BY DEF IInv, TypeOK
<1>1. n \in Slots /\ m \in Slots /\ at[n] \in Seq(STRING) /\ at[m] \in Seq(STRING)
  BY <1>0, PathTypes DEF IInv
<1>2. at[Root] = <<>>
  BY DEF IInv, Tree
<1>3. Len(at[m]) = Len(at[n]) + 1 /\ Len(at[n]) \in Nat
  BY <1>1, AppendProperties
<1>4. m # Root
  BY <1>2, <1>3, <1>1, EmptySeq
<1>5. Linked(m)
  BY <1>4, UsedLinked
<1>6. parent[m] \in live /\ refs[parent[m]] >= 1
  BY <1>1, <1>5, ParentUsed
<1>7. PICK y \in STRING : <<y, m>> \in kids[parent[m]] /\ at[m] = Append(at[parent[m]], y)
  BY <1>1, <1>5, ParentUsed
<1>8. at[parent[m]] \in Seq(STRING) /\ parent[m] \in Slots
  <2>1. parent[m] \in Slots
    BY <1>6 DEF IInv, TypeOK
  <2> QED
    BY <2>1, PathTypes DEF IInv
<1>10. x = y /\ at[n] = at[parent[m]]
  <2>1. PICK p \in Seq(STRING) : p = at[n]
    BY <1>1
  <2>2. PICK q \in Seq(STRING) : q = at[parent[m]]
    BY <1>8
  <2>3. Front(Append(p, x)) = p /\ Append(p, x)[Len(Append(p, x))] = x
    BY FrontOfAppend
  <2>4. Front(Append(q, y)) = q /\ Append(q, y)[Len(Append(q, y))] = y
    BY FrontOfAppend
  <2>5. Append(p, x) = Append(q, y)
    BY <1>7, <2>1, <2>2
  <2> QED
    BY <2>1, <2>2, <2>3, <2>4, <2>5
<1>11. refs[parent[m]] \in Nat /\ refs[n] \in Nat
  BY <1>1, <1>8 DEF IInv, TypeOK
<1>12. refs[parent[m]] > 0 /\ refs[n] > 0
  BY <1>6, <1>11
<1>13. n = parent[m]
  BY <1>6, <1>10, <1>12 DEF IInv, OncePerItem
<1> QED
  BY <1>1, <1>7, <1>10, <1>13 DEF Child

\* The file system that a call walks on is there, and so is the one its nodes
\* are of.
LEMMA RootFacts ==
  ASSUME IInv
  PROVE  /\ fsroot["main"] = Root /\ at[Root] = <<>> /\ Len(at[Root]) = 0
         /\ \A f \in Fs : fsrefs[f] >= 1 => fsroot[f] \in live /\ refs[fsroot[f]] >= 1
         /\ fsrefs["sub"] >= 1 => Linked(fsroot["sub"]) /\ Len(at[fsroot["sub"]]) >= 1
         /\ \A t \in Threads : InCall(t) => Len(at[fsroot[call[t].fs]]) <= Len(at[cur(t)])
         /\ \A t \in Threads : InCall(t) /\ cur(t) = Root => call[t].fs = "main"
<1>1. fsroot["main"] = Root /\ at[Root] = <<>> /\ Root \in Slots
  BY VfsAssumption DEF IInv, FsPlaced, Tree
<1>2. Len(at[Root]) = 0
  BY <1>1
<1>3. \A f \in Fs : fsrefs[f] \in Nat /\ fsroot[f] \in Slots \cup {NoSlot}
  BY DEF IInv, TypeOK
<1>4. ASSUME NEW f \in Fs, fsrefs[f] >= 1 PROVE fsroot[f] \in live
  <2>1. fsrefs[f] > 0 /\ f \in {"main", "sub"}
    BY <1>3, <1>4 DEF Fs
  <2> QED
    BY <1>1, <2>1 DEF IInv, FsPlaced
<1>5. ASSUME NEW f \in Fs, fsrefs[f] >= 1 PROVE refs[fsroot[f]] >= 1
  <2>1. fsrefs[f] > 0 /\ fsroot[f] \in live
    BY <1>3, <1>4, <1>5
  <2> QED
    BY <2>1, Positive DEF IInv
<1>6. ASSUME fsrefs["sub"] >= 1
      PROVE  Linked(fsroot["sub"]) /\ Len(at[fsroot["sub"]]) >= 1
  <2>1. "sub" \in Fs /\ fsrefs["sub"] > 0
    BY <1>3, <1>6 DEF Fs
  <2>2. Len(at[fsroot["sub"]]) >= 1
    BY <2>1 DEF IInv, FsPlaced, Depth
  <2>3. fsroot["sub"] # Root
    BY <1>2, <2>2
  <2>4. fsroot["sub"] \in live /\ refs[fsroot["sub"]] >= 1
    BY <1>4, <1>5, <1>6, <2>1
  <2> QED
    BY <2>2, <2>3, <2>4, UsedLinked
<1>7. ASSUME NEW t \in Threads, InCall(t) PROVE Len(at[fsroot[call[t].fs]]) <= Len(at[cur(t)])
  BY <1>7 DEF IInv, CallsInStep, CallInStep, Depth, cur
<1>8. ASSUME NEW t \in Threads, InCall(t), cur(t) = Root PROVE call[t].fs = "main"
  <2>1. call[t].fs \in {"main", "sub"} /\ fsrefs[call[t].fs] >= 1
    BY <1>8, CallFacts DEF Fs
  <2>2. CASE call[t].fs = "sub"
    <3>1. fsroot["sub"] \in Slots
      BY <1>6, <2>1, <2>2 DEF Linked, IInv, TypeOK
    <3>2. Len(at[fsroot["sub"]]) \in Nat
      BY <3>1, PathTypes DEF IInv
    <3> QED
      BY <1>2, <1>6, <1>7, <1>8, <2>1, <2>2, <3>2
  <2> QED
    BY <2>1, <2>2
<1> QED
  BY <1>1, <1>2, <1>4, <1>5, <1>6, <1>7, <1>8

\* A linked node that holds no reference on its file system is still loaded, in a
\* call on a file system that somebody has.
LEMMA Loaded ==
  ASSUME IInv, NEW s \in Slots, Linked(s), ~ HoldsFs(s)
  PROVE  \E u \in Threads :
           /\ pc[u] \in {"new", "newfs"} /\ InCall(u) /\ call[u].nxt = s
           /\ parent[s] = cur(u)
<1>1. PICK u \in Threads : pc[u] \in {"new", "newfs"} /\ call[u].nxt = s
  BY DEF HoldsFs, Linked, Loading
<1>2. InCall(u) /\ parent[s] = cur(u)
  BY <1>1, NextFacts
<1> QED
  BY <1>1, <1>2

\* While a file system made by fs_subfs() is there, the one it is part of is held
\* by a process or by a node.
LEMMA SubHoldsMain ==
  ASSUME IInv, fsrefs["sub"] >= 1
  PROVE  "main" \in owned \/ \E s \in live : HoldsFs(s)
<1> DEFINE r == fsroot["sub"]
<1>1. Linked(r) /\ Len(at[r]) >= 1 /\ r \in live /\ r \in Slots
  BY RootFacts DEF Linked, IInv, TypeOK
<1> SUFFICES ASSUME ~ HoldsFs(r) PROVE "main" \in owned
  BY <1>1
<1>2. PICK u \in Threads : pc[u] \in {"new", "newfs"} /\ InCall(u) /\ call[u].nxt = r
  BY <1>1, Loaded
<1>3. Len(at[cur(u)]) \in Nat /\ Len(at[r]) = Len(at[cur(u)]) + 1
  BY <1>2, NextFacts
<1>4. call[u].fs # "sub"
  <2> SUFFICES ASSUME call[u].fs = "sub" PROVE FALSE
    OBVIOUS
  <2>1. Len(at[r]) <= Len(at[cur(u)])
    BY <1>2, RootFacts
  <2> QED
    BY <1>3, <2>1
<1>5. call[u].fs = "main" /\ call[u].fs \in owned
  BY <1>2, <1>4, CallFacts DEF Fs
<1> QED
  BY <1>5

\* While a call is under way the file system main has not been freed.
LEMMA MainThere ==
  ASSUME IInv, NEW t \in Threads, InCall(t)
  PROVE  /\ fsrefs["main"] >= 1
         /\ "main" \in owned \/ \E s \in live : HoldsFs(s)
<1>1. call[t].fs \in {"main", "sub"} /\ call[t].fs \in owned /\ fsrefs[call[t].fs] >= 1
  BY CallFacts DEF Fs
<1>2. "main" \in owned \/ \E s \in live : HoldsFs(s)
  BY <1>1, SubHoldsMain
<1>3. "main" \in Fs
  BY DEF Fs
<1> QED
  BY <1>2, <1>3, Positive DEF IInv

\* The item at the head of a stack is all that is left of a file system with one
\* reference.
LEMMA LastOfFs ==
  ASSUME IInv, NEW t \in Threads, NEW f \in Fs, todo[t] # <<>>, Head(todo[t]) = fsys(f),
         fsrefs[f] = 1
  PROVE  /\ f \notin owned
         /\ \A u \in Threads : \A n \in Slots : <<f, n>> \notin handles[u]
         /\ f = "main" => \A s \in live : ~ HoldsFs(s)
         /\ \A u \in Threads : \A i \in DOMAIN todo[u] : todo[u][i] = fsys(f) => u = t /\ i = 1
<1>1. fsys(f) \in Items
  BY ItemFacts
<1>2. 1 \in DOMAIN todo[t] /\ todo[t][1] = fsys(f)
  BY ThreadTypes DEF IInv
<1>3. \A u \in Threads : \A i \in DOMAIN todo[u] : todo[u][i] = fsys(f) => <<u, i>> \in Places(fsys(f))
  BY InPlaces, PlacesAreIn
<1>4. /\ IsFiniteSet({f} \cap owned) /\ IsFiniteSet(Places(fsys(f)))
      /\ IsFiniteSet(OpenFiles(f)) /\ IsFiniteSet(Nodes(f))
  BY <1>1, HoldersFinite DEF StacksFinite, IInv
<1>5. /\ Cardinality({f} \cap owned) \in Nat /\ Cardinality(Places(fsys(f))) \in Nat
      /\ Cardinality(OpenFiles(f)) \in Nat /\ Cardinality(Nodes(f)) \in Nat
  BY <1>4, FS_CardinalityType
<1>6. 1 = FsRefs(f)
  BY DEF IInv, CountsExact
<1>7. Cardinality(Places(fsys(f))) >= 1
  BY <1>2, <1>3, <1>4, Counted
<1>8. /\ Cardinality({f} \cap owned) = 0 /\ Cardinality(OpenFiles(f)) = 0
      /\ Cardinality(Nodes(f)) = 0 /\ Cardinality(Places(fsys(f))) = 1
  BY <1>5, <1>6, <1>7 DEF FsRefs
<1>9. {f} \cap owned = {} /\ OpenFiles(f) = {} /\ Nodes(f) = {}
  BY <1>4, <1>8, FS_EmptySet
<1>10. ASSUME NEW u \in Threads, NEW i \in DOMAIN todo[u], todo[u][i] = fsys(f), <<u, i>> # <<t, 1>>
       PROVE  FALSE
  <2>1. <<u, i>> \in Places(fsys(f)) /\ <<t, 1>> \in Places(fsys(f))
    BY <1>2, <1>3, <1>10
  <2>2. Cardinality(Places(fsys(f))) >= 2
    BY <1>4, <1>10, <2>1, Counted
  <2> QED
    BY <1>8, <2>2
<1>11. ASSUME NEW u \in Threads, NEW n \in Slots, <<f, n>> \in handles[u] PROVE FALSE
  <2>1. <<u, n>> \in OpenFiles(f)
    BY <1>11 DEF OpenFiles
  <2> QED
    BY <1>9, <2>1
<1>12. f = "main" => \A s \in live : ~ HoldsFs(s)
  BY <1>9 DEF Nodes
<1>13. f \notin owned
  BY <1>9
<1> QED
  BY <1>10, <1>11, <1>12, <1>13

\* When the file system itself goes, nothing of it is left but its root.
LEMMA MainGoes ==
  ASSUME IInv, NEW t \in Threads, todo[t] # <<>>, Head(todo[t]) = fsys("main"),
         fsrefs["main"] = 1
  PROVE  /\ \A u \in Threads : ~ InCall(u) /\ handles[u] = {}
         /\ \A s \in Slots : ~ Linked(s)
         /\ \A u \in Threads : \A i \in DOMAIN todo[u] : todo[u][i] # node(Root)
         /\ fsrefs["sub"] = 0 /\ Root \in live
<1>1. "main" \in Fs /\ "sub" \in Fs
  BY DEF Fs
<1>2. /\ "main" \notin owned /\ \A s \in live : ~ HoldsFs(s)
      /\ \A u \in Threads : \A n \in Slots : <<"main", n>> \notin handles[u]
      /\ \A u \in Threads : \A i \in DOMAIN todo[u] : todo[u][i] = fsys("main") => u = t /\ i = 1
  BY <1>1, LastOfFs
<1>3. \A u \in Threads : ~ InCall(u)
  BY <1>2, MainThere
<1>4. fsrefs["sub"] = 0
  <2>1. fsrefs["sub"] \in Nat /\ ~ (fsrefs["sub"] >= 1)
    BY <1>1, <1>2, SubHoldsMain DEF IInv, TypeOK
  <2> QED
    BY <2>1
<1>5. ASSUME NEW s \in Slots, Linked(s) PROVE FALSE
  <2>1. s \in live /\ ~ HoldsFs(s)
    BY <1>2, <1>5 DEF Linked
  <2>2. \E u \in Threads : InCall(u)
    BY <1>5, <2>1, Loaded
  <2> QED
    BY <1>3, <2>2
<1>6. ASSUME NEW u \in Threads PROVE handles[u] = {}
  <2>1. handles[u] \subseteq Fs \X Slots
    BY DEF IInv, TypeOK
  <2>2. ASSUME NEW h \in handles[u] PROVE FALSE
    <3>1. h = <<h[1], h[2]>> /\ h[1] \in {"main", "sub"} /\ h[2] \in Slots
      BY <2>1, <2>2 DEF Fs
    <3>2. h[1] = "sub"
      BY <1>2, <2>2, <3>1
    <3>3. <<"sub", h[2]>> \in handles[u]
      BY <2>2, <3>1, <3>2
    <3>4. fsrefs["sub"] >= 1
      BY <1>1, <3>1, <3>3, Positive DEF IInv
    <3> QED
      BY <1>4, <3>4
  <2> QED
    BY <2>2
<1>7. ASSUME NEW u \in Threads, NEW i \in DOMAIN todo[u], todo[u][i] = node(Root) PROVE FALSE
  <2>1. call[u].fs # "main"
    <3>1. todo[u] # <<>>
      BY <1>7
    <3>2. call[u].fs # "none" => call[u].fs \in owned
      BY <3>1 DEF IInv, CallsInStep, CallInStep
    <3> QED
      BY <1>2, <3>2
  <2>2. PICK j \in DOMAIN todo[u] : j > i /\ todo[u][j] = fsys("main")
    BY <1>7, <2>1 DEF IInv, RootKept
  <2>3. j = 1 /\ i \in Nat \ {0}
    <3>1. todo[u] \in Seq(Items)
      BY ThreadTypes DEF IInv
    <3>2. DOMAIN todo[u] = 1 .. Len(todo[u]) /\ Len(todo[u]) \in Nat
      BY <3>1
    <3> QED
      BY <1>2, <2>2, <3>2
  <2> QED
    BY <2>2, <2>3
<1>8. Root \in live
  BY DEF IInv, FsPlaced
<1> QED
  BY <1>3, <1>4, <1>5, <1>6, <1>7, <1>8
-----------------------------------------------------------------------------
(***************************************************************************)
(* The steps, with those that differ in the driver only taken together.    *)
(***************************************************************************)

\* What the driver holds is of the right type, and is in directories.
DriverOk ==
  /\ disk \subseteq Paths /\ stuck \subseteq Dirs /\ listed \in [Dirs -> Int]
  /\ former \subseteq Slots /\ freed \subseteq Slots
  /\ \A j \in disk : Front(j) \in Dirs

\* Nothing happens but in the driver.
DriverOnly == UNCHANGED <<nvars, fvars, tvars, hvars>> /\ DriverOk'

\* The calls that end with the node unlocked.
Back(t) ==
  /\ pc[t] \in {"miss", "locked"} /\ todo[t] = <<>>
  /\ Unlock(cur(t))
  /\ Return(t, cur(t))
  /\ DriverOk'
  /\ seen' \in [Threads -> SUBSET Slots]
  /\ \A u \in Threads \ {t} : seen'[u] = seen[u]
  /\ UNCHANGED <<live, refs, parent, at, kids, fvars, leaked>>

\* The calls that end and lose their reference to the node.
Forget(t) ==
  /\ At(t, "walk")
  /\ call[t].op \in {"delete", "subfs"}
  /\ Lose(cur(t))
  /\ Goto(t, "idle")
  /\ call' = [call EXCEPT ![t] = NoCall]
  /\ UNCHANGED <<nvars, fvars, dvars, todo, seen>>

Acts(t) ==
  \/ \E op \in Ops, f \in Fs, p \in Seq(STRING) : Begin(t, op, f, p)
  \/ Look(t) \/ Found(t) \/ Load(t) \/ NewParent(t) \/ NewFs(t)
  \/ Back(t) \/ Forget(t) \/ DeleteLooked(t) \/ LockNode(t)
  \/ OpenOk(t) \/ fs_open(t) \/ fs_subfs(t)
  \/ \E u \in Threads : \E h \in handles[u] : unref_file(t, u, h)
  \/ \E f \in Fs : rm_fs(t, f)
  \/ UnrefNode(t) \/ LastRef(t) \/ Unlink(t) \/ FreeNode(t) \/ unref_fs(t)

\* A driver's call ends by giving its lock back and its node up.
LEMMA DoneGoesBack ==
  ASSUME IInv, NEW t \in Threads, pc[t] = "locked", todo[t] = <<>>, Done(t), DriverOk'
  PROVE  Back(t)
<1>1. seen \in [Threads -> SUBSET Slots] /\ seen' = [seen EXCEPT ![t] = {}]
  BY DEF IInv, TypeOK, Done
<1>2. seen' \in [Threads -> SUBSET Slots] /\ \A u \in Threads \ {t} : seen'[u] = seen[u]
  BY <1>1
<1>3. Unlock(cur(t)) /\ Return(t, cur(t)) /\ UNCHANGED <<live, refs, parent, at, kids, fvars, leaked>>
  BY DEF Done
<1> QED
  BY <1>2, <1>3 DEF Back

\* The driver at first and while nothing happens in it.
LEMMA DriverStays ==
  ASSUME IInv
  PROVE  DriverOk /\ (UNCHANGED dvars => DriverOk')
<1>1. DriverOk
  BY DEF IInv, TypeOK, FsPlaced, DriverOk
<1> QED
  BY <1>1 DEF DriverOk, dvars

\* The lists of the directories have lengths.
LEMMA ListsType ==
  ASSUME IInv, NEW d, NEW k \in Int, NEW ds
  PROVE  Lists(d, k, ds) \in [Dirs -> Int]
<1>1. listed \in [Dirs -> Int]
  BY DEF IInv, TypeOK
<1> QED
  BY <1>1 DEF Lists

\* A driver's call is about an item of the directory it is in.
LEMMA ItemIn ==
  ASSUME IInv, NEW t \in Threads, pc[t] = "locked"
  PROVE  Front(Item(cur(t), call[t].last)) = at[cur(t)]
<1> DEFINE n == cur(t)
           x == call[t].last
<1>1. n \in Slots /\ at[n] \in Seq(STRING)
  <2>1. n \in Slots
    BY CallFacts DEF InCall
  <2> QED
    BY <2>1, PathTypes DEF IInv
<1>2. PICK p : p = at[n]
  OBVIOUS
<1>3. PICK y : y = x
  OBVIOUS
<1>4. PICK S : S = STRING \cup {""}
  OBVIOUS
<1>5. p \in Seq(S) /\ y \in S
  <2>1. x \in STRING \cup {""}
    BY ThreadTypes DEF IInv
  <2>2. Len(p) \in Nat /\ p \in [1 .. Len(p) -> STRING]
    BY <1>1, <1>2
  <2>3. p \in [1 .. Len(p) -> S]
    BY <2>2, <1>4
  <2>4. p \in Seq(S)
    BY <2>2, <2>3, SeqDef
  <2> QED
    BY <2>1, <2>4, <1>3, <1>4
<1>6. Front(Append(p, y)) = p
  BY <1>5, FrontOfAppend
<1> QED
  BY <1>2, <1>3, <1>6 DEF Item

\* Items come into directories, ...
LEMMA CreateInDriver ==
  ASSUME IInv, NEW t \in Threads, pc[t] = "locked", nullfs_d_create(cur(t), call[t].last)
  PROVE  DriverOk'
<1> DEFINE n == cur(t)
           x == call[t].last
           i == Item(n, x)
<1>1. DriverOk
  BY DriverStays
<1>2. CASE UNCHANGED dvars
  BY <1>2, DriverStays
<1>3. CASE ~ UNCHANGED dvars
  <2>1. Front(i) = at[n]
    BY ItemIn
  <2>2. /\ at[n] \in Dirs /\ i \in Paths
        /\ disk' \subseteq disk \cup {i} /\ stuck' \subseteq stuck
        /\ former' \subseteq former \cup Child(n, x) /\ freed' = freed
    BY <1>3 DEF nullfs_d_create
  <2>3. listed' = Lists(at[n], 1, Below(i) \cup {i}) \/ listed' = Lists(at[n], 1, {})
    BY <1>3 DEF nullfs_d_create
  <2>4. listed' \in [Dirs -> Int]
    BY <2>3, ListsType
  <2>5. Child(n, x) \subseteq Slots
    BY DEF Child
  <2> HIDE DEF i
  <2>6. disk' \subseteq Paths /\ stuck' \subseteq Dirs /\ former' \subseteq Slots /\ freed' \subseteq Slots
    BY <1>1, <2>2, <2>5 DEF DriverOk
  <2>7. \A j \in disk' : Front(j) \in Dirs
    BY <1>1, <2>1, <2>2 DEF DriverOk
  <2> QED
    BY <2>4, <2>6, <2>7 DEF DriverOk
<1> QED
  BY <1>2, <1>3

\* ... and go,
LEMMA DeleteInDriver ==
  ASSUME IInv, NEW t \in Threads,
         \/ nullfs_d_delete(cur(t), call[t].last)
         \/ nullfs_d_delete_astray(cur(t), call[t].last) /\ at[cur(t)] \in Dirs
         \/ nullfs_d_delete_fails(cur(t), call[t].last)
  PROVE  DriverOk'
<1> DEFINE n == cur(t)
           x == call[t].last
<1>1. DriverOk
  BY DriverStays
<1>2. Child(n, x) \subseteq Slots
  BY DEF Child
<1>3. CASE nullfs_d_delete(n, x)
  <2>1. listed' \in [Dirs -> Int]
    BY <1>3, ListsType DEF nullfs_d_delete
  <2> QED
    BY <1>1, <1>2, <1>3, <2>1 DEF nullfs_d_delete, DriverOk
<1>4. CASE nullfs_d_delete_astray(n, x) /\ at[n] \in Dirs
  BY <1>1, <1>2, <1>4 DEF nullfs_d_delete_astray, DriverOk
<1>5. CASE nullfs_d_delete_fails(n, x)
  <2>1. CASE UNCHANGED dvars
    BY <2>1, DriverStays
  <2>2. CASE ~ UNCHANGED dvars
    BY <1>1, <1>5, <2>2 DEF nullfs_d_delete_fails, DriverOk, Empty
  <2> QED
    BY <2>1, <2>2
<1> QED
  BY <1>3, <1>4, <1>5

\* also when the node that hid an item goes.
LEMMA ShownInDriver ==
  ASSUME IInv, NEW n, ItemShown(n)
  PROVE  DriverOk'
<1>1. DriverOk
  BY DriverStays
<1>2. former' \subseteq former /\ freed' \subseteq freed
  BY DEF ItemShown
<1>3. CASE UNCHANGED <<disk, stuck, listed>>
  BY <1>1, <1>2, <1>3 DEF DriverOk
<1>4. CASE ~ UNCHANGED <<disk, stuck, listed>>
  <2>1. disk' \subseteq disk /\ stuck' \subseteq stuck /\ listed' = Lists(<<>>, 0, Below(at[n]) \cup {at[n]})
    BY <1>4 DEF ItemShown
  <2>2. listed' \in [Dirs -> Int]
    BY <2>1, ListsType
  <2> QED
    BY <1>1, <1>2, <2>1, <2>2 DEF DriverOk
<1> QED
  BY <1>3, <1>4

\* Each step is one of the kinds that Acts() lists, by one thread, or the one
\* that only the driver takes.
LEMMA NextIsActs ==
  ASSUME IInv, Next
  PROVE  DriverOnly \/ \E t \in Threads : Acts(t)
<1>1. seen \in [Threads -> SUBSET Slots]
  BY DEF IInv, TypeOK
<1>2. ASSUME NEW t \in Threads, Miss(t) PROVE Back(t)
  <2>1. UNCHANGED dvars /\ pc[t] = "miss" /\ todo[t] = <<>>
    BY <1>2 DEF Miss, At
  <2>2. DriverOk'
    BY <2>1, DriverStays
  <2> QED
    BY <1>1, <1>2, <2>1, <2>2 DEF Miss, Back, hvars
<1>3. ASSUME NEW t \in Threads, fs_stat(t) \/ OpenFails(t) PROVE Back(t)
  <2>1. pc[t] = "locked" /\ todo[t] = <<>> /\ Done(t) /\ UNCHANGED dvars
    BY <1>3 DEF fs_stat, OpenFails, Driver, At
  <2> QED
    BY <2>1, DriverStays, DoneGoesBack
<1>4. ASSUME NEW t \in Threads, fs_create(t) PROVE Back(t)
  <2>1. pc[t] = "locked" /\ todo[t] = <<>> /\ Done(t) /\ nullfs_d_create(cur(t), call[t].last)
    BY <1>4 DEF fs_create, Driver, At
  <2> QED
    BY <2>1, CreateInDriver, DoneGoesBack
<1>5. ASSUME NEW t \in Threads, fs_delete(t) \/ fs_delete_fails(t) PROVE Back(t)
  <2>1. /\ pc[t] = "locked" /\ todo[t] = <<>> /\ Done(t)
        /\ \/ nullfs_d_delete(cur(t), call[t].last)
           \/ nullfs_d_delete_fails(cur(t), call[t].last)
    BY <1>5 DEF fs_delete, fs_delete_fails, Driver, At
  <2> QED
    BY <2>1, DeleteInDriver, DoneGoesBack
<1>6. ASSUME NEW t \in Threads, fs_delete_astray(t) PROVE DriverOnly
  <2>1. /\ nullfs_d_delete_astray(cur(t), call[t].last)
        /\ UNCHANGED <<nvars, fvars, tvars, hvars>>
    BY <1>6 DEF fs_delete_astray
  <2>2. at[cur(t)] \in Dirs
    <3>1. Item(cur(t), call[t].last) \in disk
      BY <2>1 DEF nullfs_d_delete_astray, Deletable
    <3>2. pc[t] = "locked"
      BY <1>6 DEF fs_delete_astray, Driver, At
    <3> QED
      BY <3>1, <3>2, ItemIn, DriverStays DEF DriverOk
  <2> QED
    BY <2>1, <2>2, DeleteInDriver DEF DriverOnly
<1>7. ASSUME NEW t \in Threads, DeleteInMemory(t) \/ SubfsFails(t) PROVE Forget(t)
  BY <1>7 DEF DeleteInMemory, SubfsFails, Forget, Arrived
<1>8. ASSUME NEW t \in Threads, \E a \in Asked : Begin(t, a[1], a[2], a[3])
      PROVE  \E op \in Ops, f \in Fs, p \in Seq(STRING) : Begin(t, op, f, p)
  BY <1>8, VfsAssumption
<1> QED
  BY <1>2, <1>3, <1>4, <1>5, <1>6, <1>7, <1>8 DEF Next, Acts

\* A step of t changes nothing that other threads have in hand.
LEMMA OthersUnmoved ==
  ASSUME TypeOK, NEW t \in Threads, Acts(t), NEW u \in Threads, u # t
  PROVE  pc'[u] = pc[u] /\ call'[u] = call[u] /\ todo'[u] = todo[u]
<1>1. /\ pc \in [Threads -> PCs] /\ call \in [Threads -> Calls] /\ todo \in [Threads -> Seq(Items)]
  BY DEF TypeOK
<1>2. \A p : Goto(t, p) => pc'[u] = pc[u]
  BY <1>1 DEF Goto
<1>3. \A s : Instead(t, s) => todo'[u] = todo[u]
  BY <1>1 DEF Instead
<1>4. \A n : Return(t, n) => pc'[u] = pc[u] /\ call'[u] = call[u] /\ todo'[u] = todo[u]
  BY <1>1 DEF Return, Goto
<1>5. Step(t) => pc'[u] = pc[u] /\ call'[u] = call[u] /\ todo'[u] = todo[u]
  BY <1>1 DEF Step, Goto
<1>6. ASSUME \E op \in Ops, f \in Fs, p \in Seq(STRING) : Begin(t, op, f, p)
      PROVE  pc'[u] = pc[u] /\ call'[u] = call[u] /\ todo'[u] = todo[u]
  BY <1>1, <1>2, <1>6 DEF Begin
<1>7. ASSUME Look(t) PROVE pc'[u] = pc[u] /\ call'[u] = call[u] /\ todo'[u] = todo[u]
  BY <1>1, <1>2, <1>7 DEF Look
<1>8. ASSUME Found(t) \/ NewFs(t) PROVE pc'[u] = pc[u] /\ call'[u] = call[u] /\ todo'[u] = todo[u]
  BY <1>5, <1>8 DEF Found, NewFs
<1>9. ASSUME Load(t) PROVE pc'[u] = pc[u] /\ call'[u] = call[u] /\ todo'[u] = todo[u]
  BY <1>1, <1>2, <1>9 DEF Load
<1>10. ASSUME NewParent(t) \/ DeleteLooked(t) \/ LockNode(t) \/ OpenOk(t)
       PROVE  pc'[u] = pc[u] /\ call'[u] = call[u] /\ todo'[u] = todo[u]
  BY <1>2, <1>10 DEF NewParent, DeleteLooked, LockNode, OpenOk
<1>11. ASSUME Back(t) PROVE pc'[u] = pc[u] /\ call'[u] = call[u] /\ todo'[u] = todo[u]
  BY <1>4, <1>11 DEF Back
<1>12. ASSUME Forget(t) \/ fs_open(t) \/ fs_subfs(t)
       PROVE  pc'[u] = pc[u] /\ call'[u] = call[u] /\ todo'[u] = todo[u]
  BY <1>1, <1>2, <1>12 DEF Forget, fs_open, fs_subfs
<1>13. ASSUME NEW v, NEW h, unref_file(t, v, h)
       PROVE  pc'[u] = pc[u] /\ call'[u] = call[u] /\ todo'[u] = todo[u]
  BY <1>1, <1>13 DEF unref_file
<1>14. ASSUME NEW f, rm_fs(t, f)
       PROVE  pc'[u] = pc[u] /\ call'[u] = call[u] /\ todo'[u] = todo[u]
  BY <1>1, <1>14 DEF rm_fs
<1>15. ASSUME UnrefNode(t) \/ LastRef(t) \/ Unlink(t) \/ FreeNode(t) \/ unref_fs(t)
       PROVE  pc'[u] = pc[u] /\ call'[u] = call[u] /\ todo'[u] = todo[u]
  BY <1>3, <1>15 DEF UnrefNode, LastRef, Unlink, FreeNode, unref_fs
<1> QED
  BY <1>6, <1>7, <1>8, <1>9, <1>10, <1>11, <1>12, <1>13, <1>14, <1>15 DEF Acts

\* What a thread that has an item to do has in hand.
LEMMA HeadItem ==
  ASSUME IInv, NEW t \in Threads, todo[t] # <<>>
  PROVE  LET x == Head(todo[t]) IN
         /\ x = todo[t][1] /\ 1 \in DOMAIN todo[t] /\ x \in Items
         /\ pc[t] \in {"idle", "walk"}
         /\ x.do = "node" => x = node(x.n) /\ x.n \in live /\ x.n \in Slots /\ refs[x.n] \in Nat \ {0}
         /\ x.do \in {"parent", "free"} =>
              /\ x.n \in live \ {Root} /\ x.n \in Slots /\ refs[x.n] = 0 /\ Removes(t, x.n)
              /\ lock[x.n] = t
         /\ x.do = "parent" =>
              /\ x = par(x.n) /\ Linked(x.n)
              /\ parent[x.n] \in live /\ parent[x.n] \in Slots /\ parent[x.n] # x.n
         /\ x.do = "free" => x = free(x.n) /\ Unlinked(x.n)
         /\ x.do = "fs" => x = fsys(x.fs) /\ x.fs \in Fs /\ fsrefs[x.fs] \in Nat \ {0}
         /\ \A n : x \in Removed(n) => \A i \in DOMAIN todo[t] : todo[t][i] \in Removed(n) => i = 1
<1> DEFINE x == Head(todo[t])
<1>0. TypeOK
  BY DEF IInv
<1>1. x = todo[t][1] /\ 1 \in DOMAIN todo[t] /\ x \in Items
  BY <1>0, ThreadTypes
<1>2. LET y == todo[t][1] IN
         /\ y.do = "node" => y = node(y.n) /\ y.n \in live /\ refs[y.n] >= 1
         /\ y.do = "parent" => y = par(y.n)
         /\ y.do = "free" => y = free(y.n)
         /\ y.do \in {"parent", "free"} =>
              y.n \in live \ {Root} /\ refs[y.n] = 0 /\ Removes(t, y.n)
         /\ y.do = "fs" => y = fsys(y.fs) /\ y.fs \in Fs /\ fsrefs[y.fs] >= 1
  BY <1>1, ItemOf
<1> HIDE DEF x
<1>3. /\ x.do = "node" => x = node(x.n) /\ x.n \in live /\ refs[x.n] >= 1
      /\ x.do = "parent" => x = par(x.n)
      /\ x.do = "free" => x = free(x.n)
      /\ x.do \in {"parent", "free"} =>
           x.n \in live \ {Root} /\ refs[x.n] = 0 /\ Removes(t, x.n)
      /\ x.do = "fs" => x = fsys(x.fs) /\ x.fs \in Fs /\ fsrefs[x.fs] >= 1
  BY <1>1, <1>2
<1>4. \A n \in live : n \in Slots /\ refs[n] \in Nat
  BY <1>0 DEF TypeOK
<1>5. \A f \in Fs : fsrefs[f] \in Nat
  BY <1>0 DEF TypeOK
<1>6. pc[t] \in {"idle", "walk"}
  BY DEF IInv, Stacks, StackOk
<1>7. \A n : x \in Removed(n) => \A i \in DOMAIN todo[t] : todo[t][i] \in Removed(n) => i = 1
  BY <1>1, BeingRemoved
<1>8. ASSUME x.do \in {"parent", "free"} PROVE lock[x.n] = t
  BY <1>3, <1>4, <1>8 DEF IInv, Locks
<1>9. ASSUME x.do = "parent"
      PROVE  /\ Linked(x.n)
             /\ parent[x.n] \in live /\ parent[x.n] \in Slots /\ parent[x.n] # x.n
  <2>1. x.n \in live \ {Root} /\ x.n \in Slots /\ Removes(t, x.n) /\ x = par(x.n) /\ refs[x.n] = 0
    BY <1>3, <1>4, <1>9
  <2>2. ASSUME Unlinked(x.n) PROVE FALSE
    <3>1. PICK n : n = x.n
      OBVIOUS
    <3>2. PICK u \in Threads : \E i \in DOMAIN todo[u] : todo[u][i] = free(n)
      BY <2>2, <3>1, BeingRemoved
    <3>3. PICK i \in DOMAIN todo[u] : todo[u][i] = free(n)
      BY <3>2
    <3>4. Removes(u, n)
      BY <3>3 DEF Removes, Removed
    <3>5. u = t
      <4>1. n \in Slots /\ Removes(t, n)
        BY <2>1, <3>1
      <4> QED
        BY <3>4, <4>1, OneHolder
    <3>6. i = 1
      BY <1>7, <2>1, <3>1, <3>3, <3>5 DEF Removed
    <3>7. free(n) = par(n)
      BY <1>1, <2>1, <3>1, <3>3, <3>5, <3>6
    <3> QED
      BY <3>7, ItemFacts
  <2>3. Linked(x.n)
    BY <2>1, <2>2 DEF Linked
  <2>4. parent[x.n] \in live /\ refs[parent[x.n]] >= 1
    BY <2>1, <2>3, ParentUsed
  <2>5. parent[x.n] # x.n
    BY <2>1, <2>4
  <2> QED
    BY <1>4, <2>3, <2>4, <2>5
<1>10. ASSUME x.do = "free" PROVE Unlinked(x.n)
  <2>1. todo[t][1] = free(x.n)
    BY <1>1, <1>3, <1>10
  <2> QED
    BY <1>1, <2>1 DEF Unlinked, Range
<1>11. x.do = "node" => x.n \in Slots /\ refs[x.n] \in Nat \ {0}
  BY <1>3, <1>4
<1>12. x.do = "fs" => fsrefs[x.fs] \in Nat \ {0}
  BY <1>3, <1>5
<1>13. x.do \in {"parent", "free"} => x.n \in Slots
  BY <1>3, <1>4
<1> QED
  BY <1>1, <1>3, <1>6, <1>7, <1>8, <1>9, <1>10, <1>11, <1>12, <1>13 DEF x

\* Types are kept.
LEMMA TypesKept ==
  ASSUME IInv, NEW t \in Threads, Acts(t)
  PROVE  TypeOK'
<1> DEFINE Nodes1 == /\ live' \subseteq Slots /\ refs' \in [Slots -> Nat]
                     /\ lock' \in [Slots -> Threads \cup {NoThread}]
                     /\ parent' \in [Slots -> Slots \cup {NoSlot}]
                     /\ at' \in [Slots -> Paths \cup {<<>>}]
                     /\ kids' \in [Slots -> SUBSET (STRING \X Slots)]
           Files1 == /\ fsrefs' \in [Fs -> Nat] /\ fsroot' \in [Fs -> Slots \cup {NoSlot}]
                     /\ owned' \subseteq Fs
                     /\ handles' \in [Threads -> SUBSET (Fs \X Slots)]
           Disk1 == /\ disk' \subseteq Paths /\ stuck' \subseteq Dirs
                    /\ listed' \in [Dirs -> Int]
                    /\ former' \subseteq Slots /\ freed' \subseteq Slots
           Calls1 == /\ pc' \in [Threads -> PCs] /\ call' \in [Threads -> Calls]
                     /\ todo' \in [Threads -> Seq(Items)]
           Seen1 == leaked' \in [Slots -> 0 .. MaxLeaks] /\ seen' \in [Threads -> SUBSET Slots]
<1>0. SUFFICES Nodes1 /\ Files1 /\ Disk1 /\ Calls1 /\ Seen1
  BY DEF TypeOK
<1>1. TypeOK
  BY DEF IInv
<1>2. /\ UNCHANGED nvars => Nodes1
      /\ UNCHANGED fvars => Files1
      /\ UNCHANGED dvars => Disk1
      /\ UNCHANGED tvars => Calls1
      /\ UNCHANGED hvars => Seen1
  BY <1>1 DEF TypeOK, nvars, fvars, dvars, tvars, hvars
<1>3. /\ live \subseteq Slots /\ refs \in [Slots -> Nat]
      /\ lock \in [Slots -> Threads \cup {NoThread}]
      /\ parent \in [Slots -> Slots \cup {NoSlot}]
      /\ at \in [Slots -> Paths \cup {<<>>}]
      /\ kids \in [Slots -> SUBSET (STRING \X Slots)]
  BY <1>1 DEF TypeOK
<1>4. /\ fsrefs \in [Fs -> Nat] /\ fsroot \in [Fs -> Slots \cup {NoSlot}]
      /\ owned \subseteq Fs
      /\ handles \in [Threads -> SUBSET (Fs \X Slots)]
  BY <1>1 DEF TypeOK
<1>5. pc \in [Threads -> PCs] /\ call \in [Threads -> Calls] /\ todo \in [Threads -> Seq(Items)]
  BY <1>1 DEF TypeOK
<1>6. leaked \in [Slots -> 0 .. MaxLeaks] /\ seen \in [Threads -> SUBSET Slots]
  BY <1>1 DEF TypeOK
<1>7. \A p \in PCs : Goto(t, p) => pc' \in [Threads -> PCs]
  BY <1>5 DEF Goto
<1>8. \A c \in Calls : call' = [call EXCEPT ![t] = c] => call' \in [Threads -> Calls]
  BY <1>5
<1>9. /\ \A n \in Slots : Unlock(n) => lock' \in [Slots -> Threads \cup {NoThread}]
      /\ \A n \in Slots : Lock(t, n) => lock' \in [Slots -> Threads \cup {NoThread}]
  BY <1>3 DEF Unlock, Lock
<1>10. \A n \in Slots : refs' = [refs EXCEPT ![n] = @ + 1] => refs' \in [Slots -> Nat]
  BY <1>3
<1>11. \A f \in Fs : fsrefs' = [fsrefs EXCEPT ![f] = @ + 1] => fsrefs' \in [Fs -> Nat]
  BY <1>4
<1>12. pc[t] # "idle" => cur(t) \in Slots /\ call[t].fs \in Fs
  BY CallFacts DEF InCall
<1>13. NoCall \in Calls /\ \A op \in Ops : \A f \in Fs \cup {"none"} : \A n, m \in Slots \cup {NoSlot} :
         \A r \in Seq(STRING) : \A x \in STRING \cup {""} : Call(op, f, n, m, r, x) \in Calls
  BY CallTypes
<1>14. /\ call[t].op \in Ops /\ call[t].fs \in Fs \cup {"none"}
       /\ call[t].cur \in Slots \cup {NoSlot} /\ call[t].nxt \in Slots \cup {NoSlot}
       /\ call[t].rest \in Seq(STRING) /\ call[t].last \in STRING \cup {""}
       /\ call[t] \in Calls
  BY <1>1, ThreadTypes
<1>15. \A c \in Calls : \A n \in Slots : [c EXCEPT !.nxt = n] \in Calls
  BY DEF Calls
<1> HIDE DEF Nodes1, Files1, Disk1, Calls1, Seen1
<1>21. ASSUME NEW op \in Ops, NEW f \in Fs, NEW p \in Seq(STRING), Begin(t, op, f, p)
       PROVE  Nodes1 /\ Files1 /\ Disk1 /\ Calls1 /\ Seen1
  <2>1. f \in owned /\ fsrefs[f] >= 1
    BY <1>1, <1>21, Positive DEF Begin, IInv
  <2>2. fsroot[f] \in Slots
    BY <1>3, <2>1, RootFacts
  <2>3. Nodes1
    BY <1>3, <1>10, <1>21, <2>2 DEF Begin, Nodes1
  <2>4. p \in Seq(STRING) /\ "" \in STRING \cup {""} /\ NoSlot \in Slots \cup {NoSlot}
    BY VfsAssumption
  <2>5. p # <<>> => Front(p) \in Seq(STRING) /\ p[Len(p)] \in STRING
    BY <2>4, FrontFacts
  <2>6. call' \in [Threads -> Calls]
    <3>1. CASE op \in {"create", "delete"}
      <4>1. PICK r \in Seq(STRING) : r = Front(p)
        BY <1>21, <2>5, <3>1 DEF Begin
      <4>2. PICK x \in STRING \cup {""} : x = p[Len(p)]
        BY <1>21, <2>5, <3>1 DEF Begin
      <4>3. call' = [call EXCEPT ![t] = Call(op, f, fsroot[f], NoSlot, r, x)]
        BY <1>21, <3>1, <4>1, <4>2 DEF Begin
      <4>4. Call(op, f, fsroot[f], NoSlot, r, x) \in Calls
        BY <1>13, <2>2, <2>4
      <4> QED
        BY <1>8, <4>3, <4>4
    <3>2. CASE op \notin {"create", "delete"}
      <4>1. call' = [call EXCEPT ![t] = Call(op, f, fsroot[f], NoSlot, p, "")]
        BY <1>21, <3>2 DEF Begin
      <4>2. Call(op, f, fsroot[f], NoSlot, p, "") \in Calls
        BY <1>13, <2>2, <2>4
      <4> QED
        BY <1>8, <4>1, <4>2
    <3> QED
      BY <3>1, <3>2
  <2>7. pc' \in [Threads -> PCs]
    BY <1>7, <1>21 DEF Begin, PCs
  <2>8. Calls1
    BY <1>5, <1>21, <2>6, <2>7 DEF Begin, Calls1
  <2> QED
    BY <1>2, <1>21, <2>3, <2>8 DEF Begin
<1>22. ASSUME Look(t) PROVE Nodes1 /\ Files1 /\ Disk1 /\ Calls1 /\ Seen1
  <2>1. cur(t) \in Slots
    BY <1>12, <1>22 DEF Look, At
  <2>2. Nodes1
    BY <1>3, <1>9, <1>22, <2>1 DEF Look, Nodes1
  <2>3. call' \in [Threads -> Calls] /\ pc' \in [Threads -> PCs]
    <3>1. CASE UNCHANGED call /\ Goto(t, "miss")
      BY <1>5, <1>7, <3>1 DEF PCs
    <3>2. CASE \E s \in Child(cur(t), Head(call[t].rest)) :
                 Goto(t, "found") /\ call' = [call EXCEPT ![t].nxt = s]
      <4>1. PICK s \in Slots : Goto(t, "found") /\ call' = [call EXCEPT ![t].nxt = s]
        BY <3>2 DEF Child
      <4>2. [call[t] EXCEPT !.nxt = s] \in Calls
        BY <1>14, <1>15
      <4> QED
        BY <1>5, <1>7, <4>1, <4>2 DEF PCs
    <3> QED
      BY <1>22, <3>1, <3>2 DEF Look
  <2>4. Calls1
    BY <1>5, <1>22, <2>3 DEF Look, Calls1
  <2> QED
    BY <1>2, <1>22, <2>2, <2>4 DEF Look
<1>23. ASSUME Found(t) PROVE Nodes1 /\ Files1 /\ Disk1 /\ Calls1 /\ Seen1
  <2>1. /\ cur(t) \in Slots /\ call[t].nxt \in Slots /\ call[t].rest # <<>>
    BY <1>12, <1>23, NextFacts DEF Found, At
  <2>2. Nodes1
    BY <1>3, <1>9, <1>10, <1>23, <2>1 DEF Found, Nodes1
  <2>3. Calls1
    BY <1>1, <1>23, <2>1, ReturnTypes DEF Found, Calls1
  <2> QED
    BY <1>2, <1>23, <2>2, <2>3 DEF Found
<1>24. ASSUME Load(t) PROVE Nodes1 /\ Files1 /\ Disk1 /\ Calls1 /\ Seen1
  <2> DEFINE n == cur(t)
             x == Head(call[t].rest)
  <2>1. n \in Slots /\ call[t].rest # <<>>
    BY <1>12, <1>24 DEF Load, At, IInv, CallsInStep, CallInStep
  <2>2. x \in STRING
    BY <1>14, <2>1, HeadTailProperties
  <2>3. Item(n, x) \in Paths
    BY <1>1, <1>24 DEF Load, nullfs_d_walk, TypeOK
  <2>4. PICK s \in Slots \ live :
       /\ live' = live \cup {s}
       /\ refs' = [refs EXCEPT ![s] = 1]
       /\ lock' = [m \in Slots |-> IF m \in {s, n} THEN NoThread ELSE lock[m]]
       /\ parent' = [parent EXCEPT ![s] = n]
       /\ at' = [at EXCEPT ![s] = Item(n, x)]
       /\ kids' = [m \in Slots |-> IF m = s THEN {}
                                  ELSE IF m = n THEN kids[m] \cup {<<x, s>>} ELSE kids[m]]
       /\ call' = [call EXCEPT ![t].nxt = s]
       /\ seen' = [u \in Threads |-> IF Deleting(u) THEN seen[u] \cup {s} ELSE {}]
    BY <1>24 DEF Load
  <2> HIDE DEF n, x
  <2>5. Nodes1
    <3>1. live' \subseteq Slots /\ refs' \in [Slots -> Nat] /\ parent' \in [Slots -> Slots \cup {NoSlot}]
      BY <1>3, <2>1, <2>4
    <3>2. lock' \in [Slots -> Threads \cup {NoThread}]
      BY <1>3, <2>4
    <3>3. at' \in [Slots -> Paths \cup {<<>>}]
      BY <1>3, <2>3, <2>4
    <3>4. kids' \in [Slots -> SUBSET (STRING \X Slots)]
      BY <1>3, <2>2, <2>4
    <3> QED
      BY <3>1, <3>2, <3>3, <3>4 DEF Nodes1
  <2>6. call' \in [Threads -> Calls]
    <3>1. [call[t] EXCEPT !.nxt = s] \in Calls
      BY <1>14, <1>15
    <3> QED
      BY <1>5, <2>4, <3>1
  <2>7. Calls1
    BY <1>5, <1>7, <1>24, <2>6 DEF Load, Calls1, PCs
  <2>8. Seen1
    BY <1>6, <1>24, <2>4 DEF Load, Seen1
  <2> QED
    BY <1>2, <1>24, <2>5, <2>7, <2>8 DEF Load
<1>25. ASSUME NewParent(t) PROVE Nodes1 /\ Files1 /\ Disk1 /\ Calls1 /\ Seen1
  <2>1. cur(t) \in Slots
    BY <1>12, <1>25 DEF NewParent, At
  <2>2. Nodes1
    BY <1>3, <1>10, <1>25, <2>1 DEF NewParent, Nodes1
  <2>3. Calls1
    BY <1>5, <1>7, <1>25 DEF NewParent, Calls1, PCs
  <2> QED
    BY <1>2, <1>25, <2>2, <2>3 DEF NewParent
<1>26. ASSUME NewFs(t) PROVE Nodes1 /\ Files1 /\ Disk1 /\ Calls1 /\ Seen1
  <2>1. /\ cur(t) \in Slots /\ call[t].rest # <<>> /\ "main" \in Fs
    BY <1>12, <1>26, NextFacts DEF NewFs, At, Fs
  <2>2. Files1
    BY <1>4, <1>11, <1>26, <2>1 DEF NewFs, Files1
  <2>3. Calls1
    BY <1>1, <1>26, <2>1, ReturnTypes DEF NewFs, Calls1
  <2> QED
    BY <1>2, <1>26, <2>2, <2>3 DEF NewFs
<1>27. ASSUME Back(t) PROVE Nodes1 /\ Files1 /\ Disk1 /\ Calls1 /\ Seen1
  <2>1. cur(t) \in Slots
    BY <1>12, <1>27 DEF Back
  <2>2. Nodes1
    BY <1>3, <1>9, <1>27, <2>1 DEF Back, Nodes1
  <2>3. Calls1
    BY <1>1, <1>27, <2>1, ReturnTypes DEF Back, Calls1
  <2>4. Seen1 /\ Disk1
    BY <1>6, <1>27 DEF Back, Seen1, Disk1, DriverOk
  <2> QED
    BY <1>2, <1>27, <2>2, <2>3, <2>4 DEF Back
<1>28. ASSUME Forget(t) PROVE Nodes1 /\ Files1 /\ Disk1 /\ Calls1 /\ Seen1
  <2>1. cur(t) \in Slots
    BY <1>12, <1>28 DEF Forget, At
  <2>2. Calls1
    BY <1>5, <1>7, <1>8, <1>13, <1>28 DEF Forget, Calls1, PCs
  <2>3. leaked[cur(t)] < MaxLeaks /\ leaked' = [leaked EXCEPT ![cur(t)] = @ + 1]
    BY <1>28 DEF Forget, Lose
  <2>4. leaked[cur(t)] + 1 \in 0 .. MaxLeaks
    BY <1>6, <2>1, <2>3, VfsAssumption
  <2>5. Seen1
    BY <1>6, <1>28, <2>3, <2>4 DEF Forget, Seen1
  <2> QED
    BY <1>2, <1>28, <2>2, <2>5 DEF Forget
<1>29. ASSUME DeleteLooked(t) PROVE Nodes1 /\ Files1 /\ Disk1 /\ Calls1 /\ Seen1
  <2>1. Calls1
    BY <1>5, <1>7, <1>29 DEF DeleteLooked, Calls1, PCs
  <2>2. Seen1
    BY <1>6, <1>29 DEF DeleteLooked, Seen1
  <2> QED
    BY <1>2, <1>29, <2>1, <2>2 DEF DeleteLooked
<1>30. ASSUME LockNode(t) PROVE Nodes1 /\ Files1 /\ Disk1 /\ Calls1 /\ Seen1
  <2>1. cur(t) \in Slots
    BY <1>12, <1>30 DEF LockNode, Arrived, At
  <2>2. Nodes1
    BY <1>3, <1>9, <1>30, <2>1 DEF LockNode, Nodes1
  <2>3. Calls1
    BY <1>5, <1>7, <1>30 DEF LockNode, Calls1, PCs
  <2> QED
    BY <1>2, <1>30, <2>2, <2>3 DEF LockNode
<1>31. ASSUME OpenOk(t) PROVE Nodes1 /\ Files1 /\ Disk1 /\ Calls1 /\ Seen1
  <2>1. cur(t) \in Slots
    BY <1>12, <1>31 DEF OpenOk, Driver, At
  <2>2. Nodes1
    BY <1>3, <1>9, <1>31, <2>1 DEF OpenOk, Nodes1
  <2>3. Calls1
    BY <1>5, <1>7, <1>31 DEF OpenOk, Calls1, PCs
  <2> QED
    BY <1>2, <1>31, <2>2, <2>3 DEF OpenOk
<1>32. ASSUME fs_open(t) PROVE Nodes1 /\ Files1 /\ Disk1 /\ Calls1 /\ Seen1
  <2>1. cur(t) \in Slots /\ call[t].fs \in Fs
    BY <1>12, <1>32 DEF fs_open, At
  <2>2. handles' \in [Threads -> SUBSET (Fs \X Slots)]
    BY <1>4, <1>32, <2>1 DEF fs_open
  <2>3. Files1
    BY <1>4, <1>11, <1>32, <2>1, <2>2 DEF fs_open, Files1
  <2>4. Calls1
    BY <1>5, <1>7, <1>8, <1>13, <1>32 DEF fs_open, Calls1, PCs
  <2> QED
    BY <1>2, <1>32, <2>3, <2>4 DEF fs_open
<1>33. ASSUME fs_subfs(t) PROVE Nodes1 /\ Files1 /\ Disk1 /\ Calls1 /\ Seen1
  <2>1. cur(t) \in Slots /\ "sub" \in Fs
    BY <1>12, <1>33 DEF fs_subfs, Arrived, At, Fs
  <2>2. Files1
    BY <1>4, <1>33, <2>1 DEF fs_subfs, Files1
  <2>3. Calls1
    BY <1>5, <1>7, <1>8, <1>13, <1>33 DEF fs_subfs, Calls1, PCs
  <2> QED
    BY <1>2, <1>33, <2>2, <2>3 DEF fs_subfs
<1>34. ASSUME NEW u \in Threads, NEW h \in handles[u], unref_file(t, u, h)
       PROVE  Nodes1 /\ Files1 /\ Disk1 /\ Calls1 /\ Seen1
  <2>1. h \in Fs \X Slots
    BY <1>4
  <2>2. node(h[2]) \in Items /\ fsys(h[1]) \in Items
    BY <2>1, ItemFacts
  <2>3. todo' \in [Threads -> Seq(Items)]
    BY <1>1, <1>34, <2>2, StackTypes DEF unref_file
  <2>4. Calls1
    BY <1>5, <1>8, <1>13, <1>34, <2>3 DEF unref_file, Calls1
  <2>5. Files1
    BY <1>4, <1>34 DEF unref_file, Files1
  <2> QED
    BY <1>2, <1>34, <2>4, <2>5 DEF unref_file
<1>35. ASSUME NEW f \in Fs, rm_fs(t, f) PROVE Nodes1 /\ Files1 /\ Disk1 /\ Calls1 /\ Seen1
  <2>1. fsys(f) \in Items
    BY ItemFacts
  <2>2. todo' \in [Threads -> Seq(Items)]
    BY <1>1, <1>35, <2>1, StackTypes DEF rm_fs
  <2>3. Calls1
    BY <1>5, <1>8, <1>13, <1>35, <2>2 DEF rm_fs, Calls1
  <2>4. Files1
    BY <1>4, <1>35 DEF rm_fs, Files1
  <2> QED
    BY <1>2, <1>35, <2>3, <2>4 DEF rm_fs
<1> DEFINE i == Head(todo[t])
<1>36. ASSUME todo[t] # <<>>
       PROVE  /\ Instead(t, <<>>) => todo' \in [Threads -> Seq(Items)]
              /\ \A a \in Items : Instead(t, <<a>>) => todo' \in [Threads -> Seq(Items)]
              /\ \A a, b, c \in Items : Instead(t, <<a, b, c>>) => todo' \in [Threads -> Seq(Items)]
  BY <1>1, <1>36, StackTypes
<1>37. ASSUME UnrefNode(t) PROVE Nodes1 /\ Files1 /\ Disk1 /\ Calls1 /\ Seen1
  <2>1. i.n \in Slots /\ todo[t] # <<>> /\ refs[i.n] \in Nat \ {0}
    BY <1>37, HeadItem DEF UnrefNode, Doing
  <2>2. Nodes1
    BY <1>3, <1>37, <2>1 DEF UnrefNode, Nodes1
  <2>3. Calls1
    BY <1>5, <1>36, <1>37, <2>1 DEF UnrefNode, Calls1
  <2> QED
    BY <1>2, <1>37, <2>2, <2>3 DEF UnrefNode
<1>38. ASSUME LastRef(t) PROVE Nodes1 /\ Files1 /\ Disk1 /\ Calls1 /\ Seen1
  <2>1. i.n \in Slots /\ todo[t] # <<>> /\ refs[i.n] \in Nat \ {0}
    BY <1>38, HeadItem DEF LastRef, Doing
  <2>2. Nodes1
    BY <1>3, <1>9, <1>38, <2>1 DEF LastRef, Nodes1
  <2>3. par(i.n) \in Items
    BY <2>1, ItemFacts
  <2>4. Calls1
    BY <1>5, <1>36, <1>38, <2>1, <2>3 DEF LastRef, Calls1
  <2> QED
    BY <1>2, <1>38, <2>2, <2>4 DEF LastRef
<1>39. ASSUME Unlink(t) PROVE Nodes1 /\ Files1 /\ Disk1 /\ Calls1 /\ Seen1
  <2>1. i.n \in Slots /\ todo[t] # <<>> /\ parent[i.n] \in Slots
    BY <1>39, HeadItem DEF Unlink, Doing
  <2>2. Nodes1
    BY <1>3, <1>39, <2>1 DEF Unlink, Nodes1
  <2>3. node(parent[i.n]) \in Items /\ fsys("main") \in Items /\ free(i.n) \in Items
    BY <2>1, ItemFacts DEF Fs
  <2>4. Calls1
    BY <1>5, <1>36, <1>39, <2>1, <2>3 DEF Unlink, Calls1
  <2>5. ItemShown(i.n)
    BY <1>39 DEF Unlink
  <2>6. Disk1
    BY <2>5, ShownInDriver DEF Disk1, DriverOk
  <2> QED
    BY <1>2, <1>39, <2>2, <2>4, <2>6 DEF Unlink
<1>40. ASSUME FreeNode(t) PROVE Nodes1 /\ Files1 /\ Disk1 /\ Calls1 /\ Seen1
  <2>1. i.n \in Slots /\ todo[t] # <<>>
    BY <1>40, HeadItem DEF FreeNode, Doing
  <2>2. Nodes1
    BY <1>3, <1>9, <1>40, <2>1 DEF FreeNode, Nodes1
  <2>3. Calls1
    BY <1>5, <1>36, <1>40, <2>1 DEF FreeNode, Calls1
  <2> QED
    BY <1>2, <1>40, <2>2, <2>3 DEF FreeNode
<1>41. ASSUME unref_fs(t) PROVE Nodes1 /\ Files1 /\ Disk1 /\ Calls1 /\ Seen1
  <2>1. i.fs \in Fs /\ todo[t] # <<>> /\ fsrefs[i.fs] \in Nat \ {0}
    BY <1>41, HeadItem DEF unref_fs, Doing
  <2>2. fsroot[i.fs] \in Slots
    BY <1>3, <2>1, RootFacts
  <2>3. live' \subseteq Slots
    BY <1>3, <1>41 DEF unref_fs
  <2>4. Nodes1
    BY <1>3, <1>41, <2>3 DEF unref_fs, Nodes1
  <2>5. fsroot' \in [Fs -> Slots \cup {NoSlot}]
    BY <1>4, <1>41, <2>1 DEF unref_fs
  <2>6. fsrefs' \in [Fs -> Nat]
    BY <1>4, <1>41, <2>1 DEF unref_fs
  <2>7. Files1
    BY <1>4, <1>41, <2>5, <2>6 DEF unref_fs, Files1
  <2>8. node(fsroot[i.fs]) \in Items
    BY <2>2, ItemFacts
  <2>9. todo' \in [Threads -> Seq(Items)]
    <3>1. Instead(t, <<node(fsroot[i.fs])>>) \/ Instead(t, <<>>)
      BY <1>41 DEF unref_fs
    <3> QED
      BY <1>36, <2>1, <2>8, <3>1
  <2>10. Calls1
    BY <1>5, <1>41, <2>9 DEF unref_fs, Calls1
  <2> QED
    BY <1>2, <1>41, <2>4, <2>7, <2>10 DEF unref_fs
<1> QED
  BY <1>21, <1>22, <1>23, <1>24, <1>25, <1>26, <1>27, <1>28, <1>29, <1>30, <1>31, <1>32,
     <1>33, <1>34, <1>35, <1>37, <1>38, <1>39, <1>40, <1>41 DEF Acts
-----------------------------------------------------------------------------
(***************************************************************************)
(* What a step does to the stacks.                                         *)
(***************************************************************************)

\* Where the items of a stack are once its first one has been replaced.
LEMMA InsteadAt ==
  ASSUME TypeOK, NEW t \in Threads, todo[t] # <<>>, NEW s \in Seq(Items), Instead(t, s)
  PROVE  /\ Len(s) \in Nat
         /\ \A j \in DOMAIN todo'[t] :
              \/ j \in 1 .. Len(s) /\ todo'[t][j] = s[j]
              \/ /\ j > Len(s) /\ j - Len(s) + 1 > 1 /\ j - Len(s) + 1 \in DOMAIN todo[t]
                 /\ todo'[t][j] = todo[t][j - Len(s) + 1]
         /\ \A j \in 1 .. Len(s) : j \in DOMAIN todo'[t] /\ todo'[t][j] = s[j]
         /\ \A i \in DOMAIN todo[t] : i > 1 =>
              i + Len(s) - 1 \in DOMAIN todo'[t] /\ todo'[t][i + Len(s) - 1] = todo[t][i]
         /\ \A j \in DOMAIN todo'[t] : j \in Nat
         /\ \A j \in DOMAIN todo[t] : j \in Nat
<1>1. todo[t] \in Seq(Items) /\ todo \in [Threads -> Seq(Items)]
  BY DEF TypeOK
<1>2. PICK r \in Seq(Items) : r = Tail(todo[t])
  BY <1>1, HeadAndTail
<1>3. todo'[t] = s \o r
  BY <1>1, <1>2 DEF Instead
<1>4. /\ s \o r \in Seq(Items) /\ Len(s \o r) = Len(s) + Len(r)
      /\ \A j \in 1 .. Len(s) + Len(r) : (s \o r)[j] = IF j <= Len(s) THEN s[j] ELSE r[j - Len(s)]
  BY ConcatProperties
<1>5. /\ Len(todo[t]) \in Nat \ {0} /\ DOMAIN todo[t] = 1 .. Len(todo[t])
      /\ Len(r) = Len(todo[t]) - 1
      /\ \A k \in 1 .. (Len(todo[t]) - 1) : r[k] = todo[t][k + 1]
  BY <1>1, <1>2, HeadAndTail
<1>6. PICK N \in Nat \ {0} : N = Len(todo[t])
  BY <1>5
<1>7. PICK L \in Nat : L = Len(s)
  OBVIOUS
<1>8. PICK q : q = todo'[t]
  OBVIOUS
<1>9. /\ DOMAIN q = 1 .. (L + (N - 1))
      /\ \A j \in 1 .. (L + (N - 1)) : q[j] = IF j <= L THEN s[j] ELSE r[j - L]
  <2>1. Len(r) = N - 1
    BY <1>5, <1>6
  <2>2. q = s \o r
    BY <1>3, <1>8
  <2>3. q \in Seq(Items) /\ Len(q) = L + (N - 1)
    BY <1>4, <1>7, <2>1, <2>2
  <2>4. DOMAIN q = 1 .. Len(q)
    BY <2>3
  <2>5. \A j \in 1 .. (L + (N - 1)) : q[j] = IF j <= L THEN s[j] ELSE r[j - L]
    BY <1>4, <1>7, <2>1, <2>2
  <2> QED
    BY <2>3, <2>4, <2>5
<1>10. \A k \in 1 .. (N - 1) : r[k] = todo[t][k + 1]
  BY <1>5, <1>6
<1>11. ASSUME NEW j \in DOMAIN q
       PROVE  \/ j \in 1 .. L /\ q[j] = s[j]
              \/ /\ j > L /\ j - L + 1 > 1 /\ j - L + 1 \in DOMAIN todo[t]
                 /\ q[j] = todo[t][j - L + 1]
  <2>1. j \in Nat /\ 1 <= j /\ j <= L + (N - 1)
    BY <1>9
  <2>2. CASE j <= L
    BY <1>9, <2>1, <2>2
  <2>3. CASE j > L
    <3>1. j - L \in 1 .. (N - 1) /\ (j - L) + 1 \in 1 .. N /\ ~ (j <= L)
      BY <2>1, <2>3
    <3>2. q[j] = r[j - L]
      BY <1>9, <2>1, <3>1
    <3>3. r[j - L] = todo[t][(j - L) + 1]
      BY <1>10, <3>1
    <3> QED
      BY <1>5, <1>6, <2>1, <2>3, <3>1, <3>2, <3>3
  <2> QED
    BY <2>1, <2>2, <2>3
<1>12. ASSUME NEW j \in 1 .. L PROVE j \in DOMAIN q /\ q[j] = s[j]
  <2>1. j \in 1 .. (L + (N - 1)) /\ j <= L
    OBVIOUS
  <2> QED
    BY <1>9, <2>1
<1>13. ASSUME NEW i \in DOMAIN todo[t], i > 1
       PROVE  i + L - 1 \in DOMAIN q /\ q[i + L - 1] = todo[t][i]
  <2>1. i \in Nat /\ i <= N
    BY <1>5, <1>6
  <2>2. /\ i + L - 1 \in 1 .. (L + (N - 1)) /\ ~ (i + L - 1 <= L) /\ (i + L - 1) - L = i - 1
        /\ i - 1 \in 1 .. (N - 1) /\ (i - 1) + 1 = i
    BY <1>13, <2>1
  <2>3. q[i + L - 1] = r[i - 1]
    BY <1>9, <2>2
  <2>4. r[i - 1] = todo[t][i]
    BY <1>10, <2>2
  <2> QED
    BY <1>9, <2>2, <2>3, <2>4
<1>14. /\ \A j \in DOMAIN q : j \in Nat
       /\ \A j \in DOMAIN todo[t] : j \in Nat
  BY <1>5, <1>9
<1> QED
  BY <1>7, <1>8, <1>11, <1>12, <1>13, <1>14

\* The stacks that steps begin with, and those that stand for a first item.
Begun(s) ==
  \/ \E n \in Slots : s = <<node(n)>>
  \/ \E n \in Slots, f \in Fs : s = <<node(n), fsys(f)>>
  \/ \E f \in Fs : s = <<fsys(f)>>

\* What each step does to the stack of t.
LEMMA StackMoves ==
  ASSUME IInv, NEW t \in Threads, Acts(t)
  PROVE  \/ todo' = todo
         \/ todo[t] = <<>> /\ \E s \in Seq(Items) : Begun(s) /\ todo' = [todo EXCEPT ![t] = s]
         \/ /\ todo[t] # <<>>
            /\ \/ UnrefNode(t) \/ LastRef(t) \/ Unlink(t) \/ FreeNode(t) \/ unref_fs(t)
<1>1. ASSUME \E op \in Ops, f \in Fs, p \in Seq(STRING) : Begin(t, op, f, p) PROVE todo' = todo
  BY <1>1 DEF Begin
<1>2. ASSUME Look(t) \/ Load(t) \/ NewParent(t) \/ Forget(t) \/ DeleteLooked(t) \/ LockNode(t)
             \/ OpenOk(t) \/ fs_open(t) \/ fs_subfs(t)
      PROVE  todo' = todo
  BY <1>2 DEF Look, Load, NewParent, Forget, DeleteLooked, LockNode, OpenOk, fs_open, fs_subfs
<1>3. ASSUME Found(t) \/ NewFs(t) \/ Back(t)
      PROVE  todo[t] = <<>> /\ \E s \in Seq(Items) : Begun(s) /\ todo' = [todo EXCEPT ![t] = s]
  <2>1. todo[t] = <<>> /\ InCall(t)
    BY <1>3 DEF Found, NewFs, Back, At, InCall
  <2>2. cur(t) \in Slots
    BY <2>1, CallFacts
  <2>3. PICK n \in Slots : n = cur(t)
    BY <2>2
  <2>4. <<node(n)>> \in Seq(Items)
    BY ItemFacts, Tuples
  <2>5. todo' = [todo EXCEPT ![t] = <<node(n)>>]
    BY <1>3, <2>3 DEF Found, NewFs, Back, Step, Return
  <2> QED
    BY <2>1, <2>4, <2>5 DEF Begun
<1>4. ASSUME NEW u \in Threads, NEW h \in handles[u], unref_file(t, u, h)
      PROVE  todo[t] = <<>> /\ \E s \in Seq(Items) : Begun(s) /\ todo' = [todo EXCEPT ![t] = s]
  <2>1. h[1] \in Fs /\ h[2] \in Slots
    BY DEF IInv, TypeOK
  <2>2. PICK f \in Fs : f = h[1]
    BY <2>1
  <2>3. PICK n \in Slots : n = h[2]
    BY <2>1
  <2>4. <<node(n), fsys(f)>> \in Seq(Items)
    BY ItemFacts, Tuples
  <2> QED
    BY <1>4, <2>2, <2>3, <2>4 DEF unref_file, At, Begun
<1>5. ASSUME NEW f \in Fs, rm_fs(t, f)
      PROVE  todo[t] = <<>> /\ \E s \in Seq(Items) : Begun(s) /\ todo' = [todo EXCEPT ![t] = s]
  <2>1. <<fsys(f)>> \in Seq(Items)
    BY ItemFacts, Tuples
  <2> QED
    BY <1>5, <2>1 DEF rm_fs, At, Begun
<1> QED
  BY <1>1, <1>2, <1>3, <1>4, <1>5 DEF Acts, UnrefNode, LastRef, Unlink, FreeNode, unref_fs, Doing

\* The items of t when the first has been replaced.
LEMMA InsteadHas ==
  ASSUME TypeOK, NEW t \in Threads, todo[t] # <<>>, NEW s \in Seq(Items), Instead(t, s), NEW X
  PROVE  (\E j \in DOMAIN todo'[t] : todo'[t][j] \in X)
           <=> \/ \E j \in 1 .. Len(s) : s[j] \in X
               \/ \E i \in DOMAIN todo[t] : i > 1 /\ todo[t][i] \in X
<1>1. ASSUME NEW j \in DOMAIN todo'[t], todo'[t][j] \in X
      PROVE  \/ \E k \in 1 .. Len(s) : s[k] \in X
             \/ \E i \in DOMAIN todo[t] : i > 1 /\ todo[t][i] \in X
  BY <1>1, InsteadAt
<1>2. ASSUME NEW j \in 1 .. Len(s), s[j] \in X
      PROVE  \E k \in DOMAIN todo'[t] : todo'[t][k] \in X
  BY <1>2, InsteadAt
<1>3. ASSUME NEW i \in DOMAIN todo[t], i > 1, todo[t][i] \in X
      PROVE  \E k \in DOMAIN todo'[t] : todo'[t][k] \in X
  BY <1>3, InsteadAt
<1> QED
  BY <1>1, <1>2, <1>3

\* The same from the point of view of the first item.
LEMMA HeadHas ==
  ASSUME TypeOK, NEW t \in Threads, todo[t] # <<>>, NEW X
  PROVE  (\E i \in DOMAIN todo[t] : todo[t][i] \in X)
           <=> \/ Head(todo[t]) \in X
               \/ \E i \in DOMAIN todo[t] : i > 1 /\ todo[t][i] \in X
<1>1. todo[t] \in Seq(Items)
  BY DEF TypeOK
<1>2. Head(todo[t]) = todo[t][1] /\ 1 \in DOMAIN todo[t] /\ DOMAIN todo[t] = 1 .. Len(todo[t])
      /\ Len(todo[t]) \in Nat
  BY <1>1, HeadAndTail
<1>3. \A i \in DOMAIN todo[t] : i > 1 \/ i = 1
  BY <1>2
<1> QED
  BY <1>2, <1>3

\* What the steps that replace the first item of t put in its place.
LEMMA Replacing ==
  ASSUME IInv, NEW t \in Threads, todo[t] # <<>>
  PROVE  LET x == Head(todo[t]) IN
         /\ UnrefNode(t) \/ FreeNode(t) => Instead(t, <<>>)
         /\ LastRef(t) => x.n \in Slots /\ Instead(t, <<par(x.n)>>)
         /\ Unlink(t) => \E p \in Slots : /\ p = parent[x.n] /\ x.n \in Slots
                                          /\ Instead(t, <<node(p), fsys("main"), free(x.n)>>)
         /\ unref_fs(t) => \/ Instead(t, <<>>)
                           \/ \E r \in Slots : /\ x = fsys("sub") /\ fsrefs["sub"] = 1 /\ r = fsroot["sub"]
                                               /\ Instead(t, <<node(r)>>)
         /\ UnrefNode(t) \/ LastRef(t) => x = node(x.n)
         /\ Unlink(t) => x = par(x.n)
         /\ FreeNode(t) => x = free(x.n)
         /\ unref_fs(t) => x = fsys(x.fs)
<1>1. unref_fs(t) => \/ Instead(t, <<>>)
                     \/ \E r \in Slots : /\ Head(todo[t]) = fsys("sub") /\ fsrefs["sub"] = 1
                                         /\ r = fsroot["sub"]
                                         /\ Instead(t, <<node(r)>>)
  <2> SUFFICES ASSUME unref_fs(t), ~ Instead(t, <<>>)
               PROVE  \E r \in Slots : /\ Head(todo[t]) = fsys("sub") /\ fsrefs["sub"] = 1
                                       /\ r = fsroot["sub"]
                                       /\ Instead(t, <<node(r)>>)
    OBVIOUS
  <2> DEFINE f == Head(todo[t]).fs
  <2>1. /\ f = "sub" /\ fsrefs[f] = 1
        /\ Instead(t, <<node(fsroot[f])>>)
    BY DEF unref_fs
  <2>2. Head(todo[t]) = fsys(f) /\ f \in Fs
    BY HeadItem DEF unref_fs, Doing
  <2>3. fsroot["sub"] \in Slots
    <3>1. "sub" \in Fs /\ fsrefs["sub"] >= 1
      BY <2>1, <2>2
    <3> QED
      BY <3>1, RootFacts DEF IInv, TypeOK
  <2> QED
    BY <2>1, <2>2, <2>3
<1>2. Unlink(t) => \E p \in Slots : /\ p = parent[Head(todo[t]).n] /\ Head(todo[t]).n \in Slots
                                    /\ Instead(t, <<node(p), fsys("main"), free(Head(todo[t]).n)>>)
  BY HeadItem DEF Unlink, Doing
<1>3. LastRef(t) => Head(todo[t]).n \in Slots /\ Instead(t, <<par(Head(todo[t]).n)>>)
  BY HeadItem DEF LastRef, Doing
<1>4. UnrefNode(t) \/ FreeNode(t) => Instead(t, <<>>)
  BY DEF UnrefNode, FreeNode
<1>5. /\ UnrefNode(t) \/ LastRef(t) => Head(todo[t]) = node(Head(todo[t]).n)
      /\ Unlink(t) => Head(todo[t]) = par(Head(todo[t]).n)
      /\ FreeNode(t) => Head(todo[t]) = free(Head(todo[t]).n)
      /\ unref_fs(t) => Head(todo[t]) = fsys(Head(todo[t]).fs)
  BY HeadItem DEF UnrefNode, LastRef, Unlink, FreeNode, unref_fs, Doing
<1> QED
  BY <1>1, <1>2, <1>3, <1>4, <1>5

\* The nodes that a thread removes, and those that have left their table.
LEMMA RemovesMoves ==
  ASSUME IInv, NEW t \in Threads, Acts(t), NEW m
  PROVE  /\ LastRef(t) => (Removes(t, m)' <=> Removes(t, m) \/ m = Head(todo[t]).n)
         /\ FreeNode(t) => (Removes(t, m)' <=> Removes(t, m) /\ m # Head(todo[t]).n)
         /\ ~ LastRef(t) /\ ~ FreeNode(t) => (Removes(t, m)' <=> Removes(t, m))
         /\ \A u \in Threads : u # t => (Removes(u, m)' <=> Removes(u, m))
         /\ Unlink(t) => (Unlinked(m)' <=> Unlinked(m) \/ m = Head(todo[t]).n)
         /\ FreeNode(t) => (Unlinked(m)' <=> Unlinked(m) /\ m # Head(todo[t]).n)
         /\ ~ Unlink(t) /\ ~ FreeNode(t) => (Unlinked(m)' <=> Unlinked(m))
<1>0. TypeOK
  BY DEF IInv
<1> DEFINE R == \E i \in DOMAIN todo[t] : todo[t][i] \in Removed(m)
           R1 == \E i \in DOMAIN todo'[t] : todo'[t][i] \in Removed(m)
           F == \E i \in DOMAIN todo[t] : todo[t][i] \in {free(m)}
           F1 == \E i \in DOMAIN todo'[t] : todo'[t][i] \in {free(m)}
           O == \E u \in Threads \ {t} : \E i \in DOMAIN todo[u] : todo[u][i] = free(m)
           RT == \E i \in DOMAIN todo[t] : i > 1 /\ todo[t][i] \in Removed(m)
           FT == \E i \in DOMAIN todo[t] : i > 1 /\ todo[t][i] \in {free(m)}
<1>1. (R <=> Removes(t, m)) /\ (R1 <=> Removes(t, m)')
  BY DEF Removes, Removed, par, free
<1>2. \A u \in Threads : u # t => todo'[u] = todo[u]
  BY <1>0, OthersUnmoved
<1>3. \A u \in Threads : u # t => (Removes(u, m)' <=> Removes(u, m))
  BY <1>2 DEF Removes, Removed, par, free
<1>4. (Unlinked(m) <=> F \/ O) /\ (Unlinked(m)' <=> F1 \/ O)
  <2>1. Unlinked(m) <=> \E u \in Threads : \E i \in DOMAIN todo[u] : todo[u][i] = free(m)
    BY DEF Unlinked, Range
  <2>2. Unlinked(m)' <=> \E u \in Threads : \E i \in DOMAIN todo'[u] : todo'[u][i] = free(m)
    BY DEF Unlinked, Range, free
  <2>3. (\E u \in Threads : \E i \in DOMAIN todo'[u] : todo'[u][i] = free(m)) <=> F1 \/ O
    BY <1>2
  <2> QED
    BY <2>1, <2>2, <2>3
<1>5. todo[t] # <<>> => (R <=> Head(todo[t]) \in Removed(m) \/ RT)
  BY <1>0, HeadHas
<1>6. todo[t] # <<>> => (F <=> Head(todo[t]) = free(m) \/ FT)
  <2>1. todo[t] # <<>> => (F <=> Head(todo[t]) \in {free(m)} \/ FT)
    BY <1>0, HeadHas
  <2> QED
    BY <2>1
<1>7. ASSUME todo[t] # <<>>, Instead(t, <<>>) PROVE (R1 <=> RT) /\ (F1 <=> FT)
  <2>1. <<>> \in Seq(Items) /\ Len(<<>>) = 0
    OBVIOUS
  <2>2. R1 <=> (\E j \in 1 .. Len(<<>>) : <<>>[j] \in Removed(m)) \/ RT
    BY <1>0, <1>7, <2>1, InsteadHas
  <2>3. F1 <=> (\E j \in 1 .. Len(<<>>) : <<>>[j] \in {free(m)}) \/ FT
    BY <1>0, <1>7, <2>1, InsteadHas
  <2> QED
    BY <2>1, <2>2, <2>3
<1>8. ASSUME todo[t] # <<>>, NEW a \in Items, Instead(t, <<a>>)
      PROVE  (R1 <=> a \in Removed(m) \/ RT) /\ (F1 <=> a = free(m) \/ FT)
  <2>1. <<a>> \in Seq(Items) /\ Len(<<a>>) = 1 /\ <<a>>[1] = a
    OBVIOUS
  <2>2. R1 <=> (\E j \in 1 .. Len(<<a>>) : <<a>>[j] \in Removed(m)) \/ RT
    BY <1>0, <1>8, <2>1, InsteadHas
  <2>3. F1 <=> (\E j \in 1 .. Len(<<a>>) : <<a>>[j] \in {free(m)}) \/ FT
    BY <1>0, <1>8, <2>1, InsteadHas
  <2> HIDE DEF RT, FT
  <2>4. \A j \in 1 .. Len(<<a>>) : <<a>>[j] = a
    BY <2>1
  <2>5. 1 \in 1 .. Len(<<a>>)
    BY <2>1
  <2> QED
    BY <2>2, <2>3, <2>4, <2>5
<1>9. ASSUME todo[t] # <<>>, NEW a \in Items, NEW b \in Items, NEW c \in Items,
             Instead(t, <<a, b, c>>)
      PROVE  /\ R1 <=> a \in Removed(m) \/ b \in Removed(m) \/ c \in Removed(m) \/ RT
             /\ F1 <=> a = free(m) \/ b = free(m) \/ c = free(m) \/ FT
  <2> DEFINE s == <<a, b, c>>
  <2>1. s \in Seq(Items) /\ Len(s) = 3 /\ s[1] = a /\ s[2] = b /\ s[3] = c
    BY Tuples
  <2>2. R1 <=> (\E j \in 1 .. Len(s) : s[j] \in Removed(m)) \/ RT
    BY <1>0, <1>9, <2>1, InsteadHas
  <2>3. F1 <=> (\E j \in 1 .. Len(s) : s[j] \in {free(m)}) \/ FT
    BY <1>0, <1>9, <2>1, InsteadHas
  <2> HIDE DEF RT, FT, s
  <2>4. \A j \in 1 .. Len(s) : s[j] \in {a, b, c}
    BY <2>1
  <2>5. 1 \in 1 .. Len(s) /\ 2 \in 1 .. Len(s) /\ 3 \in 1 .. Len(s)
    BY <2>1
  <2> QED
    BY <2>1, <2>2, <2>3, <2>4, <2>5
<1>10. /\ \A n : node(n) \notin Removed(m) /\ node(n) # free(m)
       /\ \A f : fsys(f) \notin Removed(m) /\ fsys(f) # free(m)
       /\ \A n : par(n) # free(m) /\ (par(n) \in Removed(m) <=> n = m)
       /\ \A n : (free(n) = free(m) <=> n = m) /\ (free(n) \in Removed(m) <=> n = m)
  BY ItemFacts DEF Removed
<1>11. CASE todo' = todo
  <2>1. (R1 <=> R) /\ (F1 <=> F)
    BY <1>11
  <2>2. ~ LastRef(t) /\ ~ FreeNode(t) /\ ~ Unlink(t)
    <3>1. \A s \in Seq(Items) : ~ (todo[t] # <<>> /\ Instead(t, s) /\ Len(s) \in {0, 3})
      <4> SUFFICES ASSUME NEW s \in Seq(Items), todo[t] # <<>>, Instead(t, s), Len(s) \in {0, 3}
                   PROVE  FALSE
        OBVIOUS
      <4>1. todo[t] \in Seq(Items)
        BY <1>0 DEF TypeOK
      <4>2. PICK r \in Seq(Items) : r = Tail(todo[t])
        BY <4>1, HeadAndTail
      <4>3. Len(r) = Len(todo[t]) - 1 /\ Len(todo[t]) \in Nat
        BY <4>1, <4>2, HeadAndTail
      <4>4. todo'[t] = s \o r
        BY <1>0, <4>2 DEF Instead, TypeOK
      <4>5. Len(s \o r) = Len(s) + Len(r)
        BY ConcatProperties
      <4>6. Len(todo[t]) = Len(s) + Len(r)
        BY <1>11, <4>4, <4>5
      <4>7. PICK N \in Nat : N = Len(todo[t])
        BY <4>3
      <4>8. N = Len(s) + (N - 1)
        BY <4>3, <4>6, <4>7
      <4>9. PICK L \in {0, 3} : L = Len(s)
        OBVIOUS
      <4>10. N = L + (N - 1)
        BY <4>8, <4>9
      <4> QED
        BY <4>10
    <3>2. <<>> \in Seq(Items) /\ Len(<<>>) = 0
      OBVIOUS
    <3>3. ~ FreeNode(t)
      BY <3>1, <3>2 DEF FreeNode, Doing
    <3>4. ~ Unlink(t)
      <4> SUFFICES ASSUME Unlink(t) PROVE FALSE
        OBVIOUS
      <4>1. todo[t] # <<>>
        BY DEF Unlink, Doing
      <4>2. PICK p \in Slots : /\ Head(todo[t]).n \in Slots
                               /\ Instead(t, <<node(p), fsys("main"), free(Head(todo[t]).n)>>)
        BY <4>1, Replacing
      <4>3. PICK n \in Slots : n = Head(todo[t]).n
        BY <4>2
      <4>4. node(p) \in Items /\ fsys("main") \in Items /\ free(n) \in Items
        BY ItemFacts DEF Fs
      <4>5. <<node(p), fsys("main"), free(n)>> \in Seq(Items)
        BY <4>4, Tuples
      <4>6. Len(<<node(p), fsys("main"), free(n)>>) = 3
        OBVIOUS
      <4> QED
        BY <3>1, <4>1, <4>2, <4>3, <4>5, <4>6
    <3>5. ~ LastRef(t)
      <4> SUFFICES ASSUME LastRef(t) PROVE FALSE
        OBVIOUS
      <4>1. todo[t] # <<>>
        BY DEF LastRef, Doing
      <4>2. Head(todo[t]).n \in Slots /\ Instead(t, <<par(Head(todo[t]).n)>>)
            /\ Head(todo[t]) = node(Head(todo[t]).n)
        BY <4>1, Replacing
      <4>3. PICK n \in Slots : n = Head(todo[t]).n
        BY <4>2
      <4>4. par(n) \in Items /\ <<par(n)>> \in Seq(Items) /\ Len(<<par(n)>>) = 1 /\ <<par(n)>>[1] = par(n)
        BY ItemFacts
      <4>5. Instead(t, <<par(n)>>)
        BY <4>2, <4>3
      <4>6. \A j \in 1 .. Len(<<par(n)>>) : j \in DOMAIN todo'[t] /\ todo'[t][j] = <<par(n)>>[j]
        BY <1>0, <4>1, <4>4, <4>5, InsteadAt
      <4>7. todo'[t][1] = par(n)
        BY <4>4, <4>6
      <4>8. todo[t][1] = node(n)
        BY <4>1, <4>2, <4>3, HeadItem
      <4> QED
        BY <1>11, <4>7, <4>8, ItemFacts
    <3> QED
      BY <3>3, <3>4, <3>5
  <2> HIDE DEF R, R1, F, F1, O
  <2> QED
    BY <1>1, <1>3, <1>4, <2>1, <2>2
<1>12. CASE todo[t] = <<>> /\ \E s \in Seq(Items) : Begun(s) /\ todo' = [todo EXCEPT ![t] = s]
  <2>1. PICK s \in Seq(Items) : Begun(s) /\ todo' = [todo EXCEPT ![t] = s]
    BY <1>12
  <2>2. todo'[t] = s
    BY <1>0, <2>1 DEF TypeOK
  <2>3. \A j \in DOMAIN s : \E n, f : s[j] \in {node(n), fsys(f)}
    BY <2>1 DEF Begun
  <2>4. ~ R1 /\ ~ F1
    BY <1>10, <2>2, <2>3
  <2>5. ~ R /\ ~ F
    BY <1>12
  <2>6. ~ LastRef(t) /\ ~ FreeNode(t) /\ ~ Unlink(t)
    BY <1>12 DEF LastRef, FreeNode, Unlink, Doing
  <2> HIDE DEF R, R1, F, F1, O
  <2> QED
    BY <1>1, <1>3, <1>4, <2>4, <2>5, <2>6
<1> DEFINE x == Head(todo[t])
<1> HIDE DEF R, R1, F, F1, O, RT, FT
<1>13. ASSUME todo[t] # <<>>, UnrefNode(t) \/ unref_fs(t)
       PROVE  /\ R1 <=> R
              /\ F1 <=> F
              /\ ~ LastRef(t) \/ UnrefNode(t)
              /\ ~ FreeNode(t) /\ ~ Unlink(t)
  <2>1. x \notin Removed(m) /\ x # free(m) /\ x.do \in {"node", "fs"}
    <3>1. x = node(x.n) \/ x = fsys(x.fs)
      BY <1>13, Replacing
    <3>2. node(x.n).do = "node" /\ fsys(x.fs).do = "fs"
      BY ItemFacts
    <3>3. /\ node(x.n) \notin Removed(m) /\ node(x.n) # free(m)
          /\ fsys(x.fs) \notin Removed(m) /\ fsys(x.fs) # free(m)
      BY <1>10
    <3> QED
      BY <3>1, <3>2, <3>3
  <2>2. ~ FreeNode(t) /\ ~ Unlink(t)
    BY <2>1 DEF FreeNode, Unlink, Doing
  <2>3. (R <=> RT) /\ (F <=> FT)
    BY <1>5, <1>6, <1>13, <2>1
  <2>4. ~ LastRef(t) \/ UnrefNode(t)
    BY <1>13, <2>1 DEF LastRef, UnrefNode, unref_fs, Doing
  <2>5. CASE Instead(t, <<>>)
    BY <1>7, <1>13, <2>2, <2>3, <2>4, <2>5
  <2>6. CASE ~ Instead(t, <<>>)
    <3>1. PICK r \in Slots : Instead(t, <<node(r)>>)
      BY <1>13, <2>6, Replacing
    <3>2. node(r) \in Items
      BY ItemFacts
    <3>3. (R1 <=> node(r) \in Removed(m) \/ RT) /\ (F1 <=> node(r) = free(m) \/ FT)
      BY <1>8, <1>13, <3>1, <3>2
    <3> QED
      BY <1>10, <2>2, <2>3, <2>4, <3>3
  <2> QED
    BY <2>5, <2>6
<1>14. ASSUME todo[t] # <<>>, UnrefNode(t) PROVE ~ LastRef(t)
  <2>1. refs[x.n] \in Nat /\ refs[x.n] > 1
    BY <1>14, HeadItem DEF UnrefNode, Doing
  <2> QED
    BY <2>1 DEF LastRef
<1>15. ASSUME todo[t] # <<>>, LastRef(t)
       PROVE  (R1 <=> R \/ m = x.n) /\ (F1 <=> F) /\ ~ FreeNode(t) /\ ~ Unlink(t)
  <2>1. x.n \in Slots /\ Instead(t, <<par(x.n)>>) /\ x = node(x.n)
    BY <1>15, Replacing
  <2>2. PICK n \in Slots : n = x.n
    BY <2>1
  <2>3. par(n) \in Items /\ x.do = "node"
    BY <2>1, <2>2, ItemFacts
  <2>4. (R1 <=> par(n) \in Removed(m) \/ RT) /\ (F1 <=> par(n) = free(m) \/ FT)
    BY <1>8, <1>15, <2>1, <2>2, <2>3
  <2>5. ~ FreeNode(t) /\ ~ Unlink(t)
    BY <2>3 DEF FreeNode, Unlink, Doing
  <2>6. (R <=> RT) /\ (F <=> FT)
    BY <1>5, <1>6, <1>10, <1>15, <2>1
  <2> QED
    BY <1>10, <2>2, <2>4, <2>5, <2>6
<1>16. ASSUME todo[t] # <<>>, Unlink(t)
       PROVE  (R1 <=> R) /\ (F1 <=> F \/ m = x.n) /\ ~ FreeNode(t) /\ ~ LastRef(t)
  <2>1. PICK p \in Slots : x.n \in Slots /\ Instead(t, <<node(p), fsys("main"), free(x.n)>>)
    BY <1>16, Replacing
  <2>2. PICK n \in Slots : n = x.n
    BY <2>1
  <2>3. x = par(n) /\ x.do = "parent"
    <3>1. x = par(x.n)
      BY <1>16, Replacing
    <3>2. par(x.n).do = "parent"
      BY ItemFacts
    <3> QED
      BY <2>2, <3>1, <3>2
  <2>4. node(p) \in Items /\ fsys("main") \in Items /\ free(n) \in Items
    BY ItemFacts DEF Fs
  <2>5. /\ R1 <=> node(p) \in Removed(m) \/ fsys("main") \in Removed(m) \/ free(n) \in Removed(m) \/ RT
        /\ F1 <=> node(p) = free(m) \/ fsys("main") = free(m) \/ free(n) = free(m) \/ FT
    BY <1>9, <1>16, <2>1, <2>2, <2>4
  <2>6. ~ FreeNode(t) /\ ~ LastRef(t)
    BY <2>3 DEF FreeNode, LastRef, Doing
  <2>7. (R <=> m = n \/ RT) /\ (F <=> FT)
    BY <1>5, <1>6, <1>10, <1>16, <2>3
  <2> QED
    BY <1>10, <2>2, <2>5, <2>6, <2>7
<1>17. ASSUME todo[t] # <<>>, FreeNode(t)
       PROVE  /\ R1 <=> R /\ m # x.n
              /\ F1 <=> F /\ m # x.n
              /\ m = x.n => ~ O
              /\ ~ Unlink(t) /\ ~ LastRef(t)
  <2>1. x = free(x.n) /\ Instead(t, <<>>) /\ x.do = "free"
    <3>1. x = free(x.n) /\ Instead(t, <<>>)
      BY <1>17, Replacing
    <3>2. free(x.n).do = "free"
      BY ItemFacts
    <3> QED
      BY <3>1, <3>2
  <2>2. ~ Unlink(t) /\ ~ LastRef(t)
    BY <2>1 DEF Unlink, LastRef, Doing
  <2>3. (R1 <=> RT) /\ (F1 <=> FT)
    BY <1>7, <1>17, <2>1
  <2>4. (R <=> m = x.n \/ RT) /\ (F <=> m = x.n \/ FT)
    <3>1. (free(x.n) = free(m) <=> x.n = m) /\ (free(x.n) \in Removed(m) <=> x.n = m)
      BY <1>10
    <3> QED
      BY <1>5, <1>6, <1>17, <2>1, <3>1
  <2>5. m = x.n => ~ RT /\ ~ FT
    <3> SUFFICES ASSUME m = x.n, NEW k \in DOMAIN todo[t], k > 1,
                        todo[t][k] \in Removed(m) \/ todo[t][k] = free(m)
                 PROVE  FALSE
      BY DEF RT, FT
    <3>1. todo[t][k] \in Removed(m) /\ x \in Removed(m)
      BY <2>1 DEF Removed
    <3>2. k = 1
      BY <1>17, <3>1, HeadItem
    <3> QED
      BY <3>2
  <2>6. m = x.n => ~ O
    <3> SUFFICES ASSUME m = x.n, NEW u \in Threads \ {t}, NEW k \in DOMAIN todo[u], todo[u][k] = free(m)
                 PROVE  FALSE
      BY DEF O
    <3>1. Removes(u, m)
      BY DEF Removes, Removed
    <3>2. m \in Slots /\ Removes(t, m)
      BY <1>17, <2>1, HeadItem
    <3> QED
      BY <3>1, <3>2, OneHolder
  <2> QED
    BY <2>2, <2>3, <2>4, <2>5, <2>6
<1> HIDE DEF x
<1>18. CASE todo[t] # <<>> /\ (UnrefNode(t) \/ unref_fs(t))
  <2>1. (R1 <=> R) /\ (F1 <=> F) /\ ~ LastRef(t) /\ ~ FreeNode(t) /\ ~ Unlink(t)
    BY <1>13, <1>14, <1>18
  <2> QED
    BY <1>1, <1>3, <1>4, <2>1
<1>19. CASE todo[t] # <<>> /\ LastRef(t)
  BY <1>1, <1>3, <1>4, <1>15, <1>19 DEF x
<1>20. CASE todo[t] # <<>> /\ Unlink(t)
  BY <1>1, <1>3, <1>4, <1>16, <1>20 DEF x
<1>21. CASE todo[t] # <<>> /\ FreeNode(t)
  BY <1>1, <1>3, <1>4, <1>17, <1>21 DEF x
<1> QED
  BY <1>11, <1>12, <1>18, <1>19, <1>20, <1>21, StackMoves
-----------------------------------------------------------------------------
(***************************************************************************)
(* What a step does to the nodes.                                          *)
(***************************************************************************)

Begins(t) == \E op \in Ops, f \in Fs, p \in Seq(STRING) : Begin(t, op, f, p)
Closes(t) == \E u \in Threads : \E h \in handles[u] : unref_file(t, u, h)
Leaves(t) == \E f \in Fs : rm_fs(t, f)

\* Which steps change what.
LEMMA Frames ==
  ASSUME NEW t \in Threads, Acts(t)
  PROVE  /\ live' = live \/ Load(t) \/ FreeNode(t) \/ unref_fs(t)
         /\ (at' = at /\ parent' = parent) \/ Load(t) \/ FreeNode(t)
         /\ kids' = kids \/ Load(t) \/ Unlink(t)
         /\ refs' = refs \/ Begins(t) \/ Found(t) \/ Load(t) \/ NewParent(t) \/ UnrefNode(t) \/ LastRef(t)
         /\ lock' = lock \/ Look(t) \/ Found(t) \/ Load(t) \/ Back(t) \/ LockNode(t) \/ OpenOk(t)
              \/ LastRef(t) \/ FreeNode(t)
         /\ fsrefs' = fsrefs \/ NewFs(t) \/ fs_open(t) \/ fs_subfs(t) \/ unref_fs(t)
         /\ fsroot' = fsroot \/ fs_subfs(t) \/ unref_fs(t)
         /\ owned' = owned \/ fs_subfs(t) \/ Leaves(t)
         /\ handles' = handles \/ fs_open(t) \/ Closes(t)
         /\ disk' = disk \/ Back(t) \/ Unlink(t)
         /\ leaked' = leaked \/ Forget(t)
         /\ seen' = seen \/ Load(t) \/ Back(t) \/ DeleteLooked(t)
         /\ (pc' = pc /\ call' = call) \/ ~ (UnrefNode(t) \/ LastRef(t) \/ Unlink(t) \/ FreeNode(t) \/ unref_fs(t))
<1> USE DEF nvars, fvars, dvars, tvars, hvars
<1>1. ASSUME Begins(t)
      PROVE  UNCHANGED <<live, lock, parent, at, kids, fvars, dvars, hvars>>
  BY <1>1 DEF Begins, Begin
<1>2. ASSUME Look(t) \/ LockNode(t) \/ OpenOk(t)
      PROVE  UNCHANGED <<live, refs, parent, at, kids, fvars, dvars, hvars>>
  BY <1>2 DEF Look, LockNode, OpenOk
<1>3. ASSUME Found(t) \/ NewParent(t)
      PROVE  UNCHANGED <<live, parent, at, kids, fvars, dvars, hvars>>
  BY <1>3 DEF Found, NewParent
<1>4. ASSUME Load(t)
      PROVE  UNCHANGED <<fvars, dvars, leaked>>
  BY <1>4 DEF Load
<1>5. ASSUME NewFs(t)
      PROVE  UNCHANGED <<nvars, fsroot, owned, handles, dvars, hvars>>
  BY <1>5 DEF NewFs
<1>6. ASSUME Back(t)
      PROVE  UNCHANGED <<live, refs, parent, at, kids, fvars, leaked>>
  BY <1>6 DEF Back
<1>7. ASSUME Forget(t)
      PROVE  UNCHANGED <<nvars, fvars, dvars, seen>>
  BY <1>7 DEF Forget
<1>8. ASSUME DeleteLooked(t)
      PROVE  UNCHANGED <<nvars, fvars, dvars, leaked>>
  BY <1>8 DEF DeleteLooked
<1>9. ASSUME fs_open(t)
      PROVE  UNCHANGED <<nvars, fsroot, owned, dvars, hvars>>
  BY <1>9 DEF fs_open
<1>10. ASSUME fs_subfs(t)
      PROVE  UNCHANGED <<nvars, handles, dvars, hvars>>
  BY <1>10 DEF fs_subfs
<1>11. ASSUME Closes(t)
      PROVE  UNCHANGED <<nvars, fsrefs, fsroot, owned, dvars, hvars>>
  BY <1>11 DEF Closes, unref_file
<1>12. ASSUME Leaves(t)
      PROVE  UNCHANGED <<nvars, fsrefs, fsroot, handles, dvars, hvars>>
  BY <1>12 DEF Leaves, rm_fs
<1>13. ASSUME UnrefNode(t)
      PROVE  UNCHANGED <<live, lock, parent, at, kids, fvars, dvars, pc, call, hvars>>
  BY <1>13 DEF UnrefNode
<1>14. ASSUME LastRef(t)
      PROVE  UNCHANGED <<live, parent, at, kids, fvars, dvars, pc, call, hvars>>
  BY <1>14 DEF LastRef
<1>15. ASSUME Unlink(t)
      PROVE  UNCHANGED <<live, refs, lock, parent, at, fvars, pc, call, hvars>>
  BY <1>15 DEF Unlink
<1>16. ASSUME FreeNode(t)
      PROVE  UNCHANGED <<refs, kids, fvars, dvars, pc, call, hvars>>
  BY <1>16 DEF FreeNode
<1>17. ASSUME unref_fs(t)
      PROVE  UNCHANGED <<refs, lock, parent, at, kids, owned, handles, dvars, pc, call, hvars>>
  BY <1>17 DEF unref_fs
<1>18. \/ Begins(t) \/ Look(t) \/ LockNode(t) \/ OpenOk(t) \/ Found(t) \/ NewParent(t) \/ Load(t)
       \/ NewFs(t) \/ Back(t) \/ Forget(t) \/ DeleteLooked(t) \/ fs_open(t) \/ fs_subfs(t)
       \/ Closes(t) \/ Leaves(t) \/ UnrefNode(t) \/ LastRef(t) \/ Unlink(t) \/ FreeNode(t) \/ unref_fs(t)
  BY DEF Acts, Begins, Closes, Leaves
<1> DEFINE Pops == UnrefNode(t) \/ LastRef(t) \/ Unlink(t) \/ FreeNode(t) \/ unref_fs(t)
<1>19. (pc' = pc /\ call' = call) \/ ~ Pops
  BY <1>13, <1>14, <1>15, <1>16, <1>17
<1>20. /\ live' = live \/ Load(t) \/ FreeNode(t) \/ unref_fs(t)
       /\ (at' = at /\ parent' = parent) \/ Load(t) \/ FreeNode(t)
       /\ kids' = kids \/ Load(t) \/ Unlink(t)
  BY <1>1, <1>2, <1>3, <1>5, <1>6, <1>7, <1>8, <1>9, <1>10, <1>11, <1>12, <1>13, <1>14,
     <1>15, <1>16, <1>17, <1>18
<1>21. refs' = refs \/ Begins(t) \/ Found(t) \/ Load(t) \/ NewParent(t) \/ UnrefNode(t) \/ LastRef(t)
  BY <1>2, <1>5, <1>6, <1>7, <1>8, <1>9, <1>10, <1>11, <1>12, <1>15, <1>16, <1>17, <1>18
<1>22. lock' = lock \/ Look(t) \/ Found(t) \/ Load(t) \/ Back(t) \/ LockNode(t) \/ OpenOk(t)
         \/ LastRef(t) \/ FreeNode(t)
  <2>1. NewParent(t) => lock' = lock
    BY DEF NewParent
  <2> QED
    BY <1>1, <1>5, <1>7, <1>8, <1>9, <1>10, <1>11, <1>12, <1>13, <1>15, <1>17, <1>18, <2>1
<1>23. /\ fsrefs' = fsrefs \/ NewFs(t) \/ fs_open(t) \/ fs_subfs(t) \/ unref_fs(t)
       /\ fsroot' = fsroot \/ fs_subfs(t) \/ unref_fs(t)
       /\ owned' = owned \/ fs_subfs(t) \/ Leaves(t)
       /\ handles' = handles \/ fs_open(t) \/ Closes(t)
  BY <1>1, <1>2, <1>3, <1>4, <1>5, <1>6, <1>7, <1>8, <1>9, <1>10, <1>11, <1>12, <1>13,
     <1>14, <1>15, <1>16, <1>17, <1>18
<1>24. /\ disk' = disk \/ Back(t) \/ Unlink(t)
       /\ leaked' = leaked \/ Forget(t)
       /\ seen' = seen \/ Load(t) \/ Back(t) \/ DeleteLooked(t)
  BY <1>1, <1>2, <1>3, <1>4, <1>5, <1>6, <1>7, <1>8, <1>9, <1>10, <1>11, <1>12, <1>13,
     <1>14, <1>15, <1>16, <1>17, <1>18
<1> QED
  BY <1>19, <1>20, <1>21, <1>22, <1>23, <1>24

\* Which nodes leave memory.
LEMMA WhatGoes ==
  ASSUME IInv, NEW t \in Threads, Acts(t), NEW n \in live, n \notin live'
  PROVE  \/ /\ FreeNode(t) /\ todo[t] # <<>> /\ n = Head(todo[t]).n /\ Unlinked(n)
            /\ refs[n] = 0 /\ n # Root /\ Removes(t, n) /\ Head(todo[t]) \in Removed(n)
         \/ /\ n = Root /\ unref_fs(t)
            /\ todo[t] # <<>> /\ Head(todo[t]) = fsys("main") /\ fsrefs["main"] = 1
<1>1. FreeNode(t) \/ unref_fs(t)
  <2>1. Load(t) => live \subseteq live'
    BY DEF Load
  <2> QED
    BY <2>1, Frames
<1>2. CASE FreeNode(t)
  <2>1. n = Head(todo[t]).n /\ todo[t] # <<>> /\ Head(todo[t]).do = "free"
    BY <1>2 DEF FreeNode, Doing
  <2>2. LET x == Head(todo[t]) IN
        x.n # Root /\ refs[x.n] = 0 /\ Removes(t, x.n) /\ x = free(x.n) /\ Unlinked(x.n)
    BY <2>1, HeadItem
  <2> QED
    BY <1>2, <2>1, <2>2 DEF Removed
<1>3. CASE unref_fs(t)
  <2>1. todo[t] # <<>> /\ Head(todo[t]).do = "fs"
    BY <1>3 DEF unref_fs, Doing
  <2>2. Head(todo[t]).fs = "main" /\ fsrefs["main"] = 1 /\ n = Root
    BY <1>3 DEF unref_fs
  <2>3. Head(todo[t]) = fsys(Head(todo[t]).fs)
    BY <2>1, HeadItem
  <2> QED
    BY <1>3, <2>1, <2>2, <2>3
<1> QED
  BY <1>1, <1>2, <1>3

\* What is in use stays.
LEMMA InUseStays ==
  ASSUME IInv, NEW t \in Threads, Acts(t)
  PROVE  /\ \A u \in Threads : InCall(u) => cur(u) \in live'
         /\ \A u \in Threads : \A i \in DOMAIN todo[u] :
              todo[u][i].do # "fs" => todo[u][i].n \in live' \/ (u = t /\ i = 1)
         /\ \A u \in Threads : \A h \in handles[u] : h[2] \in live'
         /\ fsrefs["sub"] >= 1 => fsroot["sub"] \in live'
         /\ \A s \in Slots : Linked(s) => s \in live' /\ parent[s] \in live'
<1>1. ASSUME NEW n \in live, n \notin live', refs[n] >= 1
      PROVE  /\ n = Root
             /\ \A u \in Threads : ~ InCall(u) /\ handles[u] = {}
             /\ \A s \in Slots : ~ Linked(s)
             /\ \A u \in Threads : \A i \in DOMAIN todo[u] : todo[u][i] # node(Root)
             /\ fsrefs["sub"] = 0
  <2>1. n = Root /\ unref_fs(t) /\ todo[t] # <<>> /\ Head(todo[t]) = fsys("main") /\ fsrefs["main"] = 1
    BY <1>1, WhatGoes
  <2> QED
    BY <2>1, MainGoes
<1>2. ASSUME NEW u \in Threads, InCall(u) PROVE cur(u) \in live'
  BY <1>1, <1>2, CallFacts
<1>3. ASSUME NEW u \in Threads, NEW i \in DOMAIN todo[u], todo[u][i].do # "fs",
             todo[u][i].n \notin live', u # t \/ i # 1
      PROVE  FALSE
  <2> DEFINE x == todo[u][i]
  <2>1. /\ x.do = "node" => x = node(x.n) /\ x.n \in live /\ refs[x.n] >= 1
        /\ x.do = "parent" => x = par(x.n)
        /\ x.do = "free" => x = free(x.n)
        /\ x.do \in {"parent", "free"} => x.n \in live \ {Root} /\ refs[x.n] = 0 /\ Removes(u, x.n)
        /\ x.do \in {"node", "parent", "free"}
    BY <1>3, ItemOf
  <2>2. CASE x.do = "node"
    <3>1. PICK n \in live : n = x.n
      BY <2>1, <2>2
    <3>2. n \notin live' /\ refs[n] >= 1 /\ x = node(n)
      BY <1>3, <2>1, <2>2, <3>1
    <3>3. n = Root /\ \A v \in Threads : \A j \in DOMAIN todo[v] : todo[v][j] # node(Root)
      BY <1>1, <3>2
    <3> QED
      BY <3>2, <3>3
  <2>3. CASE x.do \in {"parent", "free"}
    <3>1. PICK n \in live : n = x.n
      BY <2>1, <2>3
    <3>2. n \notin live' /\ n # Root /\ Removes(u, n) /\ x \in Removed(n)
      BY <1>3, <2>1, <2>3, <3>1 DEF Removed
    <3>3. Removes(t, n) /\ todo[t] # <<>> /\ Head(todo[t]) \in Removed(n)
      BY <3>2, WhatGoes
    <3>4. n \in Slots
      BY <3>1 DEF IInv, TypeOK
    <3>5. u = t
      BY <3>2, <3>3, <3>4, OneHolder
    <3>6. i = 1
      BY <3>2, <3>3, <3>5, HeadItem
    <3> QED
      BY <1>3, <3>5, <3>6
  <2> QED
    BY <2>1, <2>2, <2>3
<1>4. ASSUME NEW u \in Threads, NEW h \in handles[u] PROVE h[2] \in live'
  <2>1. h[1] \in Fs /\ h = <<h[1], h[2]>>
    BY DEF IInv, TypeOK
  <2>2. h[2] \in live
    BY DEF IInv, HandlesPlaced
  <2>3. refs[h[2]] >= 1
    BY <2>1, <2>2, Positive DEF IInv
  <2> QED
    BY <1>1, <2>2, <2>3
<1>5. ASSUME NEW s \in Slots, Linked(s) PROVE s \in live' /\ parent[s] \in live'
  <2>1. s \in live /\ ~ Unlinked(s)
    BY <1>5 DEF Linked
  <2>2. ASSUME s \notin live' PROVE FALSE
    <3>1. unref_fs(t) /\ todo[t] # <<>> /\ Head(todo[t]) = fsys("main") /\ fsrefs["main"] = 1
      BY <2>1, <2>2, WhatGoes
    <3> QED
      BY <1>5, <3>1, MainGoes
  <2>3. parent[s] \in live /\ refs[parent[s]] >= 1
    BY <1>5, ParentUsed
  <2> QED
    BY <1>1, <1>5, <2>2, <2>3
<1>6. ASSUME fsrefs["sub"] >= 1 PROVE fsroot["sub"] \in live'
  <2>1. "sub" \in Fs /\ fsroot["sub"] \in live /\ refs[fsroot["sub"]] >= 1
    BY <1>6, RootFacts DEF Fs
  <2>2. fsrefs["sub"] # 0
    BY <1>6
  <2> QED
    BY <1>1, <2>1, <2>2
<1> QED
  BY <1>2, <1>3, <1>4, <1>5, <1>6

\* Nodes stay what they are, and a node gains references only while it has some.
LEMMA Steady ==
  ASSUME IInv, NEW t \in Threads, Acts(t)
  PROVE  /\ \A n \in live \cap live' : at'[n] = at[n] /\ parent'[n] = parent[n]
         /\ \A n \in live : refs[n] = 0 => refs'[n] = 0
         /\ \A n \in live : refs[n] >= 1 =>
              refs'[n] >= 1 \/ (LastRef(t) /\ todo[t] # <<>> /\ n = Head(todo[t]).n /\ refs'[n] = 0)
         /\ \A n \in live' \ live : Load(t) /\ refs'[n] = 1
<1>1. /\ live \subseteq Slots /\ refs \in [Slots -> Nat]
      /\ at \in [Slots -> Paths \cup {<<>>}]
      /\ parent \in [Slots -> Slots \cup {NoSlot}]
  BY DEF IInv, TypeOK
<1>2. ASSUME NEW n \in live, n \in live' PROVE at'[n] = at[n] /\ parent'[n] = parent[n]
  <2>1. CASE Load(t)
    <3>1. PICK s \in Slots \ live : /\ parent' = [parent EXCEPT ![s] = cur(t)]
                                    /\ at' = [at EXCEPT ![s] = Item(cur(t), Head(call[t].rest))]
      BY <2>1 DEF Load
    <3> QED
      BY <1>1, <3>1
  <2>2. CASE FreeNode(t)
    <3>1. /\ live' = live \ {Head(todo[t]).n}
          /\ at' = [at EXCEPT ![Head(todo[t]).n] = <<>>]
          /\ parent' = [parent EXCEPT ![Head(todo[t]).n] = NoSlot]
      BY <2>2 DEF FreeNode
    <3> QED
      BY <1>1, <1>2, <3>1
  <2> QED
    BY <2>1, <2>2, Frames
<1>3. ASSUME NEW n \in live
      PROVE  /\ refs[n] = 0 => refs'[n] = 0
             /\ refs[n] >= 1 =>
                  refs'[n] >= 1 \/ (LastRef(t) /\ todo[t] # <<>> /\ n = Head(todo[t]).n /\ refs'[n] = 0)
  <2>1. n \in Slots /\ refs[n] \in Nat
    BY <1>1
  <2>2. ASSUME NEW m, m \in live => refs[m] >= 1, refs' = [refs EXCEPT ![m] = @ + 1]
        PROVE  /\ refs[n] = 0 => refs'[n] = 0
               /\ refs[n] >= 1 => refs'[n] >= 1
    BY <1>1, <2>1, <2>2
  <2>3. CASE Begins(t)
    <3>1. PICK f \in Fs : f \in owned /\ refs' = [refs EXCEPT ![fsroot[f]] = @ + 1]
      BY <2>3 DEF Begins, Begin
    <3>2. fsrefs[f] >= 1
      BY <3>1, Positive DEF IInv
    <3>3. refs[fsroot[f]] >= 1
      BY <3>2, RootFacts
    <3> QED
      BY <2>2, <3>1, <3>3
  <2>4. CASE Found(t)
    <3>1. call[t].nxt \in live /\ Free(call[t].nxt) /\ refs' = [refs EXCEPT ![call[t].nxt] = @ + 1]
      BY <2>4, NextFacts DEF Found, At
    <3>2. refs[call[t].nxt] >= 1
      BY <3>1, UsedLinked
    <3> QED
      BY <2>2, <3>1, <3>2
  <2>5. CASE Load(t)
    <3>1. PICK s \in Slots \ live : refs' = [refs EXCEPT ![s] = 1]
      BY <2>5 DEF Load
    <3> QED
      BY <1>1, <2>1, <3>1
  <2>6. CASE NewParent(t)
    <3>1. refs[cur(t)] >= 1 /\ refs' = [refs EXCEPT ![cur(t)] = @ + 1]
      BY <2>6, CallFacts DEF NewParent, At, InCall
    <3> QED
      BY <2>2, <3>1
  <2>7. CASE UnrefNode(t)
    <3>1. PICK m : m = Head(todo[t]).n
      OBVIOUS
    <3>2. refs' = [refs EXCEPT ![m] = @ - 1] /\ refs[m] > 1
      BY <2>7, <3>1 DEF UnrefNode
    <3>3. n # m => refs'[n] = refs[n]
      BY <1>1, <2>1, <3>2
    <3>4. n = m => refs'[n] = refs[n] - 1
      BY <1>1, <2>1, <3>2
    <3> QED
      BY <2>1, <3>2, <3>3, <3>4
  <2>8. CASE LastRef(t)
    <3>1. PICK m : m = Head(todo[t]).n
      OBVIOUS
    <3>2. todo[t] # <<>> /\ refs' = [refs EXCEPT ![m] = @ - 1] /\ refs[m] <= 1 /\ refs[m] \in Nat \ {0}
      BY <2>8, <3>1, HeadItem DEF LastRef, Doing
    <3>3. n # m => refs'[n] = refs[n]
      BY <1>1, <2>1, <3>2
    <3>4. n = m => refs'[n] = refs[n] - 1 /\ refs[n] = 1
      BY <1>1, <2>1, <3>2
    <3> QED
      BY <2>1, <2>8, <3>1, <3>2, <3>3, <3>4
  <2> QED
    BY <2>3, <2>4, <2>5, <2>6, <2>7, <2>8, Frames
<1>4. ASSUME NEW n \in live', n \notin live PROVE Load(t) /\ refs'[n] = 1
  <2>1. FreeNode(t) \/ unref_fs(t) => live' \subseteq live
    BY DEF FreeNode, unref_fs
  <2>2. Load(t)
    BY <1>4, <2>1, Frames
  <2>3. PICK s \in Slots \ live : live' = live \cup {s} /\ refs' = [refs EXCEPT ![s] = 1]
    BY <2>2 DEF Load
  <2> QED
    BY <1>1, <1>4, <2>2, <2>3
<1> QED
  BY <1>2, <1>3, <1>4

\* Which nodes are linked.
LEMMA LinkedMoves ==
  ASSUME IInv, NEW t \in Threads, Acts(t), NEW s
  PROVE  /\ Unlink(t) => (Linked(s)' <=> Linked(s) /\ s # Head(todo[t]).n)
         /\ Load(t) => (Linked(s)' <=> Linked(s) \/ s \in live' \ live)
         /\ ~ Unlink(t) /\ ~ Load(t) => (Linked(s)' <=> Linked(s))
<1>1. (Linked(s) <=> s \in live \ {Root} /\ ~ Unlinked(s))
      /\ (Linked(s)' <=> s \in live' \ {Root} /\ ~ Unlinked(s)')
  BY DEF Linked
<1>2. Unlinked(s) => s \in live
  BY BeingRemoved
<1>3. CASE Load(t)
  <2>1. ~ Unlink(t) /\ ~ FreeNode(t)
    BY <1>3 DEF Load, Unlink, FreeNode, Doing, At
  <2>2. Unlinked(s)' <=> Unlinked(s)
    BY <2>1, RemovesMoves
  <2>3. live \subseteq live'
    BY <1>3 DEF Load
  <2>4. Root \notin live' \ live
    <3>1. PICK m \in Slots \ live : live' = live \cup {m} /\ call' = [call EXCEPT ![t].nxt = m]
      BY <1>3 DEF Load
    <3>2. fsrefs["main"] >= 1
      BY <1>3, MainThere DEF Load, At, InCall
    <3>3. Root \in live
      <4>1. "main" \in Fs
        BY DEF Fs
      <4> QED
        BY <3>2, <4>1, RootFacts
    <3> QED
      BY <3>3
  <2> QED
    BY <1>1, <1>2, <1>3, <2>1, <2>2, <2>3, <2>4
<1>4. CASE Unlink(t)
  <2>1. ~ Load(t) /\ ~ FreeNode(t)
    <3>1. Head(todo[t]).do = "parent" /\ todo[t] # <<>>
      BY <1>4 DEF Unlink, Doing
    <3> QED
      BY <3>1 DEF Load, At, FreeNode, Doing
  <2>2. Unlinked(s)' <=> Unlinked(s) \/ s = Head(todo[t]).n
    BY <1>4, RemovesMoves
  <2>3. live' = live
    BY <1>4 DEF Unlink
  <2> QED
    BY <1>1, <1>4, <2>1, <2>2, <2>3
<1>5. CASE ~ Unlink(t) /\ ~ Load(t)
  <2>1. CASE FreeNode(t)
    <3>1. live' = live \ {Head(todo[t]).n}
      BY <2>1 DEF FreeNode
    <3>2. Unlinked(s)' <=> Unlinked(s) /\ s # Head(todo[t]).n
      BY <2>1, RemovesMoves
    <3>3. s = Head(todo[t]).n => Unlinked(s)
      BY <2>1, HeadItem DEF FreeNode, Doing
    <3> QED
      BY <1>1, <1>5, <3>1, <3>2, <3>3
  <2>2. CASE ~ FreeNode(t)
    <3>1. Unlinked(s)' <=> Unlinked(s)
      BY <1>5, <2>2, RemovesMoves
    <3>2. live' = live \/ live' = live \ {Root}
      BY <1>5, <2>2, Frames DEF unref_fs
    <3> QED
      BY <1>1, <1>5, <3>1, <3>2
  <2> QED
    BY <2>1, <2>2
<1> QED
  BY <1>3, <1>4, <1>5

\* A new node s is loaded for the item x of n.
Loads(t, n, x, s) ==
  /\ n = cur(t) /\ n \in Slots /\ x = Head(call[t].rest) /\ call[t].rest # <<>>
  /\ pc[t] = "miss" /\ todo[t] = <<>> /\ pc' = [pc EXCEPT ![t] = "new"]
  /\ InCall(t) /\ refs[n] >= 1 /\ Child(n, x) = {} /\ lock[n] = t
  /\ live' = live \cup {s}
  /\ refs' = [refs EXCEPT ![s] = 1]
  /\ lock' = [m \in Slots |-> IF m \in {s, n} THEN NoThread ELSE lock[m]]
  /\ parent' = [parent EXCEPT ![s] = n]
  /\ at' = [at EXCEPT ![s] = Append(at[n], x)]
  /\ kids' = [m \in Slots |-> IF m = s THEN {}
                             ELSE IF m = n THEN kids[m] \cup {<<x, s>>} ELSE kids[m]]
  /\ call' = [call EXCEPT ![t].nxt = s]
  /\ seen' = [u \in Threads |-> IF Deleting(u) THEN seen[u] \cup {s} ELSE {}]
  /\ todo' = todo

\* A node is loaded under a node of memory into a slot that is free.
LEMMA LoadFacts ==
  ASSUME IInv, NEW t \in Threads, Load(t)
  PROVE  \E n \in live : \E x \in STRING : \E s \in Slots \ live : Loads(t, n, x, s)
<1>1. pc[t] = "miss" /\ todo[t] = <<>> /\ pc' = [pc EXCEPT ![t] = "new"] /\ InCall(t)
  BY DEF Load, At, Goto, InCall
<1>2. cur(t) \in live /\ cur(t) \in Slots /\ refs[cur(t)] >= 1
  BY <1>1, CallFacts
<1>3. call[t].rest # <<>> /\ Child(cur(t), Head(call[t].rest)) = {}
  BY <1>1 DEF IInv, CallsInStep, CallInStep, cur
<1>4. Head(call[t].rest) \in STRING
  <2>1. call[t].rest \in Seq(STRING)
    BY ThreadTypes DEF IInv
  <2> QED
    BY <1>3, <2>1, HeadTailProperties
<1>5. lock[cur(t)] = t
  BY <1>1, <1>2 DEF IInv, Locks, InDriver
<1>6. todo' = todo
  BY DEF Load
<1>7. PICK n \in live : n = cur(t)
  BY <1>2
<1>8. PICK x \in STRING : x = Head(call[t].rest)
  BY <1>4
<1>9. PICK s \in Slots \ live :
           /\ live' = live \cup {s}
           /\ refs' = [refs EXCEPT ![s] = 1]
           /\ lock' = [m \in Slots |-> IF m \in {s, n} THEN NoThread ELSE lock[m]]
           /\ parent' = [parent EXCEPT ![s] = n]
           /\ at' = [at EXCEPT ![s] = Append(at[n], x)]
           /\ kids' = [m \in Slots |-> IF m = s THEN {}
                                      ELSE IF m = n THEN kids[m] \cup {<<x, s>>} ELSE kids[m]]
           /\ call' = [call EXCEPT ![t].nxt = s]
           /\ seen' = [u \in Threads |-> IF Deleting(u) THEN seen[u] \cup {s} ELSE {}]
  <2>1. PICK s \in Slots \ live :
           /\ live' = live \cup {s}
           /\ refs' = [refs EXCEPT ![s] = 1]
           /\ lock' = [m \in Slots |-> IF m \in {s, cur(t)} THEN NoThread ELSE lock[m]]
           /\ parent' = [parent EXCEPT ![s] = cur(t)]
           /\ at' = [at EXCEPT ![s] = Item(cur(t), Head(call[t].rest))]
           /\ kids' = [m \in Slots |->
                        IF m = s THEN {}
                        ELSE IF m = cur(t) THEN kids[m] \cup {<<Head(call[t].rest), s>>} ELSE kids[m]]
           /\ call' = [call EXCEPT ![t].nxt = s]
           /\ seen' = [u \in Threads |-> IF Deleting(u) THEN seen[u] \cup {s} ELSE {}]
    BY DEF Load
  <2> QED
    BY <1>7, <1>8, <2>1 DEF Item
<1>10. Loads(t, n, x, s)
  BY <1>1, <1>2, <1>3, <1>5, <1>6, <1>7, <1>8, <1>9 DEF Loads
<1> QED
  BY <1>10

\* A node that leaves the table of its parent.
Unlinks(t, n, p, x) ==
  /\ todo[t] # <<>> /\ Head(todo[t]) = par(n) /\ n = Head(todo[t]).n /\ n \in Slots
  /\ p = parent[n] /\ p \in Slots /\ Linked(n) /\ refs[n] = 0 /\ refs[p] >= 1 /\ p # n
  /\ lock[n] = t /\ Free(p) /\ <<x, n>> \in kids[p]
  /\ kids' = [kids EXCEPT ![p] = @ \ {<<x, n>>}]
  /\ Instead(t, <<node(p), fsys("main"), free(n)>>)
  /\ UNCHANGED <<live, refs, lock, parent, at, pc, call>>

\* A node is unlinked from the table of its parent.
LEMMA UnlinkFacts ==
  ASSUME IInv, NEW t \in Threads, Unlink(t)
  PROVE  \E n \in live : \E p \in live : \E x \in STRING : Unlinks(t, n, p, x)
<1>1. todo[t] # <<>> /\ Head(todo[t]).do = "parent" /\ Free(parent[Head(todo[t]).n])
  BY DEF Unlink, Doing
<1>2. LET x == Head(todo[t]) IN
         /\ x.n \in live \ {Root} /\ x.n \in Slots /\ refs[x.n] = 0 /\ Removes(t, x.n)
         /\ lock[x.n] = t
         /\ x = par(x.n) /\ Linked(x.n)
         /\ parent[x.n] \in live /\ parent[x.n] \in Slots /\ parent[x.n] # x.n
  BY <1>1, HeadItem
<1>3. PICK n \in live : n = Head(todo[t]).n
  BY <1>2
<1>4. PICK p \in live : p = parent[n]
  BY <1>2, <1>3
<1>5. Linked(n) /\ n \in Slots /\ p \in Slots /\ p # n
  BY <1>2, <1>3, <1>4
<1>6. refs[p] >= 1 /\ \E x \in STRING : <<x, n>> \in kids[p] /\ at[n] = Append(at[p], x)
  BY <1>4, <1>5, ParentUsed
<1>7. PICK x \in STRING : <<x, n>> \in kids[p] /\ at[n] = Append(at[p], x)
  BY <1>6
<1>8. at[n][Len(at[n])] = x
  <2>1. at[p] \in Seq(STRING)
    BY <1>5, PathTypes DEF IInv
  <2>2. PICK q \in Seq(STRING) : q = at[p]
    BY <2>1
  <2>3. Append(q, x)[Len(Append(q, x))] = x
    BY FrontOfAppend
  <2> QED
    BY <1>7, <2>2, <2>3
<1>9. {k \in kids[p] : k[1] # x} = kids[p] \ {<<x, n>>}
  <2>1. ASSUME NEW k \in kids[p], k[1] = x PROVE k = <<x, n>>
    <3>1. \A j, l \in kids[p] : j[1] = l[1] => j = l
      BY DEF IInv, Tree
    <3>2. <<x, n>>[1] = x
      OBVIOUS
    <3> QED
      BY <1>7, <2>1, <3>1, <3>2
  <2>2. <<x, n>>[1] = x
    OBVIOUS
  <2> QED
    BY <2>1, <2>2
<1>10. kids' = [kids EXCEPT ![p] = @ \ {<<x, n>>}]
  <2>1. kids' = [kids EXCEPT ![p] = {k \in @ : k[1] # at[n][Len(at[n])]}]
    BY <1>3, <1>4 DEF Unlink
  <2>2. kids' = [kids EXCEPT ![p] = {k \in kids[p] : k[1] # x}]
    BY <1>8, <2>1
  <2> QED
    BY <1>9, <2>2
<1>11. Instead(t, <<node(p), fsys("main"), free(n)>>) /\ UNCHANGED <<live, refs, lock, parent, at, pc, call>>
  BY <1>3, <1>4 DEF Unlink
<1>12. Unlinks(t, n, p, x)
  BY <1>1, <1>2, <1>3, <1>4, <1>5, <1>6, <1>7, <1>10, <1>11 DEF Unlinks
<1> QED
  BY <1>12

\* Nodes stay in the table of their parent until they are unlinked.
LEMMA TreeKept ==
  ASSUME IInv, NEW t \in Threads, Acts(t), TypeOK'
  PROVE  Tree'
<1>1. Tree /\ TypeOK
  BY DEF IInv
<1> DEFINE Links == \A s \in Slots : Linked(s)' =>
                      parent'[s] \in live' /\ \E k \in kids'[parent'[s]] : k[2] = s
           Tables == \A n \in live' : \A k \in kids'[n] :
                       Linked(k[2])' /\ parent'[k[2]] = n /\ at'[k[2]] = Append(at'[n], k[1])
           Names == \A n \in live' : \A j, k \in kids'[n] : j[1] = k[1] => j = k
<1>2. at'[Root] = <<>>
  <2>1. at[Root] = <<>> /\ Root \in Slots
    BY <1>1, VfsAssumption DEF Tree
  <2>2. CASE Load(t)
    <3>1. PICK s \in Slots \ live : \E p : at' = [at EXCEPT ![s] = p]
      BY <2>2 DEF Load
    <3>2. Root \in live
      <4>1. fsrefs["main"] >= 1
        BY <2>2, MainThere DEF Load, At, InCall
      <4> QED
        BY <4>1, RootFacts DEF Fs
    <3> QED
      BY <1>1, <2>1, <3>1, <3>2 DEF TypeOK
  <2>3. CASE FreeNode(t)
    BY <1>1, <2>1, <2>3 DEF FreeNode, TypeOK
  <2> QED
    BY <2>1, <2>2, <2>3, Frames
<1>3. CASE Load(t)
  <2>0. \E n \in live : \E x \in STRING : \E s \in Slots \ live : Loads(t, n, x, s)
    BY <1>3, LoadFacts
  <2>0a. PICK n \in live : \E x \in STRING : \E s \in Slots \ live : Loads(t, n, x, s)
    BY <2>0
  <2>0b. PICK x \in STRING : \E s \in Slots \ live : Loads(t, n, x, s)
    BY <2>0a
  <2>0c. PICK s \in Slots \ live : Loads(t, n, x, s)
    BY <2>0b
  <2>1. /\ n \in Slots /\ Child(n, x) = {}
        /\ live' = live \cup {s}
        /\ parent' = [parent EXCEPT ![s] = n]
        /\ at' = [at EXCEPT ![s] = Append(at[n], x)]
        /\ kids' = [m \in Slots |-> IF m = s THEN {}
                                   ELSE IF m = n THEN kids[m] \cup {<<x, s>>} ELSE kids[m]]
    BY <2>0c DEF Loads
  <2>2. \A m : Linked(m)' <=> Linked(m) \/ m = s
    <3>1. \A m : Linked(m)' <=> Linked(m) \/ m \in live' \ live
      BY <1>3, LinkedMoves
    <3> QED
      BY <2>1, <3>1
  <2>3. \A m \in live : parent'[m] = parent[m] /\ at'[m] = at[m] /\ m # s
    BY <1>1, <2>1 DEF TypeOK
  <2>4. parent'[s] = n /\ at'[s] = Append(at[n], x) /\ at'[n] = at[n]
    BY <1>1, <2>1, <2>3 DEF TypeOK
  <2>5. kids'[s] = {} /\ kids'[n] = kids[n] \cup {<<x, s>>} /\ \A m \in live : m # n => kids'[m] = kids[m]
    BY <1>1, <2>1, <2>3 DEF TypeOK
  <2>6. Links
    <3> SUFFICES ASSUME NEW m \in Slots, Linked(m)'
                 PROVE  parent'[m] \in live' /\ \E k \in kids'[parent'[m]] : k[2] = m
      OBVIOUS
    <3>1. CASE m = s
      <4>1. <<x, s>> \in kids'[n] /\ <<x, s>>[2] = s
        BY <2>5
      <4>2. parent'[m] = n
        BY <2>4, <3>1
      <4>3. n \in live'
        BY <2>1
      <4>4. <<x, s>>[2] = m
        BY <3>1, <4>1
      <4>5. <<x, s>> \in kids'[parent'[m]]
        BY <4>1, <4>2
      <4>6. \E k \in kids'[parent'[m]] : k[2] = m
        BY <4>4, <4>5
      <4> QED
        BY <4>2, <4>3, <4>6
    <3>2. CASE m # s
      <4>1. Linked(m) /\ m \in live
        BY <2>2, <3>2 DEF Linked
      <4>2. parent[m] \in live /\ \E k \in kids[parent[m]] : k[2] = m
        BY <1>1, <4>1 DEF Tree
      <4>3. kids[parent[m]] \subseteq kids'[parent[m]]
        BY <2>5, <4>2
      <4> QED
        <5>1. parent'[m] = parent[m] /\ parent[m] \in live'
          BY <2>1, <2>3, <4>1, <4>2
        <5>2. PICK k \in kids[parent[m]] : k[2] = m
          BY <4>2
        <5>3. k \in kids'[parent[m]]
          BY <4>3, <5>2
        <5> QED
          BY <5>1, <5>2, <5>3
    <3> QED
      BY <3>1, <3>2
  <2>7. Tables
    <3> SUFFICES ASSUME NEW m \in live', NEW k \in kids'[m]
                 PROVE  Linked(k[2])' /\ parent'[k[2]] = m /\ at'[k[2]] = Append(at'[m], k[1])
      OBVIOUS
    <3>1. CASE k = <<x, s>>
      <4>1. k[1] = x /\ k[2] = s
        BY <3>1
      <4>2. m = n
        <5>1. m # s
          BY <2>5
        <5>2. m \in live
          BY <2>1, <5>1
        <5>3. m # n => k \in kids[m]
          BY <2>5, <5>2
        <5>4. k \in kids[m] => k[2] \in live
          BY <1>1, <5>2 DEF Tree, Linked
        <5> QED
          BY <2>1, <4>1, <5>3, <5>4
      <4> QED
        BY <2>2, <2>4, <4>1, <4>2
    <3>2. CASE k # <<x, s>>
      <4>1. m \in live /\ k \in kids[m]
        BY <2>1, <2>5, <3>2
      <4>2. Linked(k[2]) /\ parent[k[2]] = m /\ at[k[2]] = Append(at[m], k[1])
        BY <1>1, <4>1 DEF Tree
      <4>3. k[2] \in live
        BY <4>2 DEF Linked
      <4> QED
        BY <2>2, <2>3, <4>1, <4>2, <4>3
    <3> QED
      BY <3>1, <3>2
  <2>8. Names
    <3> SUFFICES ASSUME NEW m \in live', NEW j \in kids'[m], NEW k \in kids'[m], j[1] = k[1]
                 PROVE  j = k
      OBVIOUS
    <3>1. m \in live
      BY <2>1, <2>5
    <3>2. \A l \in kids[n] : l[1] # x
      <4> SUFFICES ASSUME NEW l \in kids[n], l[1] = x PROVE FALSE
        OBVIOUS
      <4>1. l = <<l[1], l[2]>> /\ l[2] \in Slots
        BY KidFacts
      <4>2. l[2] \in Child(n, x)
        BY <4>1 DEF Child
      <4> QED
        BY <2>1, <4>2
    <3>3. \A l, q \in kids[m] : l[1] = q[1] => l = q
      BY <1>1, <3>1 DEF Tree
    <3>4. <<x, s>>[1] = x
      OBVIOUS
    <3>5. CASE m # n
      BY <2>5, <3>1, <3>3, <3>5
    <3>6. CASE m = n
      <4>1. /\ j = <<x, s>> \/ (j \in kids[m] /\ j[1] # x)
            /\ k = <<x, s>> \/ (k \in kids[m] /\ k[1] # x)
        BY <2>5, <3>2, <3>6
      <4> QED
        BY <3>3, <3>4, <4>1
    <3> QED
      BY <3>5, <3>6
  <2> QED
    BY <1>2, <2>6, <2>7, <2>8 DEF Tree
<1>4. CASE Unlink(t)
  <2>0. \E n \in live : \E p \in live : \E x \in STRING : Unlinks(t, n, p, x)
    BY <1>4, UnlinkFacts
  <2>0a. PICK n \in live : \E p \in live : \E x \in STRING : Unlinks(t, n, p, x)
    BY <2>0
  <2>0b. PICK p \in live : \E x \in STRING : Unlinks(t, n, p, x)
    BY <2>0a
  <2>0c. PICK x \in STRING : Unlinks(t, n, p, x)
    BY <2>0b
  <2>1. /\ n = Head(todo[t]).n /\ p = parent[n] /\ n \in Slots /\ p \in Slots
        /\ <<x, n>> \in kids[p]
        /\ kids' = [kids EXCEPT ![p] = @ \ {<<x, n>>}]
        /\ live' = live /\ parent' = parent /\ at' = at
    BY <2>0c DEF Unlinks
  <2>2. \A m : Linked(m)' <=> Linked(m) /\ m # n
    BY <1>4, <2>1, LinkedMoves
  <2>3. kids'[p] = kids[p] \ {<<x, n>>} /\ \A m \in Slots : m # p => kids'[m] = kids[m]
    BY <1>1, <2>1 DEF TypeOK
  <2>4. live \subseteq Slots
    BY <1>1 DEF TypeOK
  <2>5. Links
    <3> SUFFICES ASSUME NEW m \in Slots, Linked(m), m # n
                 PROVE  parent[m] \in live /\ \E k \in kids'[parent[m]] : k[2] = m
      BY <2>1, <2>2
    <3>1. parent[m] \in live /\ \E k \in kids[parent[m]] : k[2] = m
      BY <1>1 DEF Tree
    <3>2. <<x, n>>[2] = n
      OBVIOUS
    <3> QED
      BY <2>3, <2>4, <3>1, <3>2
  <2>6. Tables
    <3> SUFFICES ASSUME NEW m \in live, NEW k \in kids'[m]
                 PROVE  k[2] # n /\ Linked(k[2]) /\ parent[k[2]] = m /\ at[k[2]] = Append(at[m], k[1])
      BY <2>1, <2>2
    <3>1. k \in kids[m]
      BY <2>3, <2>4
    <3>2. Linked(k[2]) /\ parent[k[2]] = m /\ at[k[2]] = Append(at[m], k[1])
      BY <1>1, <3>1 DEF Tree
    <3>3. ASSUME k[2] = n PROVE FALSE
      <4>1. m = p
        BY <2>1, <3>2, <3>3
      <4>2. k = <<k[1], n>> /\ at[n] = Append(at[p], k[1]) /\ k[1] \in STRING
        BY <3>1, <3>2, <3>3, <4>1, KidFacts
      <4>3. <<x, n>>[1] = x /\ <<x, n>>[2] = n /\ at[n] = Append(at[p], x)
        <5>1. LET l == <<x, n>> IN at[l[2]] = Append(at[p], l[1])
          BY <1>1, <2>1 DEF Tree
        <5> QED
          BY <5>1
      <4>4. x = k[1]
        <5>1. at[p] \in Seq(STRING)
          BY <2>1, PathTypes DEF IInv
        <5>2. PICK q \in Seq(STRING) : q = at[p]
          BY <5>1
        <5>3. PICK y \in STRING : y = k[1]
          BY <4>2
        <5>4. Append(q, x)[Len(Append(q, x))] = x
          BY FrontOfAppend
        <5>5. Append(q, y)[Len(Append(q, y))] = y
          BY FrontOfAppend
        <5>6. Append(q, x) = Append(q, y)
          BY <4>2, <4>3, <5>2, <5>3
        <5> QED
          BY <5>3, <5>4, <5>5, <5>6
      <4> QED
        BY <2>3, <4>1, <4>2, <4>4
    <3> QED
      BY <3>2, <3>3
  <2>7. Names
    <3>1. \A m \in live : kids'[m] \subseteq kids[m]
      BY <2>3, <2>4
    <3> QED
      BY <1>1, <2>1, <3>1 DEF Tree
  <2> QED
    BY <1>2, <2>5, <2>6, <2>7 DEF Tree
<1>5. CASE ~ Load(t) /\ ~ Unlink(t)
  <2>1. kids' = kids /\ \A m : Linked(m)' <=> Linked(m)
    BY <1>5, Frames, LinkedMoves
  <2>2. live' \subseteq live
    BY <1>5, Steady
  <2>3. \A s \in Slots : Linked(s) => s \in live' /\ parent[s] \in live'
    BY InUseStays
  <2>4. \A n \in live \cap live' : at'[n] = at[n] /\ parent'[n] = parent[n]
    BY Steady
  <2>5. Links
    BY <1>1, <2>1, <2>2, <2>3, <2>4 DEF Tree, Linked
  <2>6. Tables
    <3> SUFFICES ASSUME NEW m \in live', NEW k \in kids[m]
                 PROVE  Linked(k[2]) /\ parent'[k[2]] = m /\ at'[k[2]] = Append(at'[m], k[1])
      BY <2>1
    <3>1. m \in live
      BY <2>2
    <3>2. Linked(k[2]) /\ parent[k[2]] = m /\ at[k[2]] = Append(at[m], k[1]) /\ k[2] \in Slots
      BY <3>1, KidFacts
    <3>3. k[2] \in live /\ k[2] \in live'
      BY <2>3, <3>2 DEF Linked
    <3> QED
      BY <2>4, <3>1, <3>2, <3>3
  <2>7. Names
    BY <1>1, <2>1, <2>2 DEF Tree
  <2> QED
    BY <1>2, <2>5, <2>6, <2>7 DEF Tree
<1> QED
  BY <1>3, <1>4, <1>5
-----------------------------------------------------------------------------
(***************************************************************************)
(* The stacks and the locks.                                               *)
(***************************************************************************)

\* The steps that begin calls of unref_*(), and those that leave the stack alone.
LEMMA BeginsStack ==
  ASSUME IInv, NEW t \in Threads, Acts(t)
  PROVE  /\ Found(t) \/ NewFs(t) \/ Back(t) \/ Closes(t) \/ Leaves(t) =>
              /\ todo[t] = <<>> /\ pc'[t] \in {"idle", "walk"}
              /\ \E s \in Seq(Items) :
                   /\ Begun(s) /\ todo' = [todo EXCEPT ![t] = s] /\ todo'[t] = s
                   /\ \A n : s[1] = node(n) => n \in live'
         /\ \/ Found(t) \/ NewFs(t) \/ Back(t) \/ Closes(t) \/ Leaves(t)
            \/ UnrefNode(t) \/ LastRef(t) \/ Unlink(t) \/ FreeNode(t) \/ unref_fs(t)
            \/ todo[t] = <<>> /\ todo' = todo
<1>0. pc \in [Threads -> PCs] /\ todo \in [Threads -> Seq(Items)]
  BY DEF IInv, TypeOK
<1>1. ASSUME Found(t) \/ NewFs(t) \/ Back(t)
      PROVE  /\ todo[t] = <<>> /\ pc'[t] \in {"idle", "walk"}
             /\ \E s \in Seq(Items) :
                  /\ Begun(s) /\ todo' = [todo EXCEPT ![t] = s] /\ todo'[t] = s
                  /\ \A n : s[1] = node(n) => n \in live'
  <2>1. todo[t] = <<>> /\ InCall(t) /\ pc'[t] \in {"idle", "walk"}
    <3>1. Found(t) => todo[t] = <<>> /\ pc[t] = "found" /\ pc' = [pc EXCEPT ![t] = "walk"]
      BY DEF Found, At, Step, Goto
    <3>2. NewFs(t) => todo[t] = <<>> /\ pc[t] = "newfs" /\ pc' = [pc EXCEPT ![t] = "walk"]
      BY DEF NewFs, At, Step, Goto
    <3>3. Back(t) => todo[t] = <<>> /\ pc[t] \in {"miss", "locked"} /\ pc' = [pc EXCEPT ![t] = "idle"]
      <4>1. Back(t) => todo[t] = <<>> /\ pc[t] \in {"miss", "locked"} /\ Return(t, cur(t))
        BY DEF Back
      <4>2. Return(t, cur(t)) => pc' = [pc EXCEPT ![t] = "idle"]
        BY DEF Return, Goto
      <4> QED
        BY <4>1, <4>2
    <3>4. pc' = [pc EXCEPT ![t] = "walk"] => pc'[t] = "walk"
      BY <1>0
    <3>5. pc' = [pc EXCEPT ![t] = "idle"] => pc'[t] = "idle"
      BY <1>0
    <3> QED
      BY <1>1, <3>1, <3>2, <3>3, <3>4, <3>5 DEF InCall
  <2>2. cur(t) \in Slots /\ cur(t) \in live'
    BY <2>1, CallFacts, InUseStays
  <2>3. PICK m \in Slots : m = cur(t)
    BY <2>2
  <2>4. <<node(m)>> \in Seq(Items) /\ <<node(m)>>[1] = node(m) /\ Begun(<<node(m)>>)
    BY ItemFacts, Tuples DEF Begun
  <2>5. todo' = [todo EXCEPT ![t] = <<node(m)>>]
    <3>1. Found(t) => todo' = [todo EXCEPT ![t] = <<node(cur(t))>>]
      BY DEF Found, Step
    <3>2. NewFs(t) => todo' = [todo EXCEPT ![t] = <<node(cur(t))>>]
      BY DEF NewFs, Step
    <3>3. Back(t) => todo' = [todo EXCEPT ![t] = <<node(cur(t))>>]
      <4>1. Back(t) => Return(t, cur(t))
        BY DEF Back
      <4>2. Return(t, cur(t)) => todo' = [todo EXCEPT ![t] = <<node(cur(t))>>]
        BY DEF Return
      <4> QED
        BY <4>1, <4>2
    <3> QED
      BY <1>1, <2>3, <3>1, <3>2, <3>3
  <2>6. \A n : <<node(m)>>[1] = node(n) => n \in live'
    BY <2>2, <2>3, <2>4, ItemFacts
  <2>7. todo'[t] = <<node(m)>>
    BY <1>0, <2>5
  <2> QED
    BY <2>1, <2>4, <2>5, <2>6, <2>7
<1>2. ASSUME NEW u \in Threads, NEW h \in handles[u], unref_file(t, u, h)
      PROVE  /\ todo[t] = <<>> /\ pc'[t] \in {"idle", "walk"}
             /\ \E s \in Seq(Items) :
                  /\ Begun(s) /\ todo' = [todo EXCEPT ![t] = s] /\ todo'[t] = s
                  /\ \A n : s[1] = node(n) => n \in live'
  <2>1. h[1] \in Fs /\ h[2] \in Slots /\ h[2] \in live'
    BY InUseStays DEF IInv, TypeOK
  <2>2. PICK f \in Fs : f = h[1]
    BY <2>1
  <2>3. PICK m \in Slots : m = h[2]
    BY <2>1
  <2>4. <<node(m), fsys(f)>> \in Seq(Items) /\ <<node(m), fsys(f)>>[1] = node(m)
        /\ Begun(<<node(m), fsys(f)>>)
    BY ItemFacts, Tuples DEF Begun
  <2>5. todo[t] = <<>> /\ pc'[t] \in {"idle", "walk"} /\ todo' = [todo EXCEPT ![t] = <<node(m), fsys(f)>>]
    BY <1>2, <2>2, <2>3 DEF unref_file, At
  <2>6. \A n : <<node(m), fsys(f)>>[1] = node(n) => n \in live'
    BY <2>1, <2>3, <2>4, ItemFacts
  <2>7. todo'[t] = <<node(m), fsys(f)>>
    BY <1>0, <2>5
  <2> QED
    BY <2>4, <2>5, <2>6, <2>7
<1>3. ASSUME NEW f \in Fs, rm_fs(t, f)
      PROVE  /\ todo[t] = <<>> /\ pc'[t] \in {"idle", "walk"}
             /\ \E s \in Seq(Items) :
                  /\ Begun(s) /\ todo' = [todo EXCEPT ![t] = s] /\ todo'[t] = s
                  /\ \A n : s[1] = node(n) => n \in live'
  <2>1. <<fsys(f)>> \in Seq(Items) /\ <<fsys(f)>>[1] = fsys(f) /\ Begun(<<fsys(f)>>)
    BY ItemFacts, Tuples DEF Begun
  <2>2. \A n : <<fsys(f)>>[1] # node(n)
    BY <2>1, ItemFacts
  <2>3. todo[t] = <<>> /\ pc'[t] \in {"idle", "walk"} /\ todo' = [todo EXCEPT ![t] = <<fsys(f)>>]
    BY <1>3 DEF rm_fs, At
  <2>4. todo'[t] = <<fsys(f)>>
    BY <1>0, <2>3
  <2> QED
    BY <2>1, <2>2, <2>3, <2>4
<1>4. ASSUME Begins(t) PROVE todo[t] = <<>> /\ todo' = todo
  <2>1. PICK op \in Ops, f \in Fs, p \in Seq(STRING) : Begin(t, op, f, p)
    BY <1>4 DEF Begins
  <2>2. At(t, "idle")
    BY <2>1 DEF Begin
  <2> QED
    BY <2>1, <2>2 DEF Begin, At
<1>5. ASSUME Look(t) \/ Load(t) \/ NewParent(t) \/ Forget(t) \/ DeleteLooked(t) \/ LockNode(t)
             \/ OpenOk(t) \/ fs_open(t) \/ fs_subfs(t)
      PROVE  todo[t] = <<>> /\ todo' = todo
  BY <1>5 DEF Look, Load, NewParent, Forget, DeleteLooked, LockNode, OpenOk, fs_open, fs_subfs,
              At, Arrived, Driver
<1>6. Closes(t) => /\ todo[t] = <<>> /\ pc'[t] \in {"idle", "walk"}
                   /\ \E s \in Seq(Items) :
                        /\ Begun(s) /\ todo' = [todo EXCEPT ![t] = s] /\ todo'[t] = s
                        /\ \A n : s[1] = node(n) => n \in live'
  BY <1>2 DEF Closes
<1>7. Leaves(t) => /\ todo[t] = <<>> /\ pc'[t] \in {"idle", "walk"}
                   /\ \E s \in Seq(Items) :
                        /\ Begun(s) /\ todo' = [todo EXCEPT ![t] = s] /\ todo'[t] = s
                        /\ \A n : s[1] = node(n) => n \in live'
  BY <1>3 DEF Leaves
<1>8. \/ Found(t) \/ NewFs(t) \/ Back(t) \/ Closes(t) \/ Leaves(t)
      \/ UnrefNode(t) \/ LastRef(t) \/ Unlink(t) \/ FreeNode(t) \/ unref_fs(t)
      \/ todo[t] = <<>> /\ todo' = todo
  BY <1>4, <1>5 DEF Acts, Begins, Closes, Leaves
<1> QED
  BY <1>1, <1>6, <1>7, <1>8

\* The reference of the file system to its root is never the last one dropped by
\* unref_fs_node().
LEMMA RootNotLast ==
  ASSUME IInv, NEW t \in Threads, NEW i \in DOMAIN todo[t], todo[t][i] = node(Root)
  PROVE  refs[Root] >= 2
<1>1. Root \in Slots /\ node(Root) \in Items /\ "main" \in Fs
  BY VfsAssumption, ItemFacts DEF Fs
<1>2. Root \in live
  <2>1. node(Root).do = "node" /\ node(Root).n = Root
    BY ItemFacts
  <2>2. todo[t][i].do = "node" => todo[t][i].n \in live
    BY ItemOf
  <2> QED
    BY <2>1, <2>2
<1>3. fsrefs["main"] > 0 /\ fsroot["main"] = Root
  BY <1>2 DEF IInv, FsPlaced
<1>4. "main" \in Roots(Root)
  BY <1>1, <1>3 DEF Roots
<1>5. <<t, i>> \in Places(node(Root))
  BY InPlaces, PlacesAreIn
<1>6. /\ IsFiniteSet(Walkers(Root)) /\ IsFiniteSet(Loading(Root, {"new", "newfs"}))
      /\ IsFiniteSet(Children(Root)) /\ IsFiniteSet(OpenNodes(Root)) /\ IsFiniteSet(Roots(Root))
      /\ IsFiniteSet(Places(node(Root)))
  BY <1>1, HoldersFinite DEF StacksFinite, IInv
<1>7. /\ Cardinality(Walkers(Root)) \in Nat /\ Cardinality(Loading(Root, {"new", "newfs"})) \in Nat
      /\ Cardinality(Children(Root)) \in Nat /\ Cardinality(OpenNodes(Root)) \in Nat
      /\ Cardinality(Roots(Root)) \in Nat /\ Cardinality(Places(node(Root))) \in Nat
  BY <1>6, FS_CardinalityType
<1>8. Cardinality(Roots(Root)) >= 1 /\ Cardinality(Places(node(Root))) >= 1
  BY <1>4, <1>5, <1>6, Counted
<1>9. refs[Root] = NodeRefs(Root) /\ leaked[Root] \in Nat
  BY <1>1, <1>2, VfsAssumption DEF IInv, CountsExact, TypeOK
<1> QED
  BY <1>7, <1>8, <1>9 DEF NodeRefs

\* The node whose last reference goes.
LEMMA LastFacts ==
  ASSUME IInv, NEW t \in Threads, LastRef(t)
  PROVE  \E n \in live :
           /\ todo[t] # <<>> /\ Head(todo[t]) = node(n) /\ n = Head(todo[t]).n /\ n \in Slots
           /\ n # Root /\ refs[n] = 1 /\ refs' = [refs EXCEPT ![n] = @ - 1] /\ refs'[n] = 0
           /\ Free(n) /\ lock' = [lock EXCEPT ![n] = t] /\ lock[n] = NoThread
           /\ Instead(t, <<par(n)>>)
           /\ UNCHANGED <<live, parent, at, kids, pc, call, fsrefs, fsroot, owned, handles, leaked>>
<1>1. todo[t] # <<>> /\ Head(todo[t]).do = "node" /\ refs[Head(todo[t]).n] <= 1
  BY DEF LastRef, Doing
<1>2. LET x == Head(todo[t]) IN
      /\ x = todo[t][1] /\ 1 \in DOMAIN todo[t]
      /\ x = node(x.n) /\ x.n \in live /\ x.n \in Slots /\ refs[x.n] \in Nat \ {0}
  BY <1>1, HeadItem
<1>3. PICK n \in live : n = Head(todo[t]).n
  BY <1>2
<1>4. n \in Slots /\ refs[n] = 1 /\ todo[t][1] = node(n) /\ Head(todo[t]) = node(n)
  BY <1>1, <1>2, <1>3
<1>5. n # Root
  BY <1>2, <1>4, RootNotLast
<1>6. refs' = [refs EXCEPT ![n] = @ - 1] /\ Lock(t, n) /\ Instead(t, <<par(n)>>)
      /\ UNCHANGED <<live, parent, at, kids, pc, call, fsrefs, fsroot, owned, handles, leaked>>
  BY <1>3 DEF LastRef, fvars, hvars
<1>7. refs'[n] = 0
  BY <1>4, <1>6 DEF IInv, TypeOK
<1> QED
  BY <1>1, <1>3, <1>4, <1>5, <1>6, <1>7 DEF Lock, Free

\* A stack whose first item has been replaced is in order if the new items are.
LEMMA StackInstead ==
  ASSUME IInv, NEW t \in Threads, Acts(t), todo[t] # <<>>, pc' = pc,
         NEW s \in Seq(Items), Instead(t, s),
         \A j \in 1 .. Len(s) :
           LET x == s[j] IN
           /\ x \in {node(x.n), par(x.n), free(x.n), fsys(x.fs)}
           /\ x.do # "fs" => x.n \in live'
           /\ x.do = "parent" => j = 1
           /\ x \in Removed(x.n) => x.n # Root /\ refs'[x.n] = 0
           /\ x \in Removed(x.n) => \A k \in 1 .. Len(s) : s[k] \in Removed(x.n) => j = k
           /\ x \in Removed(x.n) => \A i \in DOMAIN todo[t] : i > 1 => todo[t][i] \notin Removed(x.n)
  PROVE  StackOk(t)'
<1>0. TypeOK
  BY DEF IInv
<1>1. pc'[t] \in {"idle", "walk"}
  BY HeadItem
<1>2. PICK q : q = todo'[t]
  OBVIOUS
<1>3. PICK L \in Nat : L = Len(s)
  OBVIOUS
<1>4. /\ \A j \in DOMAIN q :
           \/ j \in 1 .. L /\ q[j] = s[j]
           \/ /\ j > L /\ j - L + 1 > 1 /\ j - L + 1 \in DOMAIN todo[t]
              /\ q[j] = todo[t][j - L + 1]
      /\ \A j \in DOMAIN q : j \in Nat
  BY <1>0, <1>2, <1>3, InsteadAt
<1>5. ASSUME NEW i \in DOMAIN todo[t], i > 1
      PROVE  LET x == todo[t][i] IN
             /\ x \in {node(x.n), par(x.n), free(x.n), fsys(x.fs)}
             /\ x.do # "fs" => x.n \in live'
             /\ x.do # "parent"
             /\ x \in Removed(x.n) => x.n # Root /\ refs'[x.n] = 0
  <2> DEFINE x == todo[t][i]
  <2>1. /\ x \in {node(x.n), par(x.n), free(x.n), fsys(x.fs)}
        /\ x.do # "fs" => x.n \in live
        /\ x.do = "parent" => i = 1
        /\ x \in Removed(x.n) => x.n # Root /\ refs[x.n] = 0
    BY DEF IInv, Stacks, StackOk
  <2>2. x.do # "fs" => x.n \in live'
    BY <1>5, InUseStays
  <2>3. x.do # "parent"
    BY <1>5, <2>1
  <2>4. x \in Removed(x.n) => x.do # "fs"
    BY ItemFacts DEF Removed
  <2>5. x \in Removed(x.n) => refs'[x.n] = 0
    BY <2>1, <2>4, Steady
  <2> QED
    BY <2>1, <2>2, <2>3, <2>5
<1>6. ASSUME NEW j \in DOMAIN q
      PROVE  LET x == q[j] IN
             /\ x \in {node(x.n), par(x.n), free(x.n), fsys(x.fs)}
             /\ x.do # "fs" => x.n \in live'
             /\ x.do = "parent" => j = 1
             /\ x \in Removed(x.n) => x.n # Root /\ refs'[x.n] = 0
  <2>1. CASE j \in 1 .. L /\ q[j] = s[j]
    BY <1>3, <2>1
  <2>2. CASE /\ j > L /\ j - L + 1 > 1 /\ j - L + 1 \in DOMAIN todo[t]
             /\ q[j] = todo[t][j - L + 1]
    <3>1. PICK i \in DOMAIN todo[t] : i > 1 /\ q[j] = todo[t][i]
      BY <2>2
    <3> QED
      BY <1>5, <3>1
  <2> QED
    BY <1>4, <2>1, <2>2
<1>7. ASSUME NEW j \in DOMAIN q, NEW k \in DOMAIN q, NEW n, q[j].n = n,
             q[j] \in Removed(n), q[k] \in Removed(n)
      PROVE  j = k
  <2>0. j \in Nat /\ k \in Nat
    BY <1>4
  <2>1. CASE j \in 1 .. L /\ q[j] = s[j]
    <3>1. s[j] \in Removed(s[j].n) /\ s[j].n = n
      BY <1>7, <2>1
    <3>2. CASE k \in 1 .. L /\ q[k] = s[k]
      <4>1. \A l \in 1 .. L : s[l] \in Removed(n) => j = l
        BY <1>3, <2>1, <3>1
      <4> QED
        BY <1>7, <3>2, <4>1
    <3>3. CASE /\ k - L + 1 > 1 /\ k - L + 1 \in DOMAIN todo[t]
               /\ q[k] = todo[t][k - L + 1]
      <4>1. \A i \in DOMAIN todo[t] : i > 1 => todo[t][i] \notin Removed(n)
        BY <1>3, <2>1, <3>1
      <4> QED
        BY <1>7, <3>3, <4>1
    <3> QED
      BY <1>4, <3>2, <3>3
  <2>2. CASE /\ j - L + 1 > 1 /\ j - L + 1 \in DOMAIN todo[t]
             /\ q[j] = todo[t][j - L + 1]
    <3>2. CASE k \in 1 .. L /\ q[k] = s[k]
      <4>1. s[k].n = n
        BY <1>7, <3>2, ItemFacts DEF Removed
      <4>2. s[k] \in Removed(s[k].n)
        BY <1>7, <3>2, <4>1
      <4>3. \A i \in DOMAIN todo[t] : i > 1 => todo[t][i] \notin Removed(n)
        BY <1>3, <3>2, <4>1, <4>2
      <4> QED
        BY <1>7, <2>2, <4>3
    <3>3. CASE /\ k - L + 1 > 1 /\ k - L + 1 \in DOMAIN todo[t]
               /\ q[k] = todo[t][k - L + 1]
      <4>1. \A i, l \in DOMAIN todo[t] :
              todo[t][i] \in Removed(n) /\ todo[t][l] \in Removed(n) => i = l
        BY BeingRemoved
      <4>2. j - L + 1 = k - L + 1
        BY <1>7, <2>2, <3>3, <4>1
      <4> QED
        BY <2>0, <4>2
    <3> QED
      BY <1>4, <3>2, <3>3
  <2> QED
    BY <1>4, <2>1, <2>2
<1> QED
  BY <1>1, <1>2, <1>6, <1>7 DEF StackOk, Removed, par, free, node, fsys

\* The stacks stay in order.
LEMMA StacksKept ==
  ASSUME IInv, NEW t \in Threads, Acts(t)
  PROVE  Stacks'
<1>0. TypeOK /\ pc \in [Threads -> PCs] /\ todo \in [Threads -> Seq(Items)]
  BY DEF IInv, TypeOK
<1>1. ASSUME NEW u \in Threads, u # t PROVE StackOk(u)'
  <2>1. pc'[u] = pc[u] /\ todo'[u] = todo[u]
    BY <1>0, <1>1, OthersUnmoved
  <2>2. StackOk(u)
    BY DEF IInv, Stacks
  <2>3. ASSUME NEW i \in DOMAIN todo[u]
        PROVE  LET x == todo[u][i] IN
               /\ x.do # "fs" => x.n \in live'
               /\ x \in Removed(x.n) => x.n # Root /\ refs'[x.n] = 0
    <3> DEFINE x == todo[u][i]
    <3>1. x.do # "fs" => x.n \in live /\ x.n \in live'
      BY <1>1, <2>2, InUseStays DEF StackOk
    <3>2. x \in Removed(x.n) => x.do # "fs" /\ x.n # Root /\ refs[x.n] = 0
      BY <2>2, ItemFacts DEF StackOk, Removed
    <3>3. x \in Removed(x.n) => refs'[x.n] = 0
      BY <3>1, <3>2, Steady
    <3> QED
      BY <3>1, <3>2, <3>3
  <2>4. PICK q : q = todo[u]
    OBVIOUS
  <2>5. /\ pc'[u] \notin {"idle", "walk"} => q = <<>>
        /\ \A i \in DOMAIN q :
             LET x == q[i] IN
             /\ x \in {node(x.n), par(x.n), free(x.n), fsys(x.fs)}
             /\ x.do = "parent" => i = 1
             /\ \A j \in DOMAIN q :
                  x \in Removed(x.n) /\ q[j] \in Removed(x.n) => i = j
    BY <2>1, <2>2, <2>4 DEF StackOk
  <2>6. \A i \in DOMAIN q :
          LET x == q[i] IN
          /\ x.do # "fs" => x.n \in live'
          /\ x \in Removed(x.n) => x.n # Root /\ refs'[x.n] = 0
    BY <2>3, <2>4
  <2>7. todo'[u] = q
    BY <2>1, <2>4
  <2> QED
    BY <2>5, <2>6, <2>7 DEF StackOk, Removed, node, par, free, fsys
<1>2. ASSUME todo[t] = <<>>, todo' = todo PROVE StackOk(t)'
  <2>1. todo'[t] = <<>>
    BY <1>2
  <2>2. DOMAIN todo'[t] = {}
    BY <2>1
  <2> QED
    BY <2>1, <2>2 DEF StackOk
<1>3. ASSUME pc'[t] \in {"idle", "walk"}, NEW s \in Seq(Items), Begun(s), todo'[t] = s,
             \A n : s[1] = node(n) => n \in live'
      PROVE  StackOk(t)'
  <2>1. \A j \in DOMAIN s :
          \/ j = 1 /\ \E n \in Slots : s[j] = node(n)
          \/ \E f \in Fs : s[j] = fsys(f)
    <3>1. CASE \E n \in Slots : s = <<node(n)>>
      BY <3>1
    <3>2. CASE \E n \in Slots, f \in Fs : s = <<node(n), fsys(f)>>
      BY <3>2
    <3>3. CASE \E f \in Fs : s = <<fsys(f)>>
      BY <3>3
    <3> QED
      BY <1>3, <3>1, <3>2, <3>3 DEF Begun
  <2>2. ASSUME NEW j \in DOMAIN s
        PROVE  LET x == s[j] IN
               /\ x \in {node(x.n), par(x.n), free(x.n), fsys(x.fs)}
               /\ x.do # "fs" => x.n \in live'
               /\ x.do # "parent"
               /\ x \notin Removed(x.n)
    <3>1. CASE j = 1 /\ \E n \in Slots : s[j] = node(n)
      <4>1. PICK n \in Slots : s[j] = node(n)
        BY <3>1
      <4>2. n \in live' /\ node(n).n = n /\ node(n).do = "node"
        BY <1>3, <3>1, <4>1, ItemFacts
      <4>3. node(n) \notin Removed(n)
        BY <4>2, ItemFacts DEF Removed
      <4> QED
        BY <4>1, <4>2, <4>3
    <3>2. CASE \E f \in Fs : s[j] = fsys(f)
      <4>1. PICK f \in Fs : s[j] = fsys(f)
        BY <3>2
      <4>2. fsys(f).fs = f /\ fsys(f).do = "fs"
        BY ItemFacts
      <4>3. \A n : fsys(f) \notin Removed(n)
        BY <4>2, ItemFacts DEF Removed
      <4> QED
        BY <4>1, <4>2, <4>3
    <3> QED
      BY <2>1, <3>1, <3>2
  <2> QED
    BY <1>3, <2>2 DEF StackOk, Removed, node, par, free, fsys
<1>4. ASSUME UnrefNode(t) \/ LastRef(t) \/ Unlink(t) \/ FreeNode(t) \/ unref_fs(t), todo[t] # <<>>
      PROVE  StackOk(t)'
  <2>1. pc' = pc
    BY <1>4, Frames
  <2>2. <<>> \in Seq(Items) /\ 1 .. Len(<<>>) = {}
    OBVIOUS
  <2>3. CASE Instead(t, <<>>)
    <3>1. PICK s \in Seq(Items) : s = <<>>
      BY <2>2
    <3>2. 1 .. Len(s) = {} /\ Instead(t, s)
      BY <2>2, <2>3, <3>1
    <3> QED
      BY <1>4, <2>1, <3>2, StackInstead
  <2>4. CASE LastRef(t)
    <3>1. PICK n \in live :
            /\ Head(todo[t]) = node(n) /\ n \in Slots /\ n # Root /\ refs[n] = 1 /\ refs'[n] = 0
            /\ Instead(t, <<par(n)>>) /\ live' = live
      BY <2>4, LastFacts
    <3>2. par(n) \in Items /\ par(n).n = n /\ par(n).do = "parent" /\ par(n) \in Removed(n)
      BY <3>1, ItemFacts DEF Removed
    <3>3. PICK s \in Seq(Items) : s = <<par(n)>>
      BY <3>2, <1>0, StackTypes
    <3>4. Len(s) = 1 /\ s[1] = par(n) /\ \A j \in 1 .. Len(s) : j = 1
      BY <3>3
    <3>5. \A i \in DOMAIN todo[t] : todo[t][i] \notin Removed(n)
      <4> SUFFICES ASSUME NEW i \in DOMAIN todo[t], todo[t][i] \in Removed(n) PROVE FALSE
        OBVIOUS
      <4>1. todo[t][i].do \in {"parent", "free"} /\ todo[t][i].n = n
        BY ItemFacts DEF Removed
      <4>2. todo[t][i].do \in {"parent", "free"} => refs[todo[t][i].n] = 0
        BY ItemOf
      <4> QED
        BY <3>1, <4>1, <4>2
    <3>6. ASSUME NEW j \in 1 .. Len(s)
          PROVE  LET x == s[j] IN
                 /\ x \in {node(x.n), par(x.n), free(x.n), fsys(x.fs)}
                 /\ x.do # "fs" => x.n \in live'
                 /\ x.do = "parent" => j = 1
                 /\ x \in Removed(x.n) => x.n # Root /\ refs'[x.n] = 0
                 /\ x \in Removed(x.n) => \A k \in 1 .. Len(s) : s[k] \in Removed(x.n) => j = k
                 /\ x \in Removed(x.n) => \A i \in DOMAIN todo[t] : i > 1 => todo[t][i] \notin Removed(x.n)
      BY <3>1, <3>2, <3>4, <3>5
    <3> QED
      BY <1>4, <2>1, <3>1, <3>3, <3>6, StackInstead
  <2>5. CASE Unlink(t)
    <3>0. \E n \in live : \E p \in live : \E x \in STRING : Unlinks(t, n, p, x)
      BY <2>5, UnlinkFacts
    <3>0a. PICK n \in live : \E p \in live : \E x \in STRING : Unlinks(t, n, p, x)
      BY <3>0
    <3>0b. PICK p \in live : \E x \in STRING : Unlinks(t, n, p, x)
      BY <3>0a
    <3>1. /\ Head(todo[t]) = par(n) /\ n \in Slots /\ n # Root /\ refs[n] = 0
          /\ p \in Slots /\ p \in live /\ refs' = refs /\ live' = live
          /\ Instead(t, <<node(p), fsys("main"), free(n)>>)
      BY <3>0b DEF Unlinks, Linked
    <3>2. /\ node(p) \in Items /\ node(p).n = p /\ node(p).do = "node" /\ \A m : node(p) \notin Removed(m)
          /\ fsys("main") \in Items /\ fsys("main").fs = "main" /\ fsys("main").do = "fs"
          /\ \A m : fsys("main") \notin Removed(m)
          /\ free(n) \in Items /\ free(n).n = n /\ free(n).do = "free" /\ free(n) \in Removed(n)
      <4>1. "main" \in Fs
        BY DEF Fs
      <4> QED
        BY <3>1, <4>1, ItemFacts DEF Removed
    <3>3. PICK s \in Seq(Items) : s = <<node(p), fsys("main"), free(n)>>
      BY <3>2, <1>0, StackTypes
    <3>4. Len(s) = 3 /\ s[1] = node(p) /\ s[2] = fsys("main") /\ s[3] = free(n)
          /\ \A j \in 1 .. Len(s) : j \in {1, 2, 3}
      BY <3>3
    <3>5. \A i \in DOMAIN todo[t] : i > 1 => todo[t][i] \notin Removed(n)
      <4>1. Head(todo[t]) \in Removed(n)
        BY <3>1 DEF Removed
      <4>2. \A m : Head(todo[t]) \in Removed(m) => \A i \in DOMAIN todo[t] : todo[t][i] \in Removed(m) => i = 1
        BY <1>4, HeadItem
      <4> QED
        BY <4>1, <4>2
    <3>6. ASSUME NEW j \in 1 .. Len(s)
          PROVE  LET x == s[j] IN
                 /\ x \in {node(x.n), par(x.n), free(x.n), fsys(x.fs)}
                 /\ x.do # "fs" => x.n \in live'
                 /\ x.do = "parent" => j = 1
                 /\ x \in Removed(x.n) => x.n # Root /\ refs'[x.n] = 0
                 /\ x \in Removed(x.n) => \A k \in 1 .. Len(s) : s[k] \in Removed(x.n) => j = k
                 /\ x \in Removed(x.n) => \A i \in DOMAIN todo[t] : i > 1 => todo[t][i] \notin Removed(x.n)
      <4>1. CASE j = 1
        BY <3>1, <3>2, <3>4, <4>1
      <4>2. CASE j = 2
        BY <3>2, <3>4, <4>2
      <4>3. CASE j = 3
        BY <3>1, <3>2, <3>4, <3>5, <4>3
      <4> QED
        BY <3>4, <4>1, <4>2, <4>3
    <3> QED
      BY <1>4, <2>1, <3>1, <3>3, <3>6, StackInstead
  <2>6. CASE unref_fs(t) /\ \E r \in Slots : /\ fsrefs["sub"] = 1 /\ r = fsroot["sub"]
                                             /\ Instead(t, <<node(r)>>)
    <3>1. PICK r \in Slots : fsrefs["sub"] = 1 /\ r = fsroot["sub"] /\ Instead(t, <<node(r)>>)
      BY <2>6
    <3>2. r \in live'
      BY <3>1, InUseStays
    <3>3. node(r) \in Items /\ node(r).n = r /\ node(r).do = "node" /\ \A m : node(r) \notin Removed(m)
      BY ItemFacts DEF Removed
    <3>4. PICK s \in Seq(Items) : s = <<node(r)>>
      BY <3>3, <1>0, StackTypes
    <3>5. Len(s) = 1 /\ s[1] = node(r) /\ \A j \in 1 .. Len(s) : j = 1
      BY <3>4
    <3>6. ASSUME NEW j \in 1 .. Len(s)
          PROVE  LET x == s[j] IN
                 /\ x \in {node(x.n), par(x.n), free(x.n), fsys(x.fs)}
                 /\ x.do # "fs" => x.n \in live'
                 /\ x.do = "parent" => j = 1
                 /\ x \in Removed(x.n) => x.n # Root /\ refs'[x.n] = 0
                 /\ x \in Removed(x.n) => \A k \in 1 .. Len(s) : s[k] \in Removed(x.n) => j = k
                 /\ x \in Removed(x.n) => \A i \in DOMAIN todo[t] : i > 1 => todo[t][i] \notin Removed(x.n)
      BY <3>2, <3>3, <3>5
    <3> QED
      BY <1>4, <2>1, <3>1, <3>4, <3>6, StackInstead
  <2>7. /\ UnrefNode(t) \/ FreeNode(t) => Instead(t, <<>>)
        /\ unref_fs(t) => \/ Instead(t, <<>>)
                          \/ \E r \in Slots : /\ fsrefs["sub"] = 1 /\ r = fsroot["sub"]
                                              /\ Instead(t, <<node(r)>>)
    BY <1>4, Replacing
  <2> QED
    BY <1>4, <2>3, <2>4, <2>5, <2>6, <2>7
<1>5. StackOk(t)'
  <2>1. UnrefNode(t) \/ LastRef(t) \/ Unlink(t) \/ FreeNode(t) \/ unref_fs(t) => todo[t] # <<>>
    BY DEF UnrefNode, LastRef, Unlink, FreeNode, unref_fs, Doing
  <2>2. CASE Found(t) \/ NewFs(t) \/ Back(t) \/ Closes(t) \/ Leaves(t)
    <3>1. /\ pc'[t] \in {"idle", "walk"}
          /\ \E s \in Seq(Items) :
               /\ Begun(s) /\ todo' = [todo EXCEPT ![t] = s] /\ todo'[t] = s
               /\ \A n : s[1] = node(n) => n \in live'
      BY <2>2, BeginsStack
    <3> QED
      BY <1>3, <3>1
  <2> QED
    BY <1>2, <1>4, <2>1, <2>2, BeginsStack
<1> QED
  BY <1>1, <1>5 DEF Stacks

Holds(t, n) == InDriver(t, n) \/ Removes(t, n)

\* A lock that is taken or given back, with what t does.
LockIs == \A m \in Slots : \A u \in Threads : lock[m] = u <=> Holds(u, m)
Takes(t, n) ==
  /\ lock[n] = NoThread
  /\ lock' = [lock EXCEPT ![n] = t]
  /\ \A m \in Slots : \A u \in Threads : Holds(u, m)' <=> Holds(u, m) \/ (u = t /\ m = n)
Gives(t, n) ==
  /\ lock[n] = t
  /\ lock' = [lock EXCEPT ![n] = NoThread]
  /\ \A m \in Slots : \A u \in Threads : Holds(u, m)' <=> Holds(u, m) /\ ~ (u = t /\ m = n)

\* A step that takes or gives back one lock keeps Locks.
LEMMA LockMoves ==
  ASSUME IInv, NEW t \in Threads, NEW n \in Slots
  PROVE  Takes(t, n) \/ Gives(t, n) => LockIs'
<1>1. \A m \in Slots : \A u \in Threads : lock[m] = u <=> Holds(u, m)
  BY DEF IInv, Locks, Holds
<1>2. NoThread \notin Threads
  BY VfsAssumption
<1>3. lock \in [Slots -> Threads \cup {NoThread}]
  BY DEF IInv, TypeOK
<1>4. ASSUME NEW x \in Threads \cup {NoThread}, lock' = [lock EXCEPT ![n] = x]
      PROVE  lock'[n] = x /\ \A m \in Slots : m # n => lock'[m] = lock[m]
  BY <1>3, <1>4
<1>5. ASSUME lock[n] = NoThread, lock' = [lock EXCEPT ![n] = t],
             \A m \in Slots : \A u \in Threads : Holds(u, m)' <=> Holds(u, m) \/ (u = t /\ m = n)
      PROVE  \A m \in Slots : \A u \in Threads : lock'[m] = u <=> Holds(u, m)'
  <2> SUFFICES ASSUME NEW m \in Slots, NEW u \in Threads PROVE lock'[m] = u <=> Holds(u, m)'
    OBVIOUS
  <2>1. lock'[n] = t /\ \A k \in Slots : k # n => lock'[k] = lock[k]
    BY <1>4, <1>5
  <2>2. Holds(u, m)' <=> Holds(u, m) \/ (u = t /\ m = n)
    BY <1>5
  <2> QED
    BY <1>1, <1>2, <1>5, <2>1, <2>2
<1>6. ASSUME lock[n] = t, lock' = [lock EXCEPT ![n] = NoThread],
             \A m \in Slots : \A u \in Threads : Holds(u, m)' <=> Holds(u, m) /\ ~ (u = t /\ m = n)
      PROVE  \A m \in Slots : \A u \in Threads : lock'[m] = u <=> Holds(u, m)'
  <2> SUFFICES ASSUME NEW m \in Slots, NEW u \in Threads PROVE lock'[m] = u <=> Holds(u, m)'
    OBVIOUS
  <2>1. lock'[n] = NoThread /\ \A k \in Slots : k # n => lock'[k] = lock[k]
    BY <1>4, <1>6
  <2>2. Holds(u, m)' <=> Holds(u, m) /\ ~ (u = t /\ m = n)
    BY <1>6
  <2> QED
    BY <1>1, <1>2, <1>6, <2>1, <2>2
<1> QED
  BY <1>5, <1>6 DEF Takes, Gives, LockIs

\* Where t is in the driver, before and after.
LEMMA DriverMoves ==
  ASSUME IInv, NEW t \in Threads, Acts(t), NEW m
  PROVE  /\ Look(t) \/ LockNode(t) =>
              /\ ~ InDriver(t, m) /\ (InDriver(t, m)' <=> m = cur(t))
              /\ InCall(t) /\ lock[cur(t)] = NoThread /\ lock' = [lock EXCEPT ![cur(t)] = t]
         /\ Found(t) \/ Back(t) \/ OpenOk(t) =>
              /\ ~ InDriver(t, m)' /\ (InDriver(t, m) <=> m = cur(t))
              /\ InCall(t) /\ lock' = [lock EXCEPT ![cur(t)] = NoThread]
         /\ Load(t) => ~ InDriver(t, m)' /\ (InDriver(t, m) <=> m = cur(t))
         /\ \/ Look(t) \/ LockNode(t) \/ Found(t) \/ Back(t) \/ OpenOk(t) \/ Load(t)
            \/ (InDriver(t, m)' <=> InDriver(t, m))
         /\ \A u \in Threads : u # t => (InDriver(u, m)' <=> InDriver(u, m))
<1>0. pc \in [Threads -> PCs] /\ call \in [Threads -> Calls] /\ TypeOK
  BY DEF IInv, TypeOK
<1>0a. \A q : pc' = [pc EXCEPT ![t] = q] => pc'[t] = q
  BY <1>0
<1>1. ASSUME Look(t)
      PROVE  /\ ~ InDriver(t, m) /\ (InDriver(t, m)' <=> m = cur(t))
             /\ InCall(t) /\ lock[cur(t)] = NoThread /\ lock' = [lock EXCEPT ![cur(t)] = t]
  <2>1. pc[t] = "walk" /\ Lock(t, cur(t))
    BY <1>1 DEF Look, At
  <2>2. pc' = [pc EXCEPT ![t] = "miss"] \/ pc' = [pc EXCEPT ![t] = "found"]
    BY <1>1 DEF Look, Goto
  <2>3. call' = call \/ \E s : call' = [call EXCEPT ![t].nxt = s]
    BY <1>1 DEF Look
  <2>4. \A c \in Calls : \A s : [c EXCEPT !.nxt = s].cur = c.cur
    BY DEF Calls
  <2>5. call'[t].cur = call[t].cur
    <3>1. ASSUME NEW s, call' = [call EXCEPT ![t].nxt = s] PROVE call'[t].cur = call[t].cur
      <4>1. call'[t] = [call[t] EXCEPT !.nxt = s]
        BY <1>0, <3>1
      <4>2. call[t] \in Calls
        BY <1>0
      <4> QED
        BY <2>4, <4>1, <4>2
    <3> QED
      BY <2>3, <3>1
  <2>6. pc'[t] \in {"miss", "found"}
    BY <1>0a, <2>2
  <2> QED
    BY <2>1, <2>5, <2>6 DEF InDriver, InCall, cur, Lock, Free
<1>2. ASSUME LockNode(t)
      PROVE  /\ ~ InDriver(t, m) /\ (InDriver(t, m)' <=> m = cur(t))
             /\ InCall(t) /\ lock[cur(t)] = NoThread /\ lock' = [lock EXCEPT ![cur(t)] = t]
  <2>1. pc[t] \in {"walk", "at"} /\ Lock(t, cur(t)) /\ pc' = [pc EXCEPT ![t] = "locked"] /\ call' = call
    BY <1>2 DEF LockNode, At, Arrived, Goto
  <2>2. pc'[t] = "locked"
    BY <1>0a, <2>1
  <2> QED
    BY <2>1, <2>2 DEF InDriver, InCall, cur, Lock, Free
<1>3. ASSUME Found(t)
      PROVE  /\ ~ InDriver(t, m)' /\ (InDriver(t, m) <=> m = cur(t))
             /\ InCall(t) /\ lock' = [lock EXCEPT ![cur(t)] = NoThread]
  <2>1. pc[t] = "found" /\ Unlock(cur(t)) /\ pc' = [pc EXCEPT ![t] = "walk"]
    BY <1>3 DEF Found, At, Step, Goto
  <2>2. pc'[t] = "walk"
    BY <1>0a, <2>1
  <2> QED
    BY <2>1, <2>2 DEF InDriver, InCall, Unlock
<1>4. ASSUME Back(t)
      PROVE  /\ ~ InDriver(t, m)' /\ (InDriver(t, m) <=> m = cur(t))
             /\ InCall(t) /\ lock' = [lock EXCEPT ![cur(t)] = NoThread]
  <2>1. pc[t] \in {"miss", "locked"} /\ Unlock(cur(t)) /\ Return(t, cur(t))
    BY <1>4 DEF Back
  <2>2. pc' = [pc EXCEPT ![t] = "idle"]
    BY <2>1 DEF Return, Goto
  <2>3. pc'[t] = "idle"
    BY <1>0a, <2>2
  <2> QED
    BY <2>1, <2>3 DEF InDriver, InCall, Unlock
<1>5. ASSUME OpenOk(t)
      PROVE  /\ ~ InDriver(t, m)' /\ (InDriver(t, m) <=> m = cur(t))
             /\ InCall(t) /\ lock' = [lock EXCEPT ![cur(t)] = NoThread]
  <2>1. pc[t] = "locked" /\ Unlock(cur(t)) /\ pc' = [pc EXCEPT ![t] = "opened"]
    BY <1>5 DEF OpenOk, Driver, At, Goto
  <2>2. pc'[t] = "opened"
    BY <1>0a, <2>1
  <2> QED
    BY <2>1, <2>2 DEF InDriver, InCall, Unlock
<1>6. ASSUME Load(t) PROVE ~ InDriver(t, m)' /\ (InDriver(t, m) <=> m = cur(t))
  <2>1. pc[t] = "miss" /\ pc' = [pc EXCEPT ![t] = "new"]
    BY <1>6 DEF Load, At, Goto
  <2>2. pc'[t] = "new"
    BY <1>0a, <2>1
  <2> QED
    BY <2>1, <2>2 DEF InDriver
<1>7. ASSUME NEW q, pc'[t] = q, q \notin {"found", "miss", "locked"}, pc[t] \notin {"found", "miss", "locked"}
      PROVE  InDriver(t, m)' <=> InDriver(t, m)
  BY <1>7 DEF InDriver
<1>8. ASSUME pc' = pc, call' = call PROVE InDriver(t, m)' <=> InDriver(t, m)
  BY <1>8 DEF InDriver, cur
<1>9. ASSUME NEW op \in Ops, NEW f \in Fs, NEW p \in Seq(STRING), Begin(t, op, f, p)
      PROVE  InDriver(t, m)' <=> InDriver(t, m)
  <2>1. pc[t] = "idle" /\ pc' = [pc EXCEPT ![t] = "walk"]
    BY <1>9 DEF Begin, At, Goto
  <2> QED
    BY <1>0a, <1>7, <2>1
<1>10. ASSUME NewParent(t) PROVE InDriver(t, m)' <=> InDriver(t, m)
  <2>1. pc[t] = "new" /\ pc' = [pc EXCEPT ![t] = "newfs"]
    BY <1>10 DEF NewParent, At, Goto
  <2> QED
    BY <1>0a, <1>7, <2>1
<1>11. ASSUME NewFs(t) PROVE InDriver(t, m)' <=> InDriver(t, m)
  <2>1. pc[t] = "newfs" /\ pc' = [pc EXCEPT ![t] = "walk"]
    BY <1>11 DEF NewFs, At, Step, Goto
  <2> QED
    BY <1>0a, <1>7, <2>1
<1>12. ASSUME Forget(t) PROVE InDriver(t, m)' <=> InDriver(t, m)
  <2>1. pc[t] = "walk" /\ pc' = [pc EXCEPT ![t] = "idle"]
    BY <1>12 DEF Forget, At, Goto
  <2> QED
    BY <1>0a, <1>7, <2>1
<1>13. ASSUME DeleteLooked(t) PROVE InDriver(t, m)' <=> InDriver(t, m)
  <2>1. pc[t] = "walk" /\ pc' = [pc EXCEPT ![t] = "at"]
    BY <1>13 DEF DeleteLooked, Arrived, At, Goto
  <2> QED
    BY <1>0a, <1>7, <2>1
<1>14. ASSUME fs_open(t) PROVE InDriver(t, m)' <=> InDriver(t, m)
  <2>1. pc[t] = "opened" /\ pc' = [pc EXCEPT ![t] = "idle"]
    BY <1>14 DEF fs_open, At, Goto
  <2> QED
    BY <1>0a, <1>7, <2>1
<1>15. ASSUME fs_subfs(t) PROVE InDriver(t, m)' <=> InDriver(t, m)
  <2>1. pc[t] = "walk" /\ pc' = [pc EXCEPT ![t] = "idle"]
    BY <1>15 DEF fs_subfs, Arrived, At, Goto
  <2> QED
    BY <1>0a, <1>7, <2>1
<1>16. ASSUME NEW u \in Threads, NEW h \in handles[u], unref_file(t, u, h)
       PROVE  InDriver(t, m)' <=> InDriver(t, m)
  <2>1. pc[t] = "idle" /\ pc' = pc
    BY <1>16 DEF unref_file, At
  <2> QED
    BY <1>7, <2>1
<1>17. ASSUME NEW f \in Fs, rm_fs(t, f) PROVE InDriver(t, m)' <=> InDriver(t, m)
  <2>1. pc[t] = "idle" /\ pc' = pc
    BY <1>17 DEF rm_fs, At
  <2> QED
    BY <1>7, <2>1
<1>18. UnrefNode(t) \/ LastRef(t) \/ Unlink(t) \/ FreeNode(t) \/ unref_fs(t)
         => (InDriver(t, m)' <=> InDriver(t, m))
  BY <1>8, Frames
<1>19. \A u \in Threads : u # t => (InDriver(u, m)' <=> InDriver(u, m))
  BY <1>0, OthersUnmoved DEF InDriver, cur
<1>20. \/ Look(t) \/ LockNode(t) \/ Found(t) \/ Back(t) \/ OpenOk(t) \/ Load(t)
       \/ (InDriver(t, m)' <=> InDriver(t, m))
  BY <1>9, <1>10, <1>11, <1>12, <1>13, <1>14, <1>15, <1>16, <1>17, <1>18 DEF Acts
<1> QED
  BY <1>1, <1>2, <1>3, <1>4, <1>5, <1>6, <1>19, <1>20

\* Locks are held by the threads that are in the driver, or remove the node.
LEMMA LocksKept ==
  ASSUME IInv, NEW t \in Threads, Acts(t)
  PROVE  Locks'
<1>0. TypeOK /\ Locks /\ NoThread \notin Threads
  BY VfsAssumption DEF IInv
<1>1. \A m \in Slots : \A u \in Threads : lock[m] = u <=> Holds(u, m)
  BY <1>0 DEF Locks, Holds
<1>2. \A u \in Threads : \A m \in Slots :
        u # t => (Holds(u, m)' <=> Holds(u, m))
  BY DriverMoves, RemovesMoves DEF Holds
<1>3. ASSUME Look(t) \/ LockNode(t)
      PROVE  LockIs'
  <2>1. \A m \in Slots : (InDriver(t, m)' <=> m = cur(t)) /\ ~ InDriver(t, m)
    BY <1>3, DriverMoves
  <2>2. InCall(t) /\ lock[cur(t)] = NoThread /\ lock' = [lock EXCEPT ![cur(t)] = t]
    BY <1>3, DriverMoves
  <2>3. \A m : Removes(t, m)' <=> Removes(t, m)
    BY <1>3, RemovesMoves DEF Look, LockNode, LastRef, FreeNode, At, Arrived, Doing
  <2>4. PICK n \in Slots : n = cur(t)
    BY <2>2, CallFacts
  <2>5. \A m \in Slots : \A u \in Threads : Holds(u, m)' <=> Holds(u, m) \/ (u = t /\ m = n)
    BY <1>2, <2>1, <2>3, <2>4 DEF Holds
  <2> QED
    <3>1. Takes(t, n)
      BY <2>2, <2>4, <2>5 DEF Takes
    <3> QED
      BY <3>1, LockMoves
<1>4. ASSUME Found(t) \/ Back(t) \/ OpenOk(t)
      PROVE  LockIs'
  <2>1. \A m \in Slots : (InDriver(t, m) <=> m = cur(t)) /\ ~ InDriver(t, m)'
    BY <1>4, DriverMoves
  <2>2. InCall(t) /\ lock' = [lock EXCEPT ![cur(t)] = NoThread]
    BY <1>4, DriverMoves
  <2>3. \A m : Removes(t, m)' <=> Removes(t, m)
    <3>1. todo[t] = <<>>
      BY <1>4 DEF Found, Back, OpenOk, At, Driver
    <3>2. ~ LastRef(t) /\ ~ FreeNode(t)
      BY <3>1 DEF LastRef, FreeNode, Doing
    <3> QED
      BY <3>2, RemovesMoves
  <2>4. PICK n \in Slots : n = cur(t)
    BY <2>2, CallFacts
  <2>5. ~ Removes(t, n)
    BY <2>2, <2>4, CallFacts, BeingRemoved
  <2>6. \A m \in Slots : \A u \in Threads : Holds(u, m)' <=> Holds(u, m) /\ ~ (u = t /\ m = n)
    BY <1>2, <2>1, <2>3, <2>4, <2>5 DEF Holds
  <2>7. lock[n] = t
    BY <1>1, <2>1, <2>4 DEF Holds
  <2> QED
    <3>1. Gives(t, n)
      BY <2>2, <2>4, <2>6, <2>7 DEF Gives
    <3> QED
      BY <3>1, LockMoves
<1>5. ASSUME Load(t)
      PROVE  LockIs'
  <2>1. PICK n \in live : \E x \in STRING : \E s \in Slots \ live : Loads(t, n, x, s)
    BY <1>5, LoadFacts
  <2>2. PICK x \in STRING : \E s \in Slots \ live : Loads(t, n, x, s)
    BY <2>1
  <2>3. PICK s \in Slots \ live : Loads(t, n, x, s)
    BY <2>2
  <2>4. /\ n \in Slots /\ n = cur(t) /\ InCall(t) /\ lock[n] = t
        /\ lock' = [m \in Slots |-> IF m \in {s, n} THEN NoThread ELSE lock[m]]
    BY <2>3 DEF Loads
  <2>5. \A m \in Slots : (InDriver(t, m) <=> m = n) /\ ~ InDriver(t, m)'
    BY <1>5, <2>4, DriverMoves
  <2>6. \A m : Removes(t, m)' <=> Removes(t, m)
    BY <1>5, RemovesMoves DEF Load, LastRef, FreeNode, At, Doing
  <2>7. ~ Removes(t, n)
    BY <2>4, CallFacts, BeingRemoved
  <2>8. \A m \in Slots : \A u \in Threads : Holds(u, m)' <=> Holds(u, m) /\ ~ (u = t /\ m = n)
    BY <1>2, <2>5, <2>6, <2>7 DEF Holds
  <2>9. \A u \in Threads : ~ Holds(u, s)
    <3> SUFFICES ASSUME NEW u \in Threads, Holds(u, s) PROVE FALSE
      OBVIOUS
    <3>1. CASE InDriver(u, s)
      BY <3>1, CallFacts DEF InDriver, InCall
    <3>2. CASE Removes(u, s)
      BY <3>2, BeingRemoved
    <3> QED
      BY <3>1, <3>2 DEF Holds
  <2> QED
    BY <1>0, <1>1, <2>4, <2>8, <2>9 DEF LockIs
<1>6. ASSUME LastRef(t)
      PROVE  LockIs'
  <2>1. PICK n \in live : /\ n = Head(todo[t]).n /\ n \in Slots
                          /\ lock' = [lock EXCEPT ![n] = t] /\ lock[n] = NoThread
    BY <1>6, LastFacts
  <2>2. \A m : Removes(t, m)' <=> Removes(t, m) \/ m = n
    BY <1>6, <2>1, RemovesMoves
  <2>3. \A m \in Slots : InDriver(t, m)' <=> InDriver(t, m)
    BY <1>6, DriverMoves DEF LastRef, Doing, Look, LockNode, Found, Back, OpenOk, Load, At, Arrived, Driver
  <2>4. \A m \in Slots : \A u \in Threads : Holds(u, m)' <=> Holds(u, m) \/ (u = t /\ m = n)
    BY <1>2, <2>2, <2>3 DEF Holds
  <2> QED
    <3>1. Takes(t, n)
      BY <2>1, <2>4 DEF Takes
    <3> QED
      BY <2>1, <3>1, LockMoves
<1>7. ASSUME FreeNode(t)
      PROVE  LockIs'
  <2>1. todo[t] # <<>> /\ Head(todo[t]).do = "free" /\ lock' = [lock EXCEPT ![Head(todo[t]).n] = NoThread]
    BY <1>7 DEF FreeNode, Doing, Unlock
  <2>2. Head(todo[t]).n \in Slots /\ lock[Head(todo[t]).n] = t /\ pc[t] \in {"idle", "walk"}
    BY <2>1, HeadItem
  <2>3. PICK n \in Slots : n = Head(todo[t]).n
    BY <2>2
  <2>4. \A m : Removes(t, m)' <=> Removes(t, m) /\ m # n
    BY <1>7, <2>3, RemovesMoves
  <2>5. \A m \in Slots : (InDriver(t, m)' <=> InDriver(t, m)) /\ ~ InDriver(t, m)
    <3>1. \A m \in Slots : ~ InDriver(t, m)
      BY <2>2 DEF InDriver
    <3> QED
      BY <1>7, <2>1, <3>1, DriverMoves DEF Look, LockNode, Found, Back, OpenOk, Load, At, Arrived, Driver
  <2>6. \A m \in Slots : \A u \in Threads : Holds(u, m)' <=> Holds(u, m) /\ ~ (u = t /\ m = n)
    BY <1>2, <2>4, <2>5 DEF Holds
  <2> QED
    <3>1. Gives(t, n)
      BY <2>1, <2>2, <2>3, <2>6 DEF Gives
    <3> QED
      BY <3>1, LockMoves
<1>8. ASSUME ~ (Look(t) \/ LockNode(t) \/ Found(t) \/ Back(t) \/ OpenOk(t) \/ Load(t)),
             ~ LastRef(t), ~ FreeNode(t)
      PROVE  LockIs'
  <2>1. lock' = lock
    BY <1>8, Frames
  <2>2. \A m \in Slots : InDriver(t, m)' <=> InDriver(t, m)
    BY <1>8, DriverMoves
  <2>3. \A m \in Slots : Removes(t, m)' <=> Removes(t, m)
    BY <1>8, RemovesMoves
  <2> QED
    BY <1>1, <1>2, <2>1, <2>2, <2>3 DEF Holds, LockIs
<1>9. LockIs'
  BY <1>3, <1>4, <1>5, <1>6, <1>7, <1>8
<1>10. ASSUME NEW n \in live', refs'[n] = 0 PROVE lock'[n] # NoThread
  <2>1. n \in live /\ n \in Slots
    BY <1>0, <1>10, Steady DEF TypeOK
  <2>2. \E u \in Threads : Removes(u, n)'
    <3>1. CASE refs[n] = 0
      <4>1. lock[n] # NoThread /\ lock[n] \in Threads
        BY <1>0, <2>1, <3>1 DEF Locks, Free, TypeOK
      <4>2. PICK u \in Threads : lock[n] = u
        BY <4>1
      <4>3. ~ InDriver(u, n)
        BY <3>1, CallFacts DEF InDriver, InCall
      <4>4. Removes(u, n)
        BY <1>1, <2>1, <4>2, <4>3 DEF Holds
      <4>5. Removes(u, n)' \/ (u = t /\ FreeNode(t) /\ n = Head(todo[t]).n)
        BY <4>4, RemovesMoves
      <4>6. FreeNode(t) => n # Head(todo[t]).n
        BY <1>10 DEF FreeNode
      <4> QED
        BY <4>5, <4>6
    <3>2. CASE refs[n] >= 1
      <4>1. LastRef(t) /\ n = Head(todo[t]).n
        BY <1>10, <2>1, <3>2, Steady
      <4>2. Removes(t, n)'
        BY <4>1, RemovesMoves
      <4> QED
        BY <4>2
    <3>3. refs[n] \in Nat
      BY <1>0, <2>1 DEF TypeOK
    <3> QED
      BY <3>1, <3>2, <3>3
  <2>3. PICK u \in Threads : Removes(u, n)'
    BY <2>2
  <2> QED
    BY <1>0, <1>9, <2>1, <2>3 DEF Holds, LockIs
<1>11. \A n \in live' : refs'[n] = 0 => ~ (lock'[n] = NoThread)
  BY <1>10
<1> QED
  BY <1>9, <1>11 DEF Locks, LockIs, Holds, Free

-----------------------------------------------------------------------------
(***************************************************************************)
(* The calls.                                                              *)
(***************************************************************************)

\* A file system that is not about to go stays where it is.
LEMMA FsSteady ==
  ASSUME IInv, NEW t \in Threads, Acts(t), NEW f \in Fs, fsrefs[f] >= 1,
         ~ (todo[t] # <<>> /\ Head(todo[t]) = fsys(f) /\ fsrefs[f] = 1)
  PROVE  /\ fsroot'[f] = fsroot[f] /\ fsroot[f] \in live /\ fsroot[f] \in live'
         /\ Len(at'[fsroot'[f]]) = Len(at[fsroot[f]])
<1>0. TypeOK
  BY DEF IInv
<1>1. f \in Fs /\ fsrefs[f] >= 1
  OBVIOUS
<1>2. fsroot[f] \in live /\ fsroot["main"] = Root
  BY <1>1, RootFacts
<1>3. ~ (todo[t] # <<>> /\ Head(todo[t]) = fsys(f) /\ fsrefs[f] = 1)
  OBVIOUS
<1>4. fsroot'[f] = fsroot[f]
  <2>1. CASE fsroot' = fsroot
    BY <2>1
  <2>2. CASE fs_subfs(t)
    <3>1. fsrefs["sub"] = 0 /\ fsroot' = [fsroot EXCEPT !["sub"] = cur(t)]
      BY <2>2 DEF fs_subfs
    <3> QED
      BY <1>0, <1>1, <3>1 DEF TypeOK
  <2>3. CASE unref_fs(t)
    <3>1. todo[t] # <<>> /\ Head(todo[t]).do = "fs"
      BY <2>3 DEF unref_fs, Doing
    <3>2. PICK g \in Fs : g = Head(todo[t]).fs /\ Head(todo[t]) = fsys(g)
      BY <3>1, HeadItem
    <3>3. fsroot' = fsroot \/ (fsrefs[g] = 1 /\ fsroot' = [fsroot EXCEPT ![g] = NoSlot])
      BY <2>3, <3>2 DEF unref_fs
    <3> QED
      BY <1>0, <1>1, <1>3, <3>1, <3>2, <3>3 DEF TypeOK
  <2> QED
    BY <2>1, <2>2, <2>3, Frames
<1>5. fsroot[f] \in live'
  <2>1. CASE f = "sub"
    BY <1>1, <2>1, InUseStays
  <2>2. CASE f = "main"
    <3>1. Root \in live /\ fsroot[f] = Root
      BY <1>2, <2>2
    <3>2. Root \in live'
      BY <1>3, <2>2, <3>1, WhatGoes
    <3> QED
      BY <3>1, <3>2
  <2> QED
    BY <1>1, <2>1, <2>2 DEF Fs
<1>6. at'[fsroot[f]] = at[fsroot[f]]
  BY <1>2, <1>5, Steady
<1> QED
  BY <1>1, <1>2, <1>4, <1>5, <1>6

\* A file system that calls are made on stays where it is.
LEMMA FilesSteady ==
  ASSUME IInv, NEW t \in Threads, Acts(t)
  PROVE  /\ \A u \in Threads : (InCall(u) \/ todo[u] # <<>>) /\ call[u].fs # "none" => call[u].fs \in owned'
         /\ \A f \in owned : /\ f \in Fs /\ fsroot'[f] = fsroot[f]
                             /\ fsroot[f] \in live /\ fsroot[f] \in live'
                             /\ Len(at'[fsroot'[f]]) = Len(at[fsroot[f]])
         /\ \A u \in Threads : u # t => handles'[u] \subseteq handles[u]
<1>0. TypeOK
  BY DEF IInv
<1>1. ASSUME NEW u \in Threads, InCall(u) \/ todo[u] # <<>>, call[u].fs # "none"
      PROVE  call[u].fs \in owned'
  <2>1. call[u].fs \in owned
    BY <1>1 DEF IInv, CallsInStep, CallInStep
  <2>2. CASE fs_subfs(t)
    BY <2>1, <2>2 DEF fs_subfs
  <2>3. CASE Leaves(t)
    <3>1. PICK f \in Fs : rm_fs(t, f)
      BY <2>3 DEF Leaves
    <3>2. owned' = owned \ {f} /\ (call[u].fs = f => At(u, "idle"))
      BY <3>1 DEF rm_fs
    <3>3. ~ At(u, "idle")
      BY <1>1 DEF At, InCall
    <3> QED
      BY <2>1, <3>2, <3>3
  <2>4. CASE owned' = owned
    BY <2>1, <2>4
  <2> QED
    BY <2>2, <2>3, <2>4, Frames
<1>2. ASSUME NEW f \in owned
      PROVE  /\ f \in Fs /\ fsroot'[f] = fsroot[f]
             /\ fsroot[f] \in live /\ fsroot[f] \in live'
             /\ Len(at'[fsroot'[f]]) = Len(at[fsroot[f]])
  <2>1. f \in Fs /\ fsrefs[f] >= 1
    BY <1>0, Positive DEF TypeOK, IInv
  <2>2. ~ (todo[t] # <<>> /\ Head(todo[t]) = fsys(f) /\ fsrefs[f] = 1)
    BY <2>1, LastOfFs
  <2> QED
    BY <2>1, <2>2, FsSteady
<1>3. ASSUME NEW u \in Threads, u # t PROVE handles'[u] \subseteq handles[u]
  <2>1. CASE fs_open(t)
    BY <1>0, <1>3, <2>1 DEF fs_open, TypeOK
  <2>2. CASE Closes(t)
    <3>1. PICK v \in Threads : \E h \in handles[v] : unref_file(t, v, h)
      BY <2>2 DEF Closes
    <3>2. PICK h \in handles[v] : unref_file(t, v, h)
      BY <3>1
    <3>3. handles' = [handles EXCEPT ![v] = @ \ {h}]
      BY <3>2 DEF unref_file
    <3> QED
      BY <1>0, <3>3 DEF TypeOK
  <2>3. CASE handles' = handles
    BY <2>3
  <2> QED
    BY <2>1, <2>2, <2>3, Frames
<1> QED
  BY <1>1, <1>2, <1>3

\* So does the node that a call has come to.
LEMMA InCallStays ==
  ASSUME IInv, NEW t \in Threads, Acts(t), NEW u \in Threads, InCall(u)
  PROVE  /\ call[u].fs \in Fs /\ call[u].fs \in owned' /\ call[u].fs # "none"
         /\ call[u].cur \in live' /\ call[u].cur \in live /\ call[u].cur \in Slots
         /\ at'[call[u].cur] = at[call[u].cur]
         /\ Len(at'[call[u].cur]) \in Nat /\ Len(at[call[u].cur]) = Len(at'[call[u].cur])
         /\ Len(at'[fsroot'[call[u].fs]]) \in Nat
         /\ Len(at'[fsroot'[call[u].fs]]) <= Len(at'[call[u].cur])
<1>0. TypeOK
  BY DEF IInv
<1>1. /\ call[u].fs \in Fs /\ call[u].fs \in owned
      /\ call[u].cur \in live /\ call[u].cur \in Slots
  BY CallFacts DEF cur
<1>2. call[u].fs # "none"
  BY <1>1 DEF Fs
<1>3. call[u].fs \in owned' /\ call[u].cur \in live'
  BY <1>2, FilesSteady, InUseStays DEF cur
<1>4. at'[call[u].cur] = at[call[u].cur]
  BY <1>1, <1>3, Steady
<1>5. Len(at[fsroot[call[u].fs]]) <= Len(at[call[u].cur])
  BY RootFacts DEF cur
<1>6. Len(at'[fsroot'[call[u].fs]]) = Len(at[fsroot[call[u].fs]]) /\ fsroot[call[u].fs] \in live
  BY <1>1, FilesSteady
<1>7. fsroot[call[u].fs] \in Slots
  BY <1>0, <1>6 DEF TypeOK
<1>8. Len(at[call[u].cur]) \in Nat /\ Len(at[fsroot[call[u].fs]]) \in Nat
  BY <1>0, <1>1, <1>7, PathTypes
<1> QED
  BY <1>1, <1>2, <1>3, <1>4, <1>5, <1>6, <1>8

\* The tables that other threads have looked at hold what they saw.
LEMMA KidsSeen ==
  ASSUME IInv, NEW t \in Threads, Acts(t), NEW u \in Threads, u # t
  PROVE  /\ pc[u] \in {"found", "new", "newfs"} =>
              <<Head(call[u].rest), call[u].nxt>> \in kids'[call[u].cur]
         /\ pc[u] = "miss" => kids'[call[u].cur] = kids[call[u].cur]
<1>0. TypeOK /\ kids \in [Slots -> SUBSET (STRING \X Slots)]
  BY DEF IInv, TypeOK
<1>1. CASE kids' = kids
  BY <1>1, NextFacts DEF cur
<1>2. CASE Load(t)
  <2>1. PICK n \in live : \E x \in STRING : \E s \in Slots \ live : Loads(t, n, x, s)
    BY <1>2, LoadFacts
  <2>2. PICK x \in STRING : \E s \in Slots \ live : Loads(t, n, x, s)
    BY <2>1
  <2>3. PICK s \in Slots \ live : Loads(t, n, x, s)
    BY <2>2
  <2>4. /\ n \in Slots /\ n = cur(t) /\ pc[t] = "miss"
        /\ kids' = [m \in Slots |-> IF m = s THEN {}
                                   ELSE IF m = n THEN kids[m] \cup {<<x, s>>} ELSE kids[m]]
    BY <2>3 DEF Loads
  <2>5. \A m \in Slots : m \in live => kids[m] \subseteq kids'[m] /\ (m # n => kids'[m] = kids[m])
    BY <2>3, <2>4
  <2>6. InCall(u) => call[u].cur \in live /\ call[u].cur \in Slots
    BY CallFacts DEF cur
  <2>7. pc[u] = "miss" => call[u].cur # n
    <3> SUFFICES ASSUME pc[u] = "miss", call[u].cur = n PROVE FALSE
      OBVIOUS
    <3>1. InDriver(t, n) /\ InDriver(u, n)
      BY <2>4 DEF InDriver, cur
    <3> QED
      BY <2>4, <3>1, OneHolder
  <2>8. CASE pc[u] \in {"found", "new", "newfs"}
    <3>1. InCall(u) /\ <<Head(call[u].rest), call[u].nxt>> \in kids[call[u].cur]
      BY <2>8, NextFacts DEF cur
    <3> QED
      BY <2>5, <2>6, <2>8, <3>1
  <2>9. CASE pc[u] = "miss"
    <3>1. InCall(u)
      BY <2>9 DEF InCall
    <3> QED
      BY <2>5, <2>6, <2>7, <2>9, <3>1
  <2> QED
    BY <2>8, <2>9
<1>3. CASE Unlink(t)
  <2>0. \E n \in live : \E p \in live : \E x \in STRING : Unlinks(t, n, p, x)
    BY <1>3, UnlinkFacts
  <2>0a. PICK n \in live : \E p \in live : \E x \in STRING : Unlinks(t, n, p, x)
    BY <2>0
  <2>0b. PICK p \in live : \E x \in STRING : Unlinks(t, n, p, x)
    BY <2>0a
  <2>0c. PICK x \in STRING : Unlinks(t, n, p, x)
    BY <2>0b
  <2>1. /\ n \in Slots /\ p \in Slots /\ refs[n] = 0 /\ Free(p)
        /\ kids' = [kids EXCEPT ![p] = @ \ {<<x, n>>}]
    BY <2>0c DEF Unlinks
  <2>2. kids'[p] = kids[p] \ {<<x, n>>} /\ \A m \in Slots : m # p => kids'[m] = kids[m]
    BY <1>0, <2>1
  <2>3. pc[u] \in {"found", "miss"} => call[u].cur # p
    <3> SUFFICES ASSUME pc[u] \in {"found", "miss"}, call[u].cur = p PROVE FALSE
      OBVIOUS
    <3>1. InDriver(u, p)
      BY DEF InDriver, cur
    <3> QED
      BY <2>1, <3>1, OneHolder
  <2>4. CASE pc[u] = "found" \/ pc[u] = "miss"
    <3>1. InCall(u)
      BY <2>4 DEF InCall
    <3>2. call[u].cur \in Slots
      BY <3>1, CallFacts DEF cur
    <3>3. kids'[call[u].cur] = kids[call[u].cur]
      BY <2>2, <2>3, <2>4, <3>2
    <3>4. pc[u] = "found" => <<Head(call[u].rest), call[u].nxt>> \in kids[call[u].cur]
      BY NextFacts DEF cur
    <3> QED
      BY <2>4, <3>3, <3>4
  <2>5. CASE pc[u] \in {"new", "newfs"}
    <3>1. InCall(u) /\ <<Head(call[u].rest), call[u].nxt>> \in kids[call[u].cur] /\ call[u].nxt \in live
      BY <2>5, NextFacts DEF cur
    <3>2. refs[call[u].nxt] >= 1
      BY <2>5, <3>1, Positive DEF IInv
    <3>3. <<Head(call[u].rest), call[u].nxt>> # <<x, n>>
      BY <2>1, <3>2
    <3>4. call[u].cur \in Slots
      BY <3>1, CallFacts DEF cur
    <3> QED
      BY <2>2, <2>5, <3>1, <3>3, <3>4
  <2> QED
    BY <2>4, <2>5
<1> QED
  BY <1>1, <1>2, <1>3, Frames

\* A call stays in step while its thread does nothing.
LEMMA OthersInStep ==
  ASSUME IInv, NEW t \in Threads, Acts(t), NEW u \in Threads, u # t
  PROVE  CallInStep(u)'
<1>0. TypeOK /\ CallInStep(u)
  BY DEF IInv, CallsInStep
<1>1. pc'[u] = pc[u] /\ call'[u] = call[u] /\ todo'[u] = todo[u]
  BY <1>0, OthersUnmoved
<1>2. (InCall(u) \/ todo[u] # <<>>) /\ call[u].fs # "none" => call[u].fs \in owned'
  BY FilesSteady
<1>3. ASSUME InCall(u)
      PROVE  /\ call[u].fs \in Fs /\ call[u].cur \in live'
             /\ Len(at'[fsroot'[call[u].fs]]) <= Len(at'[call[u].cur])
             /\ call[u].op = "subfs" => Len(at'[call[u].cur]) + Len(call[u].rest) >= 1
             /\ call[u].op = "open" => handles'[u] = {}
  <2>1. call[u].op = "subfs" => Len(at[call[u].cur]) + Len(call[u].rest) >= 1
    BY <1>0, <1>3 DEF CallInStep, Depth
  <2>2. call[u].op = "open" => handles[u] = {}
    BY <1>0, <1>3 DEF CallInStep
  <2>3. handles'[u] \subseteq handles[u]
    BY FilesSteady
  <2>4. call[u].fs \in Fs /\ call[u].cur \in live' /\ at'[call[u].cur] = at[call[u].cur]
        /\ Len(at'[fsroot'[call[u].fs]]) <= Len(at'[call[u].cur])
    BY <1>3, InCallStays
  <2> QED
    BY <2>1, <2>2, <2>3, <2>4
<1>4. /\ pc[u] \in {"found", "new", "newfs"} =>
           call[u].rest # <<>> /\ <<Head(call[u].rest), call[u].nxt>> \in kids'[call[u].cur]
      /\ pc[u] = "miss" =>
           call[u].rest # <<>> /\ {s \in Slots : <<Head(call[u].rest), s>> \in kids'[call[u].cur]} = {}
      /\ pc[u] = "opened" => call[u].op = "open"
  <2>1. pc[u] \in {"found", "new", "newfs"} => call[u].rest # <<>>
    BY <1>0 DEF CallInStep
  <2>2. pc[u] = "miss" =>
          call[u].rest # <<>> /\ {s \in Slots : <<Head(call[u].rest), s>> \in kids[call[u].cur]} = {}
    BY <1>0 DEF CallInStep, Child
  <2>3. pc[u] = "opened" => call[u].op = "open"
    BY <1>0 DEF CallInStep
  <2>4. /\ pc[u] \in {"found", "new", "newfs"} =>
             <<Head(call[u].rest), call[u].nxt>> \in kids'[call[u].cur]
        /\ pc[u] = "miss" => kids'[call[u].cur] = kids[call[u].cur]
    BY KidsSeen
  <2> QED
    BY <2>1, <2>2, <2>3, <2>4
<1>5. PICK c : c = call[u]
  OBVIOUS
<1>6. call'[u] = c /\ pc'[u] = pc[u] /\ todo'[u] = todo[u]
  BY <1>1, <1>5
<1>7. (pc[u] # "idle" \/ todo[u] # <<>>) /\ c.fs # "none" => c.fs \in owned'
  BY <1>2, <1>5 DEF InCall
<1>8. pc[u] # "idle" =>
        /\ c.fs \in Fs /\ c.cur \in live'
        /\ Len(at'[fsroot'[c.fs]]) <= Len(at'[c.cur])
        /\ c.op = "subfs" => Len(at'[c.cur]) + Len(c.rest) >= 1
        /\ c.op = "open" => handles'[u] = {}
  BY <1>3, <1>5 DEF InCall
<1>9. /\ pc[u] \in {"found", "new", "newfs"} =>
           c.rest # <<>> /\ <<Head(c.rest), c.nxt>> \in kids'[c.cur]
      /\ pc[u] = "miss" => c.rest # <<>> /\ {s \in Slots : <<Head(c.rest), s>> \in kids'[c.cur]} = {}
      /\ pc[u] = "opened" => c.op = "open"
  BY <1>4, <1>5
<1> QED
  BY <1>6, <1>7, <1>8, <1>9 DEF CallInStep, InCall, Depth, Child

\* The fields of a call.
LEMMA CallFields ==
  /\ \A op, f, n, m, r, x :
       LET c == Call(op, f, n, m, r, x) IN
       c.op = op /\ c.fs = f /\ c.cur = n /\ c.nxt = m /\ c.rest = r /\ c.last = x
  /\ \A c \in Calls : \A s :
       LET d == [c EXCEPT !.nxt = s] IN
       d.op = c.op /\ d.fs = c.fs /\ d.cur = c.cur /\ d.nxt = s /\ d.rest = c.rest /\ d.last = c.last
  /\ NoCall.fs = "none" /\ NoCall.cur = NoSlot /\ NoCall.op = "stat"
  BY DEF Call, Calls, NoCall

\* What a call c at p has to be for a thread t.
Fine(t, c) ==
  /\ c.fs \in Fs /\ c.cur \in live'
  /\ Len(at'[fsroot'[c.fs]]) <= Len(at'[c.cur])
  /\ c.op = "subfs" => Len(at'[c.cur]) + Len(c.rest) >= 1
  /\ c.op = "open" => handles'[t] = {}

\* What is to be shown of a call that a step has changed.
LEMMA InStepIf ==
  ASSUME NEW t \in Threads, NEW c, NEW p, call'[t] = c, pc'[t] = p,
         p # "idle" \/ todo'[t] # <<>> => c.fs = "none" \/ c.fs \in owned',
         p # "idle" => Fine(t, c),
         p \in {"found", "new", "newfs"} =>
           c.rest # <<>> /\ <<Head(c.rest), c.nxt>> \in kids'[c.cur],
         p = "miss" => c.rest # <<>> /\ {s \in Slots : <<Head(c.rest), s>> \in kids'[c.cur]} = {},
         p = "opened" => c.op = "open"
  PROVE  CallInStep(t)'
  BY DEF CallInStep, InCall, Depth, Child, Fine

\* A call that goes on with the same node.
LEMMA SameNode ==
  ASSUME IInv, NEW t \in Threads, Acts(t), InCall(t), NEW c,
         c.op = call[t].op, c.fs = call[t].fs, c.cur = call[t].cur, c.rest = call[t].rest,
         handles'[t] = handles[t]
  PROVE  c.fs \in owned' /\ Fine(t, c)
<1>1. CallInStep(t)
  BY DEF IInv, CallsInStep
<1>2. /\ call[t].op = "subfs" => Len(at[call[t].cur]) + Len(call[t].rest) >= 1
      /\ call[t].op = "open" => handles[t] = {}
  BY <1>1 DEF CallInStep, Depth
<1>3. /\ call[t].fs \in Fs /\ call[t].fs \in owned' /\ call[t].cur \in live'
      /\ at'[call[t].cur] = at[call[t].cur]
      /\ Len(at'[fsroot'[call[t].fs]]) <= Len(at'[call[t].cur])
  BY InCallStays
<1> QED
  BY <1>2, <1>3 DEF Fine

\* The calls that end.
LEMMA EndsInStep ==
  ASSUME IInv, NEW t \in Threads, Acts(t)
  PROVE  /\ Forget(t) \/ fs_open(t) \/ fs_subfs(t) \/ Closes(t) \/ Leaves(t) \/ Back(t) => CallInStep(t)'
<1>0. pc \in [Threads -> PCs] /\ call \in [Threads -> Calls]
  BY DEF IInv, TypeOK
<1>1. ASSUME call' = [call EXCEPT ![t] = NoCall], pc'[t] = "idle" PROVE CallInStep(t)'
  <2>1. call'[t] = NoCall
    BY <1>0, <1>1
  <2> QED
    BY <1>1, <2>1, CallFields, InStepIf
<1>2. \A p : pc' = [pc EXCEPT ![t] = p] => pc'[t] = p
  BY <1>0
<1>3. ASSUME Forget(t) \/ fs_open(t) \/ fs_subfs(t) PROVE CallInStep(t)'
  <2>1. call' = [call EXCEPT ![t] = NoCall] /\ pc' = [pc EXCEPT ![t] = "idle"]
    BY <1>3 DEF Forget, fs_open, fs_subfs, Goto
  <2> QED
    BY <1>1, <1>2, <2>1
<1>4. ASSUME NEW u \in Threads, NEW h \in handles[u], unref_file(t, u, h) PROVE CallInStep(t)'
  <2>1. call' = [call EXCEPT ![t] = NoCall] /\ pc'[t] = "idle"
    BY <1>4 DEF unref_file, At
  <2> QED
    BY <1>1, <2>1
<1>5. ASSUME NEW f \in Fs, rm_fs(t, f) PROVE CallInStep(t)'
  <2>1. call' = [call EXCEPT ![t] = NoCall] /\ pc'[t] = "idle"
    BY <1>5 DEF rm_fs, At
  <2> QED
    BY <1>1, <2>1
<1>6. ASSUME Back(t) PROVE CallInStep(t)'
  <2>1. InCall(t) /\ Return(t, cur(t))
    BY <1>6 DEF Back, InCall
  <2>2. pc' = [pc EXCEPT ![t] = "idle"]
        /\ call' = [call EXCEPT ![t] = Call("stat", @.fs, NoSlot, NoSlot, <<>>, "")]
    BY <2>1 DEF Return, Goto
  <2>3. PICK c : c = Call("stat", call[t].fs, NoSlot, NoSlot, <<>>, "")
    OBVIOUS
  <2>4. call'[t] = c /\ pc'[t] = "idle"
    BY <1>0, <2>2, <2>3
  <2>5. c.fs = call[t].fs
    BY <2>3 DEF Call
  <2>6. c.fs \in owned'
    BY <2>1, <2>5, InCallStays
  <2> QED
    BY <2>4, <2>6, InStepIf
<1> QED
  BY <1>3, <1>4, <1>5, <1>6 DEF Closes, Leaves

\* The calls that begin, or go on from another node.
LEMMA WalksInStep ==
  ASSUME IInv, NEW t \in Threads, Acts(t)
  PROVE  Begins(t) \/ Found(t) \/ NewFs(t) => CallInStep(t)'
<1>0. pc \in [Threads -> PCs] /\ call \in [Threads -> Calls] /\ TypeOK
  BY DEF IInv, TypeOK
<1>1. ASSUME NEW op \in Ops, NEW f \in Fs, NEW p \in Seq(STRING), Begin(t, op, f, p) PROVE CallInStep(t)'
  <2>1. /\ f \in owned /\ (op = "subfs" => p \in SubPaths) /\ (op = "open" => handles[t] = {})
        /\ pc' = [pc EXCEPT ![t] = "walk"] /\ fsroot' = fsroot /\ owned' = owned /\ handles' = handles
        /\ at' = at
    BY <1>1 DEF Begin, Goto, fvars
  <2>2. fsroot[f] \in live' /\ fsroot[f] \in Slots
    BY <1>0, <2>1, FilesSteady DEF TypeOK
  <2>3. \E r, x : (op = "subfs" => r = p) /\ call' = [call EXCEPT ![t] = Call(op, f, fsroot[f], NoSlot, r, x)]
    <3>1. CASE op \in {"create", "delete"}
      <4>1. call' = [call EXCEPT ![t] = Call(op, f, fsroot[f], NoSlot, Front(p), p[Len(p)])]
        BY <1>1, <3>1 DEF Begin
      <4>2. op # "subfs"
        BY <3>1
      <4> QED
        BY <4>1, <4>2
    <3>2. CASE op \notin {"create", "delete"}
      <4>1. call' = [call EXCEPT ![t] = Call(op, f, fsroot[f], NoSlot, p, "")]
        BY <1>1, <3>2 DEF Begin
      <4> QED
        BY <4>1
    <3> QED
      BY <3>1, <3>2
  <2>4. PICK r, x : (op = "subfs" => r = p) /\ call' = [call EXCEPT ![t] = Call(op, f, fsroot[f], NoSlot, r, x)]
    BY <2>3
  <2>5. PICK c : c = Call(op, f, fsroot[f], NoSlot, r, x)
    OBVIOUS
  <2>6. call'[t] = c /\ pc'[t] = "walk"
    BY <1>0, <2>1, <2>4, <2>5
  <2>7. c.op = op /\ c.fs = f /\ c.cur = fsroot[f] /\ c.rest = r
    BY <2>5, CallFields
  <2>8. Len(at[fsroot[f]]) \in Nat
    BY <1>0, <2>2, PathTypes
  <2>9. op = "subfs" => Len(at[fsroot[f]]) + Len(r) >= 1
    <3> SUFFICES ASSUME op = "subfs" PROVE Len(at[fsroot[f]]) + Len(p) >= 1
      BY <2>4
    <3>1. p \in Seq(STRING) /\ p # <<>>
      BY <2>1, VfsAssumption, SubfsNotOfRoot
    <3>2. Len(p) \in Nat /\ Len(p) # 0
      BY <3>1
    <3> QED
      BY <2>8, <3>2
  <2>10. Fine(t, c)
    BY <2>1, <2>2, <2>7, <2>8, <2>9 DEF Fine
  <2> QED
    BY <2>1, <2>6, <2>7, <2>10, InStepIf
<1>2. ASSUME Found(t) \/ NewFs(t) PROVE CallInStep(t)'
  <2>1. Step(t)
    BY <1>2 DEF Found, NewFs
  <2>2. pc[t] \in {"found", "newfs"} /\ live' = live /\ at' = at /\ handles' = handles
    BY <1>2 DEF Found, NewFs, At, nvars, fvars
  <2>3. /\ pc' = [pc EXCEPT ![t] = "walk"]
        /\ call' = [call EXCEPT ![t] = Call(@.op, @.fs, @.nxt, NoSlot, Tail(@.rest), @.last)]
    BY <2>1 DEF Step, Goto
  <2>4. PICK c : c = Call(call[t].op, call[t].fs, call[t].nxt, NoSlot, Tail(call[t].rest), call[t].last)
    OBVIOUS
  <2>5. call'[t] = c /\ pc'[t] = "walk"
    BY <1>0, <2>3, <2>4
  <2>6. c.op = call[t].op /\ c.fs = call[t].fs /\ c.cur = call[t].nxt /\ c.rest = Tail(call[t].rest)
    BY <2>4, CallFields
  <2>7. /\ InCall(t) /\ call[t].rest # <<>> /\ call[t].nxt \in live
        /\ Len(at[call[t].cur]) \in Nat /\ Len(at[call[t].nxt]) = Len(at[call[t].cur]) + 1
    BY <2>2, NextFacts DEF cur
  <2>8. /\ call[t].fs \in Fs /\ call[t].fs \in owned'
        /\ Len(at'[fsroot'[call[t].fs]]) \in Nat
        /\ Len(at'[fsroot'[call[t].fs]]) <= Len(at'[call[t].cur])
        /\ Len(at[call[t].cur]) = Len(at'[call[t].cur])
    BY <2>7, InCallStays
  <2>9. Len(Tail(call[t].rest)) \in Nat
    <3>1. call[t].rest \in Seq(STRING)
      BY <1>0, ThreadTypes
    <3>2. PICK q \in Seq(STRING) : q = call[t].rest
      BY <3>1
    <3>2a. q # <<>>
      BY <2>7, <3>2
    <3>3. Tail(q) \in Seq(STRING)
      BY <3>2a
    <3>4. Len(Tail(q)) \in Nat
      BY <3>3
    <3> QED
      BY <3>2, <3>4
  <2>10. call[t].op = "open" => handles[t] = {}
    BY <2>7 DEF IInv, CallsInStep, CallInStep
  <2>11. Fine(t, c)
    <3>1. PICK N \in Nat : N = Len(at[call[t].cur])
      BY <2>7
    <3>2. PICK M \in Nat : M = Len(Tail(call[t].rest))
      BY <2>9
    <3>3. Len(at'[c.cur]) = N + 1
      BY <2>2, <2>6, <2>7, <3>1
    <3>4. Len(at'[fsroot'[c.fs]]) <= N + 1
      BY <2>6, <2>8, <3>1
    <3>5. Len(at'[c.cur]) + Len(c.rest) >= 1
      BY <2>6, <3>2, <3>3
    <3> QED
      BY <2>2, <2>6, <2>7, <2>8, <2>10, <3>3, <3>4, <3>5 DEF Fine
  <2> QED
    BY <2>5, <2>6, <2>8, <2>11, InStepIf
<1> QED
  BY <1>1, <1>2 DEF Begins

\* The calls that stay with their node.
LEMMA StaysInStep ==
  ASSUME IInv, NEW t \in Threads, Acts(t)
  PROVE  \/ Look(t) \/ Load(t) \/ NewParent(t) \/ DeleteLooked(t) \/ LockNode(t) \/ OpenOk(t)
         \/ UnrefNode(t) \/ LastRef(t) \/ Unlink(t) \/ FreeNode(t) \/ unref_fs(t)
         => CallInStep(t)'
<1>0. pc \in [Threads -> PCs] /\ call \in [Threads -> Calls] /\ TypeOK
  BY DEF IInv, TypeOK
<1>1. \A p : pc' = [pc EXCEPT ![t] = p] => pc'[t] = p
  BY <1>0
<1>2. ASSUME Look(t) PROVE CallInStep(t)'
  <2>1. pc[t] = "walk" /\ InCall(t) /\ call[t].rest # <<>> /\ kids' = kids /\ handles' = handles
    BY <1>2 DEF Look, At, InCall, fvars
  <2>2. CASE Child(cur(t), Head(call[t].rest)) = {}
    <3>1. pc' = [pc EXCEPT ![t] = "miss"] /\ call' = call
      BY <1>2, <2>2 DEF Look, Goto
    <3>2. PICK c : c = call[t]
      OBVIOUS
    <3>3. call'[t] = c /\ pc'[t] = "miss"
      BY <1>1, <3>1, <3>2
    <3>4. c.fs \in owned' /\ Fine(t, c)
      BY <2>1, <3>2, SameNode
    <3>5. c.rest # <<>> /\ {s \in Slots : <<Head(c.rest), s>> \in kids'[c.cur]} = {}
      BY <2>1, <2>2, <3>2 DEF Child, cur
    <3> QED
      BY <3>3, <3>4, <3>5, InStepIf
  <2>3. CASE Child(cur(t), Head(call[t].rest)) # {}
    <3>1. \E s \in Child(cur(t), Head(call[t].rest)) : Goto(t, "found") /\ call' = [call EXCEPT ![t].nxt = s]
      BY <1>2, <2>3 DEF Look
    <3>2. PICK s : /\ <<Head(call[t].rest), s>> \in kids[cur(t)]
                   /\ pc' = [pc EXCEPT ![t] = "found"] /\ call' = [call EXCEPT ![t].nxt = s]
      BY <3>1 DEF Child, Goto
    <3>3. PICK c : c = [call[t] EXCEPT !.nxt = s]
      OBVIOUS
    <3>4. call'[t] = c /\ pc'[t] = "found"
      BY <1>0, <1>1, <3>2, <3>3
    <3>5. call[t] \in Calls
      BY <1>0
    <3>6. c.op = call[t].op /\ c.fs = call[t].fs /\ c.cur = call[t].cur /\ c.rest = call[t].rest /\ c.nxt = s
      BY <3>3, <3>5, CallFields
    <3>7. c.fs \in owned' /\ Fine(t, c)
      BY <2>1, <3>6, SameNode
    <3>8. c.rest # <<>> /\ <<Head(c.rest), c.nxt>> \in kids'[c.cur]
      BY <2>1, <3>2, <3>6 DEF cur
    <3> QED
      BY <3>4, <3>7, <3>8, InStepIf
  <2> QED
    BY <2>2, <2>3
<1>3. ASSUME Load(t) PROVE CallInStep(t)'
  <2>1. PICK n \in live : \E x \in STRING : \E s \in Slots \ live : Loads(t, n, x, s)
    BY <1>3, LoadFacts
  <2>2. PICK x \in STRING : \E s \in Slots \ live : Loads(t, n, x, s)
    BY <2>1
  <2>3. PICK s \in Slots \ live : Loads(t, n, x, s)
    BY <2>2
  <2>4. /\ n \in Slots /\ n = cur(t) /\ InCall(t) /\ x = Head(call[t].rest) /\ call[t].rest # <<>>
        /\ pc' = [pc EXCEPT ![t] = "new"] /\ call' = [call EXCEPT ![t].nxt = s]
        /\ kids' = [m \in Slots |-> IF m = s THEN {}
                                   ELSE IF m = n THEN kids[m] \cup {<<x, s>>} ELSE kids[m]]
    BY <2>3 DEF Loads
  <2>5. handles' = handles
    BY <1>3 DEF Load, fvars
  <2>6. PICK c : c = [call[t] EXCEPT !.nxt = s]
    OBVIOUS
  <2>7. call'[t] = c /\ pc'[t] = "new"
    BY <1>0, <1>1, <2>4, <2>6
  <2>8. call[t] \in Calls
    BY <1>0
  <2>9. c.op = call[t].op /\ c.fs = call[t].fs /\ c.cur = call[t].cur /\ c.rest = call[t].rest /\ c.nxt = s
    BY <2>6, <2>8, CallFields
  <2>10. c.fs \in owned' /\ Fine(t, c)
    BY <2>4, <2>5, <2>9, SameNode
  <2>11. <<x, s>> \in kids'[n]
    BY <2>3, <2>4
  <2>12. c.rest # <<>> /\ <<Head(c.rest), c.nxt>> \in kids'[c.cur]
    BY <2>4, <2>9, <2>11 DEF cur
  <2> QED
    BY <2>7, <2>10, <2>12, InStepIf
<1>4. ASSUME NewParent(t) PROVE CallInStep(t)'
  <2>1. pc[t] = "new" /\ pc' = [pc EXCEPT ![t] = "newfs"] /\ call' = call /\ kids' = kids /\ handles' = handles
    BY <1>4 DEF NewParent, At, Goto, fvars
  <2>2. InCall(t) /\ call[t].rest # <<>> /\ <<Head(call[t].rest), call[t].nxt>> \in kids[call[t].cur]
    BY <2>1, NextFacts DEF cur
  <2>3. PICK c : c = call[t]
    OBVIOUS
  <2>4. call'[t] = c /\ pc'[t] = "newfs"
    BY <1>1, <2>1, <2>3
  <2>5. c.fs \in owned' /\ Fine(t, c)
    BY <2>1, <2>2, <2>3, SameNode
  <2>6. c.rest # <<>> /\ <<Head(c.rest), c.nxt>> \in kids'[c.cur]
    BY <2>1, <2>2, <2>3
  <2> QED
    BY <2>4, <2>5, <2>6, InStepIf
<1>5. ASSUME DeleteLooked(t) \/ LockNode(t) \/ OpenOk(t) PROVE CallInStep(t)'
  <2>1. InCall(t) /\ call' = call /\ handles' = handles
    BY <1>5 DEF DeleteLooked, LockNode, OpenOk, Arrived, Driver, At, InCall, fvars
  <2>2. /\ DeleteLooked(t) => pc' = [pc EXCEPT ![t] = "at"]
        /\ LockNode(t) => pc' = [pc EXCEPT ![t] = "locked"]
        /\ OpenOk(t) => pc' = [pc EXCEPT ![t] = "opened"] /\ call[t].op = "open"
    BY DEF DeleteLooked, LockNode, OpenOk, Driver, Goto
  <2>3. PICK c : c = call[t]
    OBVIOUS
  <2>4. PICK p : p = pc'[t]
    OBVIOUS
  <2>5. p \in {"at", "locked"} \/ (p = "opened" /\ c.op = "open")
    BY <1>1, <1>5, <2>2, <2>3, <2>4
  <2>6. call'[t] = c /\ pc'[t] = p
    BY <2>1, <2>3, <2>4
  <2>7. c.fs \in owned' /\ Fine(t, c)
    BY <2>1, <2>3, SameNode
  <2> QED
    BY <2>5, <2>6, <2>7, InStepIf
<1>6. ASSUME UnrefNode(t) \/ LastRef(t) \/ Unlink(t) \/ FreeNode(t) \/ unref_fs(t) PROVE CallInStep(t)'
  <2>1. pc' = pc /\ call' = call
    BY <1>6, Frames
  <2>2. todo[t] # <<>> /\ handles' = handles
    BY <1>6 DEF UnrefNode, LastRef, Unlink, FreeNode, unref_fs, Doing, fvars
  <2>3. pc[t] \in {"idle", "walk"}
    BY <2>2, HeadItem
  <2>4. PICK c : c = call[t]
    OBVIOUS
  <2>5. call'[t] = c /\ pc'[t] = pc[t]
    BY <2>1, <2>4
  <2>6. c.fs = "none" \/ c.fs \in owned'
    BY <2>2, <2>4, FilesSteady
  <2>7. pc[t] # "idle" => Fine(t, c)
    BY <2>2, <2>4, SameNode DEF InCall
  <2> QED
    BY <2>3, <2>5, <2>6, <2>7, InStepIf
<1> QED
  BY <1>2, <1>3, <1>4, <1>5, <1>6

\* Calls stay in step, and a node is loaded by one.
LEMMA CallsKept ==
  ASSUME IInv, NEW t \in Threads, Acts(t)
  PROVE  CallsInStep'
<1>1. CallInStep(t)'
  BY EndsInStep, WalksInStep, StaysInStep DEF Acts, Begins, Closes, Leaves
<1>2. \A u \in Threads : u # t => CallInStep(u)'
  BY OthersInStep
<1> QED
  BY <1>1, <1>2 DEF CallsInStep

\* When a thread is loading a node after a step, it was before or the node is new.
LEMMA LoadingAfter ==
  ASSUME IInv, NEW t \in Threads, Acts(t)
  PROVE  /\ pc'[t] \in {"new", "newfs"} =>
              \/ Load(t) /\ pc'[t] = "new" /\ call'[t].nxt \in live' \ live
              \/ NewParent(t) /\ pc[t] = "new" /\ pc'[t] = "newfs" /\ call'[t].nxt = call[t].nxt
         /\ pc[t] \in {"new", "newfs"} => NewParent(t) \/ NewFs(t)
<1>0. pc \in [Threads -> PCs] /\ call \in [Threads -> Calls] /\ TypeOK
  BY DEF IInv, TypeOK
<1>1. \A p : pc' = [pc EXCEPT ![t] = p] => pc'[t] = p
  BY <1>0
<1>2. ASSUME Load(t)
      PROVE  pc'[t] = "new" /\ call'[t].nxt \in live' \ live /\ pc[t] = "miss"
  <2>1. PICK n \in live : \E x \in STRING : \E s \in Slots \ live : Loads(t, n, x, s)
    BY <1>2, LoadFacts
  <2>2. PICK x \in STRING : \E s \in Slots \ live : Loads(t, n, x, s)
    BY <2>1
  <2>3. PICK s \in Slots \ live : Loads(t, n, x, s)
    BY <2>2
  <2>4. /\ pc' = [pc EXCEPT ![t] = "new"] /\ call' = [call EXCEPT ![t].nxt = s] /\ live' = live \cup {s}
        /\ pc[t] = "miss"
    BY <2>3 DEF Loads
  <2>5. call'[t] = [call[t] EXCEPT !.nxt = s] /\ call[t] \in Calls
    BY <1>0, <2>4
  <2>6. call'[t].nxt = s
    BY <2>5, CallFields
  <2> QED
    <3>1. s \in live' /\ s \notin live
      BY <2>3, <2>4
    <3> QED
      BY <1>1, <2>4, <2>6, <3>1
<1>3. ASSUME NewParent(t)
      PROVE  pc[t] = "new" /\ pc'[t] = "newfs" /\ call'[t].nxt = call[t].nxt
  <2>1. pc[t] = "new" /\ pc' = [pc EXCEPT ![t] = "newfs"] /\ call' = call
    BY <1>3 DEF NewParent, At, Goto
  <2> QED
    BY <1>1, <2>1
<1>4. ASSUME Begins(t) \/ Found(t) \/ NewFs(t)
      PROVE  pc'[t] = "walk" /\ (NewFs(t) \/ pc[t] \notin {"new", "newfs"})
  <2>1. Found(t) => pc[t] = "found" /\ pc' = [pc EXCEPT ![t] = "walk"]
    BY DEF Found, Step, At, Goto
  <2>2. NewFs(t) => pc' = [pc EXCEPT ![t] = "walk"]
    BY DEF NewFs, Step, Goto
  <2>3. ASSUME NEW op \in Ops, NEW f \in Fs, NEW p \in Seq(STRING), Begin(t, op, f, p)
        PROVE  pc[t] = "idle" /\ pc' = [pc EXCEPT ![t] = "walk"]
    BY <2>3 DEF Begin, At, Goto
  <2> QED
    BY <1>1, <1>4, <2>1, <2>2, <2>3 DEF Begins
<1>5. ASSUME Look(t) \/ DeleteLooked(t) \/ LockNode(t) \/ OpenOk(t)
      PROVE  pc'[t] \in {"miss", "found", "at", "locked", "opened"} /\ pc[t] \in {"walk", "at", "locked"}
  <2>1. Look(t) => pc[t] = "walk" /\ (pc' = [pc EXCEPT ![t] = "miss"] \/ pc' = [pc EXCEPT ![t] = "found"])
    BY DEF Look, At, Goto
  <2>2. DeleteLooked(t) => pc[t] = "walk" /\ pc' = [pc EXCEPT ![t] = "at"]
    BY DEF DeleteLooked, Arrived, At, Goto
  <2>3. LockNode(t) => pc[t] \in {"walk", "at"} /\ pc' = [pc EXCEPT ![t] = "locked"]
    BY DEF LockNode, Arrived, At, Goto
  <2>4. OpenOk(t) => pc[t] = "locked" /\ pc' = [pc EXCEPT ![t] = "opened"]
    BY DEF OpenOk, Driver, At, Goto
  <2> QED
    BY <1>1, <1>5, <2>1, <2>2, <2>3, <2>4
<1>6. ASSUME Back(t) \/ Forget(t) \/ fs_open(t) \/ fs_subfs(t)
      PROVE  pc'[t] = "idle" /\ pc[t] \in {"miss", "walk", "opened", "locked"}
  <2>1. Back(t) => pc[t] \in {"miss", "locked"} /\ pc' = [pc EXCEPT ![t] = "idle"]
    <3>1. Back(t) => pc[t] \in {"miss", "locked"} /\ Return(t, cur(t))
      BY DEF Back
    <3> QED
      BY <3>1 DEF Return, Goto
  <2>2. Forget(t) => pc[t] = "walk" /\ pc' = [pc EXCEPT ![t] = "idle"]
    BY DEF Forget, At, Goto
  <2>3. fs_open(t) => pc[t] = "opened" /\ pc' = [pc EXCEPT ![t] = "idle"]
    BY DEF fs_open, At, Goto
  <2>4. fs_subfs(t) => pc[t] = "walk" /\ pc' = [pc EXCEPT ![t] = "idle"]
    BY DEF fs_subfs, Arrived, At, Goto
  <2> QED
    BY <1>1, <1>6, <2>1, <2>2, <2>3, <2>4
<1>7. ASSUME Closes(t) \/ Leaves(t) PROVE pc'[t] = "idle" /\ pc[t] = "idle"
  <2>1. ASSUME NEW u \in Threads, NEW h \in handles[u], unref_file(t, u, h)
        PROVE  pc[t] = "idle" /\ pc' = pc
    BY <2>1 DEF unref_file, At
  <2>2. ASSUME NEW f \in Fs, rm_fs(t, f) PROVE pc[t] = "idle" /\ pc' = pc
    BY <2>2 DEF rm_fs, At
  <2>3. Closes(t) => pc[t] = "idle" /\ pc' = pc
    BY <2>1 DEF Closes
  <2>4. Leaves(t) => pc[t] = "idle" /\ pc' = pc
    BY <2>2 DEF Leaves
  <2> QED
    BY <1>7, <2>3, <2>4
<1>8. ASSUME UnrefNode(t) \/ LastRef(t) \/ Unlink(t) \/ FreeNode(t) \/ unref_fs(t)
      PROVE  pc'[t] = pc[t] /\ pc[t] \in {"idle", "walk"}
  <2>1. pc' = pc
    BY <1>8, Frames
  <2>2. todo[t] # <<>>
    BY <1>8 DEF UnrefNode, LastRef, Unlink, FreeNode, unref_fs, Doing
  <2> QED
    BY <2>1, <2>2, HeadItem
<1>9. Acts(t)
  OBVIOUS
<1> QED
  BY <1>2, <1>3, <1>4, <1>5, <1>6, <1>7, <1>8, <1>9 DEF Acts, Begins, Closes, Leaves

\* Every step keeps LoadedByOne.
LEMMA LoadedByOneKept ==
  ASSUME IInv, NEW t \in Threads, Acts(t)
  PROVE  LoadedByOne'
<1>0. TypeOK /\ LoadedByOne
  BY DEF IInv
<1>1. \A u \in Threads : u # t => pc'[u] = pc[u] /\ call'[u] = call[u]
  BY <1>0, OthersUnmoved
<1>2. ASSUME NEW u \in Threads, u # t, pc[u] \in {"new", "newfs"},
             pc'[t] \in {"new", "newfs"}, call'[t].nxt = call[u].nxt
      PROVE  FALSE
  <2>1. call[u].nxt \in live
    BY <1>2, NextFacts
  <2>2. pc[t] = "new" /\ call[t].nxt = call[u].nxt
    BY <1>2, <2>1, LoadingAfter
  <2> QED
    BY <1>0, <1>2, <2>2 DEF LoadedByOne
<1> QED
  BY <1>0, <1>1, <1>2 DEF LoadedByOne

-----------------------------------------------------------------------------
(***************************************************************************)
(* Handles and file systems.                                               *)
(***************************************************************************)

\* Open nodes stay below the root of their file system.
LEMMA HandlesKept ==
  ASSUME IInv, NEW t \in Threads, Acts(t)
  PROVE  HandlesPlaced'
<1>0. TypeOK /\ HandlesPlaced
  BY DEF IInv
<1>1. ASSUME NEW u \in Threads, NEW h \in handles[u]
      PROVE  h[2] \in live' /\ Len(at'[fsroot'[h[1]]]) <= Len(at'[h[2]])
  <2>1. h[1] \in Fs /\ h[2] \in Slots /\ h = <<h[1], h[2]>>
    BY <1>0 DEF TypeOK
  <2>2. h[2] \in live /\ Len(at[fsroot[h[1]]]) <= Len(at[h[2]])
    BY <1>0 DEF HandlesPlaced, Depth
  <2>3. h[2] \in live'
    BY InUseStays
  <2>4. PICK f \in Fs : f = h[1]
    BY <2>1
  <2>5. PICK m \in Slots : m = h[2]
    BY <2>1
  <2>6. <<f, m>> \in handles[u]
    BY <2>1, <2>4, <2>5
  <2>7. fsrefs[f] >= 1
    BY <2>6, Positive DEF IInv
  <2>8. ~ (todo[t] # <<>> /\ Head(todo[t]) = fsys(f) /\ fsrefs[f] = 1)
    BY <2>6, LastOfFs
  <2>9. Len(at'[fsroot'[f]]) = Len(at[fsroot[f]])
    BY <2>7, <2>8, FsSteady
  <2>10. at'[h[2]] = at[h[2]]
    BY <2>2, <2>3, Steady
  <2> QED
    BY <2>2, <2>3, <2>4, <2>9, <2>10
<1>2. CASE handles' = handles
  BY <1>1, <1>2 DEF HandlesPlaced, Depth
<1>3. CASE Closes(t)
  <2>1. PICK v \in Threads : \E h \in handles[v] : unref_file(t, v, h)
    BY <1>3 DEF Closes
  <2>2. PICK h \in handles[v] : unref_file(t, v, h)
    BY <2>1
  <2>3. handles' = [handles EXCEPT ![v] = @ \ {h}]
    BY <2>2 DEF unref_file
  <2>4. \A u \in Threads : handles'[u] \subseteq handles[u]
    BY <1>0, <2>3 DEF TypeOK
  <2> QED
    BY <1>1, <2>4 DEF HandlesPlaced, Depth
<1>4. CASE fs_open(t)
  <2>1. /\ pc[t] = "opened"
        /\ handles' = [handles EXCEPT ![t] = @ \cup {<<call[t].fs, cur(t)>>}]
    BY <1>4 DEF fs_open, At
  <2>2. /\ call[t].cur \in live'
        /\ Len(at'[fsroot'[call[t].fs]]) <= Len(at'[call[t].cur])
    BY <2>1, InCallStays DEF InCall
  <2>3. PICK f : f = call[t].fs
    OBVIOUS
  <2>4. PICK n : n = call[t].cur
    OBVIOUS
  <2>5. \A u \in Threads : \A h \in handles'[u] : h \in handles[u] \/ h = <<f, n>>
    BY <1>0, <2>1, <2>3, <2>4 DEF TypeOK, cur
  <2>6. <<f, n>>[1] = f /\ <<f, n>>[2] = n
    OBVIOUS
  <2>7. n \in live' /\ Len(at'[fsroot'[f]]) <= Len(at'[n])
    BY <2>2, <2>3, <2>4
  <2>8. ASSUME NEW u \in Threads, NEW h \in handles'[u]
        PROVE  h[2] \in live' /\ Len(at'[fsroot'[h[1]]]) <= Len(at'[h[2]])
    <3>1. CASE h \in handles[u]
      BY <1>1, <3>1
    <3>2. CASE h = <<f, n>>
      BY <2>6, <2>7, <3>2
    <3> QED
      BY <2>5, <3>1, <3>2
  <2> QED
    BY <2>8 DEF HandlesPlaced, Depth
<1> QED
  BY <1>2, <1>3, <1>4, Frames

\* What a step does to the counts of the file systems.
LEMMA FsMoves ==
  ASSUME IInv, NEW t \in Threads, Acts(t)
  PROVE  /\ NewFs(t) => /\ fsrefs' = [fsrefs EXCEPT !["main"] = @ + 1] /\ fsrefs["main"] >= 1
                        /\ live' = live /\ fsroot' = fsroot
         /\ fs_open(t) => \E f \in Fs : /\ f = call[t].fs /\ fsrefs' = [fsrefs EXCEPT ![f] = @ + 1]
                                        /\ fsrefs[f] >= 1 /\ live' = live /\ fsroot' = fsroot
         /\ fs_subfs(t) => /\ fsrefs' = [fsrefs EXCEPT !["sub"] = 1] /\ fsrefs["sub"] = 0
                           /\ fsroot' = [fsroot EXCEPT !["sub"] = cur(t)]
                           /\ InCall(t) /\ live' = live /\ at' = at /\ Len(at[cur(t)]) >= 1
         /\ unref_fs(t) => \E f \in Fs :
              /\ todo[t] # <<>> /\ Head(todo[t]) = fsys(f)
              /\ fsrefs' = [fsrefs EXCEPT ![f] = @ - 1] /\ fsrefs[f] >= 1
              /\ IF f = "main" /\ fsrefs[f] = 1
                 THEN live' = live \ {Root} /\ UNCHANGED fsroot
                 ELSE UNCHANGED live /\ fsroot' = IF fsrefs[f] = 1
                                                  THEN [fsroot EXCEPT ![f] = NoSlot] ELSE fsroot
<1>1. ASSUME NewFs(t)
      PROVE  /\ fsrefs' = [fsrefs EXCEPT !["main"] = @ + 1] /\ fsrefs["main"] >= 1
             /\ live' = live /\ fsroot' = fsroot
  <2>1. InCall(t)
    BY <1>1 DEF NewFs, At, InCall
  <2>2. fsrefs["main"] >= 1
    BY <2>1, MainThere
  <2> QED
    BY <1>1, <2>2 DEF NewFs, nvars
<1>2. ASSUME fs_open(t)
      PROVE  \E f \in Fs : /\ f = call[t].fs /\ fsrefs' = [fsrefs EXCEPT ![f] = @ + 1]
                           /\ fsrefs[f] >= 1 /\ live' = live /\ fsroot' = fsroot
  <2>1. InCall(t)
    BY <1>2 DEF fs_open, At, InCall
  <2>2. call[t].fs \in Fs /\ fsrefs[call[t].fs] >= 1
    BY <2>1, CallFacts
  <2> QED
    BY <1>2, <2>2 DEF fs_open, nvars
<1>3. ASSUME fs_subfs(t)
      PROVE  /\ fsrefs' = [fsrefs EXCEPT !["sub"] = 1] /\ fsrefs["sub"] = 0
             /\ fsroot' = [fsroot EXCEPT !["sub"] = cur(t)]
             /\ InCall(t) /\ live' = live /\ at' = at /\ Len(at[cur(t)]) >= 1
  <2>1. InCall(t) /\ call[t].op = "subfs" /\ call[t].rest = <<>>
    BY <1>3 DEF fs_subfs, Arrived, At, InCall
  <2>2. Len(at[call[t].cur]) + Len(call[t].rest) >= 1 /\ cur(t) = call[t].cur
    BY <2>1 DEF IInv, CallsInStep, CallInStep, Depth, cur
  <2>3. Len(at[call[t].cur]) \in Nat
    BY <2>1, InCallStays
  <2>4. Len(call[t].rest) = 0
    BY <2>1
  <2> QED
    BY <1>3, <2>1, <2>2, <2>3, <2>4 DEF fs_subfs, nvars
<1>4. ASSUME unref_fs(t)
      PROVE  \E f \in Fs :
              /\ todo[t] # <<>> /\ Head(todo[t]) = fsys(f)
              /\ fsrefs' = [fsrefs EXCEPT ![f] = @ - 1] /\ fsrefs[f] >= 1
              /\ IF f = "main" /\ fsrefs[f] = 1
                 THEN live' = live \ {Root} /\ UNCHANGED fsroot
                 ELSE UNCHANGED live /\ fsroot' = IF fsrefs[f] = 1
                                                  THEN [fsroot EXCEPT ![f] = NoSlot] ELSE fsroot
  <2>1. todo[t] # <<>> /\ Head(todo[t]).do = "fs"
    BY <1>4 DEF unref_fs, Doing
  <2>2. /\ Head(todo[t]) = fsys(Head(todo[t]).fs) /\ Head(todo[t]).fs \in Fs
        /\ fsrefs[Head(todo[t]).fs] \in Nat \ {0}
    BY <2>1, HeadItem
  <2>3. PICK f \in Fs : f = Head(todo[t]).fs
    BY <2>2
  <2>4. fsrefs[f] >= 1 /\ Head(todo[t]) = fsys(f)
    BY <2>2, <2>3
  <2> QED
    BY <1>4, <2>1, <2>3, <2>4 DEF unref_fs
<1> QED
  BY <1>1, <1>2, <1>3, <1>4

\* Roots stay in place.
LEMMA FsKept ==
  ASSUME IInv, NEW t \in Threads, Acts(t), TypeOK'
  PROVE  FsPlaced'
<1>0. TypeOK /\ FsPlaced /\ fsrefs \in [Fs -> Nat] /\ fsroot \in [Fs -> Slots \cup {NoSlot}]
  BY DEF IInv, TypeOK
<1>0a. "main" \in Fs /\ "sub" \in Fs
  BY DEF Fs
<1>1. fsroot'["main"] = Root
  <2>1. fsroot["main"] = Root
    BY <1>0 DEF FsPlaced
  <2>2. CASE fs_subfs(t)
    BY <1>0, <1>0a, <2>1, <2>2, FsMoves
  <2>3. CASE unref_fs(t)
    <3>1. PICK f \in Fs :
              IF f = "main" /\ fsrefs[f] = 1
              THEN live' = live \ {Root} /\ UNCHANGED fsroot
              ELSE UNCHANGED live /\ fsroot' = IF fsrefs[f] = 1
                                               THEN [fsroot EXCEPT ![f] = NoSlot] ELSE fsroot
      BY <2>3, FsMoves
    <3> QED
      BY <1>0, <1>0a, <2>1, <3>1
  <2> QED
    BY <2>1, <2>2, <2>3, Frames
<1>2. Root \in live' <=> fsrefs'["main"] > 0
  <2>1. Root \in live <=> fsrefs["main"] > 0
    BY <1>0 DEF FsPlaced
  <2>2. CASE NewFs(t)
    BY <1>0, <1>0a, <2>1, <2>2, FsMoves
  <2>3. CASE fs_open(t)
    BY <1>0, <1>0a, <2>1, <2>3, FsMoves
  <2>4. CASE fs_subfs(t)
    BY <1>0, <1>0a, <2>1, <2>4, FsMoves
  <2>5. CASE unref_fs(t)
    <3>1. PICK f \in Fs :
              /\ fsrefs' = [fsrefs EXCEPT ![f] = @ - 1] /\ fsrefs[f] >= 1
              /\ IF f = "main" /\ fsrefs[f] = 1
                 THEN live' = live \ {Root} /\ UNCHANGED fsroot
                 ELSE UNCHANGED live /\ fsroot' = IF fsrefs[f] = 1
                                                  THEN [fsroot EXCEPT ![f] = NoSlot] ELSE fsroot
      BY <2>5, FsMoves
    <3> QED
      BY <1>0, <1>0a, <2>1, <3>1
  <2>6. CASE fsrefs' = fsrefs
    <3>1. CASE Load(t)
      <4>1. InCall(t)
        BY <3>1 DEF Load, At, InCall
      <4>2. Root \in live
        BY <1>0, <1>0a, <2>1, <4>1, MainThere
      <4>3. live \subseteq live'
        BY <3>1 DEF Load
      <4> QED
        BY <2>1, <2>6, <4>2, <4>3
    <3>2. CASE FreeNode(t)
      <4>1. todo[t] # <<>> /\ Head(todo[t]).do = "free" /\ live' = live \ {Head(todo[t]).n}
        BY <3>2 DEF FreeNode, Doing
      <4>2. Head(todo[t]).n # Root
        BY <4>1, HeadItem
      <4> QED
        BY <2>1, <2>6, <4>1, <4>2
    <3> QED
      BY <2>1, <2>5, <2>6, <3>1, <3>2, Frames
  <2> QED
    BY <2>2, <2>3, <2>4, <2>5, <2>6, Frames
<1>3. ASSUME fsrefs'["sub"] > 0 PROVE fsroot'["sub"] \in live' /\ Len(at'[fsroot'["sub"]]) >= 1
  <2>1. CASE fs_subfs(t)
    <3>1. /\ fsroot' = [fsroot EXCEPT !["sub"] = cur(t)] /\ InCall(t) /\ live' = live /\ at' = at
          /\ Len(at[cur(t)]) >= 1
      BY <2>1, FsMoves
    <3>2. fsroot'["sub"] = cur(t)
      BY <1>0, <1>0a, <3>1
    <3>3. cur(t) \in live
      BY <3>1, CallFacts
    <3> QED
      BY <3>1, <3>2, <3>3
  <2>2. CASE ~ fs_subfs(t)
    <3>1. fsrefs["sub"] >= 1 /\ ~ (todo[t] # <<>> /\ Head(todo[t]) = fsys("sub") /\ fsrefs["sub"] = 1 /\ unref_fs(t))
      <4>1. CASE NewFs(t)
        BY <1>0, <1>0a, <1>3, <4>1, FsMoves DEF NewFs, At, unref_fs, Doing
      <4>2. CASE fs_open(t)
        <5>1. PICK f \in Fs : fsrefs' = [fsrefs EXCEPT ![f] = @ + 1] /\ fsrefs[f] >= 1
          BY <4>2, FsMoves
        <5>2. ~ unref_fs(t)
          BY <4>2 DEF fs_open, At, unref_fs, Doing
        <5> QED
          BY <1>0, <1>0a, <1>3, <5>1, <5>2
      <4>3. CASE unref_fs(t)
        <5>1. PICK f \in Fs : Head(todo[t]) = fsys(f) /\ fsrefs' = [fsrefs EXCEPT ![f] = @ - 1] /\ fsrefs[f] >= 1
          BY <4>3, FsMoves
        <5>2. Head(todo[t]) = fsys("sub") => f = "sub"
          BY <5>1, ItemFacts
        <5> QED
          BY <1>0, <1>0a, <1>3, <5>1, <5>2
      <4>4. CASE fsrefs' = fsrefs /\ ~ unref_fs(t)
        BY <1>0, <1>0a, <1>3, <4>4
      <4> QED
        BY <2>2, <4>1, <4>2, <4>3, <4>4, Frames
    <3>2. Linked(fsroot["sub"]) /\ Len(at[fsroot["sub"]]) >= 1 /\ fsroot["sub"] \in live
      BY <1>0a, <3>1, RootFacts
    <3>3. fsroot["sub"] \in live'
      BY <3>1, InUseStays
    <3>4. at'[fsroot["sub"]] = at[fsroot["sub"]]
      BY <3>2, <3>3, Steady
    <3>5. fsroot'["sub"] = fsroot["sub"]
      <4>1. CASE unref_fs(t)
        <5>1. PICK f \in Fs :
                /\ todo[t] # <<>> /\ Head(todo[t]) = fsys(f)
                /\ IF f = "main" /\ fsrefs[f] = 1
                   THEN live' = live \ {Root} /\ UNCHANGED fsroot
                   ELSE UNCHANGED live /\ fsroot' = IF fsrefs[f] = 1
                                                    THEN [fsroot EXCEPT ![f] = NoSlot] ELSE fsroot
          BY <4>1, FsMoves
        <5>2. ~ (f = "sub" /\ fsrefs[f] = 1)
          BY <3>1, <4>1, <5>1
        <5> QED
          BY <1>0, <1>0a, <5>1, <5>2
      <4> QED
        BY <2>2, <4>1, Frames
    <3> QED
      BY <3>2, <3>3, <3>4, <3>5
  <2> QED
    BY <2>1, <2>2
<1>4. \A j \in disk' : Front(j) \in Dirs
  <2>1. CASE disk' = disk
    BY <1>0, <2>1 DEF FsPlaced
  <2>2. CASE Back(t)
    BY <2>2 DEF Back, DriverOk
  <2>3. CASE Unlink(t)
    <3>1. ItemShown(Head(todo[t]).n)
      BY <2>3 DEF Unlink
    <3> QED
      BY <3>1, ShownInDriver DEF DriverOk
  <2> QED
    BY <2>1, <2>2, <2>3, Frames
<1>5. ASSUME NEW n \in Slots, leaked'[n] > 0 PROVE n \in live' \/ n = Root
  <2>1. CASE leaked' = leaked
    <3>1. n \in live \/ n = Root
      BY <1>0, <1>5, <2>1 DEF FsPlaced
    <3>2. ASSUME n \in live, n \notin live', n # Root PROVE FALSE
      <4>1. refs[n] = 0
        BY <3>2, WhatGoes
      <4>2. refs[n] = NodeRefs(n) /\ leaked[n] \in Nat
        BY <1>0, <3>2, VfsAssumption DEF IInv, CountsExact, TypeOK
      <4>3. /\ IsFiniteSet(Walkers(n)) /\ IsFiniteSet(Loading(n, {"new", "newfs"}))
            /\ IsFiniteSet(Children(n)) /\ IsFiniteSet(OpenNodes(n)) /\ IsFiniteSet(Roots(n))
            /\ IsFiniteSet(Places(node(n)))
        BY <1>0, HoldersFinite, ItemFacts DEF StacksFinite, IInv
      <4>4. /\ Cardinality(Walkers(n)) \in Nat /\ Cardinality(Loading(n, {"new", "newfs"})) \in Nat
            /\ Cardinality(Children(n)) \in Nat /\ Cardinality(OpenNodes(n)) \in Nat
            /\ Cardinality(Roots(n)) \in Nat /\ Cardinality(Places(node(n))) \in Nat
        BY <4>3, FS_CardinalityType
      <4> QED
        BY <1>5, <2>1, <4>1, <4>2, <4>4 DEF NodeRefs
    <3> QED
      BY <3>1, <3>2
  <2>2. CASE Forget(t)
    <3>1. InCall(t) /\ live' = live /\ leaked' = [leaked EXCEPT ![cur(t)] = @ + 1]
      BY <2>2 DEF Forget, At, InCall, Lose, nvars
    <3>2. cur(t) \in live
      BY <3>1, CallFacts
    <3>3. n # cur(t) => leaked'[n] = leaked[n]
      BY <1>0, <3>1 DEF TypeOK
    <3> QED
      BY <1>0, <1>5, <3>1, <3>2, <3>3 DEF FsPlaced
  <2> QED
    BY <2>1, <2>2, Frames
<1> QED
  BY <1>1, <1>2, <1>3, <1>4, <1>5 DEF FsPlaced, Depth

\* Who gives up the root has the file system still to give up.
KeepsFs(q, c) == \A i \in DOMAIN q : q[i] = node(Root) =>
  c = "main" \/ \E j \in DOMAIN q : j > i /\ q[j] = fsys("main")

\* Every step keeps RootKept.
LEMMA RootKeptThen ==
  ASSUME IInv, NEW t \in Threads, Acts(t)
  PROVE  RootKept'
<1>0. TypeOK /\ todo \in [Threads -> Seq(Items)] /\ call \in [Threads -> Calls]
  BY DEF IInv, TypeOK
<1>0a. \A n, m : node(n) = node(m) => n = m
  BY ItemFacts
<1>0b. "main" \in Fs /\ "sub" \in Fs
  BY DEF Fs
<1>1. \A u \in Threads : KeepsFs(todo[u], call[u].fs)
  BY DEF IInv, RootKept, KeepsFs
<1>2. SUFFICES \A u \in Threads : KeepsFs(todo'[u], call'[u].fs)
  BY DEF RootKept, KeepsFs
<1>3. \A u \in Threads : u # t => KeepsFs(todo'[u], call'[u].fs)
  BY <1>0, <1>1, OthersUnmoved
<1>4. \A c : KeepsFs(<<>>, c)
  BY DEF KeepsFs
<1>5. CASE todo[t] = <<>> /\ todo' = todo
  BY <1>3, <1>4, <1>5
<1>6. CASE Found(t) \/ NewFs(t) \/ Back(t)
  <2>1. InCall(t) /\ (cur(t) = Root => call[t].fs = "main")
    BY <1>6, RootFacts DEF Found, NewFs, Back, At, InCall
  <2>2. todo' = [todo EXCEPT ![t] = <<node(cur(t))>>]
    <3>1. Found(t) => todo' = [todo EXCEPT ![t] = <<node(cur(t))>>]
      BY DEF Found, Step
    <3>2. NewFs(t) => todo' = [todo EXCEPT ![t] = <<node(cur(t))>>]
      BY DEF NewFs, Step
    <3>3. Back(t) => Return(t, cur(t))
      BY DEF Back
    <3>4. Return(t, cur(t)) => todo' = [todo EXCEPT ![t] = <<node(cur(t))>>]
      BY DEF Return
    <3> QED
      BY <1>6, <3>1, <3>2, <3>3, <3>4
  <2>3. call'[t].fs = call[t].fs
    <3>1. CASE Found(t) \/ NewFs(t)
      <4>1. Step(t)
        BY <3>1 DEF Found, NewFs
      <4>2. call'[t] = Call(call[t].op, call[t].fs, call[t].nxt, NoSlot, Tail(call[t].rest), call[t].last)
        BY <1>0, <4>1 DEF Step
      <4> QED
        BY <4>2 DEF Call
    <3>2. CASE Back(t)
      <4>1. Return(t, cur(t))
        BY <3>2 DEF Back
      <4>2. PICK c : c = Call("stat", call[t].fs, NoSlot, NoSlot, <<>>, "")
        OBVIOUS
      <4>3. c.fs = call[t].fs
        BY <4>2 DEF Call
      <4>4. call'[t] = c
        BY <1>0, <4>1, <4>2 DEF Return
      <4> QED
        BY <4>3, <4>4
    <3> QED
      BY <1>6, <3>1, <3>2
  <2>4. PICK n : n = cur(t)
    OBVIOUS
  <2>5. todo'[t] = <<node(n)>>
    BY <1>0, <2>2, <2>4
  <2>6. <<node(n)>>[1] = node(n) /\ DOMAIN <<node(n)>> = {1}
    OBVIOUS
  <2>7. KeepsFs(<<node(n)>>, call[t].fs)
    BY <1>0a, <2>1, <2>4, <2>6 DEF KeepsFs
  <2> QED
    BY <1>3, <2>3, <2>5, <2>7
<1>7. CASE Closes(t)
  <2>1. PICK v \in Threads : \E h \in handles[v] : unref_file(t, v, h)
    BY <1>7 DEF Closes
  <2>2. PICK h \in handles[v] : unref_file(t, v, h)
    BY <2>1
  <2>3. h[1] \in Fs /\ h[2] \in Slots /\ h = <<h[1], h[2]>>
    BY <1>0 DEF TypeOK
  <2>4. PICK f \in Fs : f = h[1]
    BY <2>3
  <2>5. PICK m \in Slots : m = h[2]
    BY <2>3
  <2>6. todo' = [todo EXCEPT ![t] = <<node(m), fsys(f)>>]
    BY <2>2, <2>4, <2>5 DEF unref_file
  <2>7. todo'[t] = <<node(m), fsys(f)>>
    BY <1>0, <2>6
  <2>8. m = Root => f = "main"
    <3> SUFFICES ASSUME m = Root, f = "sub" PROVE FALSE
      BY DEF Fs
    <3>1. <<f, m>> \in handles[v]
      BY <2>3, <2>4, <2>5
    <3>2. fsrefs["sub"] >= 1
      BY <3>1, Positive DEF IInv
    <3>3. Len(at[fsroot["sub"]]) >= 1
      BY <3>2, RootFacts
    <3>4. Len(at[fsroot[h[1]]]) <= Len(at[h[2]])
      BY DEF IInv, HandlesPlaced, Depth
    <3>5. Len(at[fsroot["sub"]]) <= Len(at[Root]) /\ Len(at[Root]) = 0
      BY <2>4, <2>5, <3>4, RootFacts
    <3>6. fsroot["sub"] \in live
      BY <1>0b, <3>2, RootFacts
    <3>7. Len(at[fsroot["sub"]]) \in Nat
      BY <1>0, <3>6, PathTypes DEF TypeOK
    <3> QED
      BY <3>3, <3>5, <3>7
  <2>9. PICK s : s = <<node(m), fsys(f)>>
    OBVIOUS
  <2>10. s[1] = node(m) /\ s[2] = fsys(f) /\ DOMAIN s = {1, 2}
    BY <2>9
  <2>11. \A n : fsys(f) # node(n)
    BY ItemFacts
  <2>12. \A c : KeepsFs(s, c)
    <3> SUFFICES ASSUME NEW i \in DOMAIN s, s[i] = node(Root)
                 PROVE  \E j \in DOMAIN s : j > i /\ s[j] = fsys("main")
      BY DEF KeepsFs
    <3>1. i = 1 /\ m = Root
      BY <1>0a, <2>10, <2>11
    <3>2. 2 \in DOMAIN s /\ 2 > i /\ s[2] = fsys("main")
      BY <2>8, <2>10, <3>1
    <3> QED
      BY <3>2
  <2> QED
    BY <1>3, <2>7, <2>9, <2>12
<1>8. CASE Leaves(t)
  <2>1. PICK f \in Fs : rm_fs(t, f)
    BY <1>8 DEF Leaves
  <2>2. todo' = [todo EXCEPT ![t] = <<fsys(f)>>]
    BY <2>1 DEF rm_fs
  <2>3. todo'[t] = <<fsys(f)>>
    BY <1>0, <2>2
  <2>4. <<fsys(f)>>[1] = fsys(f) /\ DOMAIN <<fsys(f)>> = {1}
    OBVIOUS
  <2>5. \A n : fsys(f) # node(n)
    BY ItemFacts
  <2>6. \A c : KeepsFs(<<fsys(f)>>, c)
    BY <2>4, <2>5 DEF KeepsFs
  <2> QED
    BY <1>3, <2>3, <2>6
<1>9. ASSUME UnrefNode(t) \/ LastRef(t) \/ Unlink(t) \/ FreeNode(t) \/ unref_fs(t),
             todo[t] # <<>>, NEW s \in Seq(Items), Instead(t, s),
             \A j \in 1 .. Len(s) : s[j] = node(Root) =>
               \E k \in 1 .. Len(s) : k > j /\ s[k] = fsys("main")
      PROVE  \A u \in Threads : KeepsFs(todo'[u], call'[u].fs)
  <2>1. call' = call
    BY <1>9, Frames
  <2>2. PICK q : q = todo'[t]
    OBVIOUS
  <2>3. PICK L \in Nat : L = Len(s)
    BY <1>9
  <2>4. /\ \A j \in DOMAIN q :
             \/ j \in 1 .. L /\ q[j] = s[j]
             \/ /\ j > L /\ j - L + 1 > 1 /\ j - L + 1 \in DOMAIN todo[t]
                /\ q[j] = todo[t][j - L + 1]
        /\ \A j \in 1 .. L : j \in DOMAIN q /\ q[j] = s[j]
        /\ \A i \in DOMAIN todo[t] : i > 1 =>
             i + L - 1 \in DOMAIN q /\ q[i + L - 1] = todo[t][i]
        /\ \A j \in DOMAIN q : j \in Nat
        /\ \A j \in DOMAIN todo[t] : j \in Nat
    BY <1>0, <1>9, <2>2, <2>3, InsteadAt
  <2>5. KeepsFs(q, call[t].fs)
    <3> SUFFICES ASSUME NEW j \in DOMAIN q, q[j] = node(Root), call[t].fs # "main"
                 PROVE  \E k \in DOMAIN q : k > j /\ q[k] = fsys("main")
      BY DEF KeepsFs
    <3>1. CASE j \in 1 .. L /\ q[j] = s[j]
      <4>1. PICK k \in 1 .. L : k > j /\ s[k] = fsys("main")
        BY <1>9, <2>3, <3>1
      <4> QED
        BY <2>4, <4>1
    <3>2. CASE /\ j > L /\ j - L + 1 > 1 /\ j - L + 1 \in DOMAIN todo[t]
               /\ q[j] = todo[t][j - L + 1]
      <4>1. PICK i \in DOMAIN todo[t] : i = j - L + 1
        BY <3>2
      <4>2. todo[t][i] = node(Root) /\ i > 1
        BY <3>2, <4>1
      <4>3. PICK k \in DOMAIN todo[t] : k > i /\ todo[t][k] = fsys("main")
        BY <1>1, <4>2 DEF KeepsFs
      <4>4. i \in Nat /\ k \in Nat /\ j \in Nat
        BY <2>4
      <4>5. k > 1 /\ k + L - 1 > j
        BY <2>3, <4>1, <4>2, <4>3, <4>4
      <4>6. k + L - 1 \in DOMAIN q /\ q[k + L - 1] = fsys("main")
        BY <2>4, <4>3, <4>5
      <4> QED
        BY <4>5, <4>6
    <3> QED
      BY <2>4, <3>1, <3>2
  <2> QED
    BY <1>3, <2>1, <2>2, <2>5
<1>10. ASSUME UnrefNode(t) \/ LastRef(t) \/ Unlink(t) \/ FreeNode(t) \/ unref_fs(t)
       PROVE  \A u \in Threads : KeepsFs(todo'[u], call'[u].fs)
  <2>0. todo[t] # <<>>
    BY <1>10 DEF UnrefNode, LastRef, Unlink, FreeNode, unref_fs, Doing
  <2>1. ASSUME Instead(t, <<>>) PROVE \A u \in Threads : KeepsFs(todo'[u], call'[u].fs)
    <3>0. <<>> \in Seq(Items)
      OBVIOUS
    <3>1. PICK s \in Seq(Items) : s = <<>>
      BY <3>0
    <3>2. 1 .. Len(s) = {} /\ Instead(t, s)
      BY <2>1, <3>1
    <3> QED
      BY <1>9, <1>10, <2>0, <3>2
  <2>2. CASE LastRef(t)
    <3>1. PICK n \in Slots : Instead(t, <<par(n)>>)
      BY <2>2, LastFacts
    <3>2. par(n) \in Items /\ \A m : par(n) # node(m)
      BY ItemFacts
    <3>3. PICK s \in Seq(Items) : s = <<par(n)>>
      BY <1>0, <3>2, StackTypes
    <3>4. \A j \in 1 .. Len(s) : s[j] = par(n)
      BY <3>3
    <3>5. Instead(t, s)
      BY <3>1, <3>3
    <3> QED
      BY <1>9, <1>10, <2>0, <3>2, <3>4, <3>5
  <2>3. CASE Unlink(t)
    <3>1. \E n \in Slots : \E p \in Slots : Instead(t, <<node(p), fsys("main"), free(n)>>)
      BY <2>0, <2>3, Replacing
    <3>2. PICK n \in Slots : \E p \in Slots : Instead(t, <<node(p), fsys("main"), free(n)>>)
      BY <3>1
    <3>3. PICK p \in Slots : Instead(t, <<node(p), fsys("main"), free(n)>>)
      BY <3>2
    <3>4. /\ node(p) \in Items /\ fsys("main") \in Items /\ free(n) \in Items
          /\ \A m : fsys("main") # node(m) /\ free(n) # node(m)
      BY <1>0b, ItemFacts
    <3>5. PICK s \in Seq(Items) : s = <<node(p), fsys("main"), free(n)>>
      BY <1>0, <3>4, StackTypes
    <3>6. Len(s) = 3 /\ s[1] = node(p) /\ s[2] = fsys("main") /\ s[3] = free(n)
      BY <3>5
    <3>7. \A j \in 1 .. Len(s) : s[j] = node(Root) => j = 1
      BY <3>4, <3>6
    <3>8. \A j \in 1 .. Len(s) : s[j] = node(Root) =>
            \E k \in 1 .. Len(s) : k > j /\ s[k] = fsys("main")
      BY <3>6, <3>7
    <3>9. Instead(t, s)
      BY <3>3, <3>5
    <3> QED
      BY <1>9, <1>10, <2>0, <3>8, <3>9
  <2>4. CASE \E r \in Slots : fsrefs["sub"] = 1 /\ r = fsroot["sub"] /\ Instead(t, <<node(r)>>)
    <3>1. PICK r \in Slots : fsrefs["sub"] = 1 /\ r = fsroot["sub"] /\ Instead(t, <<node(r)>>)
      BY <2>4
    <3>2. r # Root
      BY <3>1, RootFacts DEF Linked
    <3>3. node(r) \in Items /\ node(r) # node(Root)
      BY <1>0a, <3>2, ItemFacts
    <3>4. PICK s \in Seq(Items) : s = <<node(r)>>
      BY <1>0, <3>3, StackTypes
    <3>5. \A j \in 1 .. Len(s) : s[j] = node(r)
      BY <3>4
    <3>6. Instead(t, s)
      BY <3>1, <3>4
    <3> QED
      BY <1>9, <1>10, <2>0, <3>3, <3>5, <3>6
  <2>5. /\ UnrefNode(t) \/ FreeNode(t) => Instead(t, <<>>)
        /\ unref_fs(t) => \/ Instead(t, <<>>)
                          \/ \E r \in Slots : fsrefs["sub"] = 1 /\ r = fsroot["sub"] /\ Instead(t, <<node(r)>>)
    BY <2>0, Replacing
  <2> QED
    BY <1>10, <2>1, <2>2, <2>3, <2>4, <2>5
<1> QED
  BY <1>5, <1>6, <1>7, <1>8, <1>10, BeginsStack

-----------------------------------------------------------------------------
(***************************************************************************)
(* Items.                                                                  *)
(***************************************************************************)

\* An item has one node in use.
LEMMA OncePerItemKept ==
  ASSUME IInv, NEW t \in Threads, Acts(t), TypeOK'
  PROVE  OncePerItem'
<1>0. TypeOK /\ OncePerItem /\ refs \in [Slots -> Nat] /\ live \subseteq Slots
      /\ refs' \in [Slots -> Nat] /\ live' \subseteq Slots
  BY DEF IInv, TypeOK
<1>1. \A m \in live \cap live' : at'[m] = at[m] /\ (refs'[m] > 0 => refs[m] > 0)
  <2> SUFFICES ASSUME NEW m \in live, m \in live', refs'[m] > 0 PROVE refs[m] > 0
    BY Steady
  <2>1. refs[m] = 0 => refs'[m] = 0
    BY Steady
  <2>2. refs[m] \in Nat /\ refs'[m] \in Nat
    BY <1>0
  <2> QED
    BY <2>1, <2>2
<1>2. ASSUME NEW m \in live', NEW n \in live', m \in live, n \in live,
             refs'[m] > 0, refs'[n] > 0, at'[m] = at'[n]
      PROVE  m = n
  BY <1>0, <1>1, <1>2 DEF OncePerItem
<1>3. ASSUME NEW m \in live' \ live, NEW n \in live', refs'[n] > 0, at'[m] = at'[n]
      PROVE  m = n
  <2>0. Load(t)
    BY Steady
  <2>1. PICK p \in live : \E x \in STRING : \E s \in Slots \ live : Loads(t, p, x, s)
    BY <2>0, LoadFacts
  <2>2. PICK x \in STRING : \E s \in Slots \ live : Loads(t, p, x, s)
    BY <2>1
  <2>3. PICK s \in Slots \ live : Loads(t, p, x, s)
    BY <2>2
  <2>4. /\ p \in Slots /\ refs[p] >= 1 /\ Child(p, x) = {} /\ live' = live \cup {s}
        /\ at' = [at EXCEPT ![s] = Append(at[p], x)]
    BY <2>3 DEF Loads
  <2>5. m = s
    BY <2>4
  <2>6. at'[s] = Append(at[p], x)
    BY <1>0, <2>3, <2>4 DEF TypeOK
  <2>7. CASE n \in live
    <3>1. at[n] = Append(at[p], x) /\ refs[n] >= 1
      <4>1. at'[n] = at[n] /\ refs[n] > 0
        BY <1>1, <1>3, <2>7
      <4>2. refs[n] \in Nat
        BY <1>0, <2>7
      <4> QED
        <5>1. at[n] = Append(at[p], x)
          BY <1>3, <2>5, <2>6, <4>1
        <5>2. refs[n] >= 1
          BY <4>1, <4>2
        <5> QED
          BY <5>1, <5>2
    <3>2. n \in Child(p, x)
      BY <2>4, <2>7, <3>1, OnlyChild
    <3> QED
      BY <2>4, <3>2
  <2>8. CASE n \notin live
    BY <2>4, <2>5, <2>8
  <2> QED
    BY <2>7, <2>8
<1> QED
  BY <1>2, <1>3 DEF OncePerItem

\* A thread that is about to delete an item has looked for its node, and has
\* seen those that came into memory later.
SeenAll(t) == \A n \in live :
  at[n] = Append(at[call[t].cur], call[t].last) /\ refs[n] > 0 => n \in seen[t]

\* Every step keeps LookedUp.
LEMMA LookedUpKept ==
  ASSUME IInv, NEW t \in Threads, Acts(t), TypeOK'
  PROVE  LookedUp'
<1>0. TypeOK /\ refs \in [Slots -> Nat] /\ live \subseteq Slots
      /\ refs' \in [Slots -> Nat] /\ live' \subseteq Slots /\ seen \in [Threads -> SUBSET Slots]
      /\ pc \in [Threads -> PCs]
  BY DEF IInv, TypeOK
<1>1. \A u \in Threads : Deleting(u) => SeenAll(u)
  BY DEF IInv, LookedUp, SeenAll, Item, cur
<1>2. SUFFICES \A u \in Threads : Deleting(u)' => SeenAll(u)'
  BY DEF LookedUp, SeenAll, Item, cur
<1>3. \A m \in live \cap live' : at'[m] = at[m] /\ (refs'[m] > 0 => refs[m] > 0)
  <2> SUFFICES ASSUME NEW m \in live, m \in live', refs'[m] > 0 PROVE refs[m] > 0
    BY Steady
  <2>1. refs[m] = 0 => refs'[m] = 0
    BY Steady
  <2>2. refs[m] \in Nat /\ refs'[m] \in Nat
    BY <1>0
  <2> QED
    BY <2>1, <2>2
<1>4. ASSUME NEW u \in Threads, Deleting(u), call'[u] = call[u],
             seen[u] \subseteq seen'[u], live' \ live \subseteq seen'[u]
      PROVE  SeenAll(u)'
  <2>1. InCall(u)
    BY <1>4 DEF Deleting, InCall
  <2>2. at'[call[u].cur] = at[call[u].cur]
    BY <2>1, InCallStays
  <2>3. \A n \in live : at[n] = Append(at[call[u].cur], call[u].last) /\ refs[n] > 0 => n \in seen[u]
    BY <1>1, <1>4 DEF SeenAll
  <2>4. ASSUME NEW n \in live', at'[n] = Append(at[call[u].cur], call[u].last), refs'[n] > 0
        PROVE  n \in seen'[u]
    <3>1. CASE n \in live
      BY <1>3, <1>4, <2>3, <2>4, <3>1
    <3>2. CASE n \notin live
      BY <1>4, <3>2
    <3> QED
      BY <3>1, <3>2
  <2> QED
    BY <1>4, <2>2, <2>4 DEF SeenAll
<1>5. ASSUME NEW u \in Threads, u # t, Deleting(u)' PROVE SeenAll(u)'
  <2>1. pc'[u] = pc[u] /\ call'[u] = call[u]
    BY <1>0, <1>5, OthersUnmoved
  <2>2. Deleting(u)
    BY <1>5, <2>1 DEF Deleting
  <2>3. seen[u] \subseteq seen'[u] /\ live' \ live \subseteq seen'[u]
    <3>1. CASE Load(t)
      <4>1. PICK p \in live : \E x \in STRING : \E s \in Slots \ live : Loads(t, p, x, s)
        BY <3>1, LoadFacts
      <4>2. PICK x \in STRING : \E s \in Slots \ live : Loads(t, p, x, s)
        BY <4>1
      <4>3. PICK s \in Slots \ live : Loads(t, p, x, s)
        BY <4>2
      <4>4. /\ live' = live \cup {s}
            /\ seen' = [v \in Threads |-> IF Deleting(v) THEN seen[v] \cup {s} ELSE {}]
        BY <4>3 DEF Loads
      <4>5. seen'[u] = seen[u] \cup {s}
        BY <2>2, <4>4
      <4> QED
        BY <4>4, <4>5
    <3>2. CASE ~ Load(t)
      <4>1. live' \ live = {}
        BY <3>2, Steady
      <4>2. seen'[u] = seen[u]
        <5>1. CASE Back(t)
          BY <1>5, <5>1 DEF Back
        <5>2. CASE DeleteLooked(t)
          BY <1>0, <1>5, <5>2 DEF DeleteLooked
        <5>3. CASE seen' = seen
          BY <5>3
        <5> QED
          BY <3>2, <5>1, <5>2, <5>3, Frames
      <4> QED
        BY <4>1, <4>2
    <3> QED
      BY <3>1, <3>2
  <2> QED
    BY <1>4, <2>1, <2>2, <2>3
<1>6. \A p : pc' = [pc EXCEPT ![t] = p] => pc'[t] = p
  BY <1>0
<1>7. CASE DeleteLooked(t)
  <2>1. /\ InCall(t) /\ Child(cur(t), call[t].last) = {}
        /\ UNCHANGED <<live, refs, at, call>>
    BY <1>7 DEF DeleteLooked, Arrived, At, InCall, nvars
  <2>2. cur(t) \in live /\ cur(t) \in Slots /\ refs[cur(t)] >= 1 /\ cur(t) = call[t].cur
    BY <2>1, CallFacts DEF cur
  <2>3. ASSUME NEW n \in live, at[n] = Append(at[cur(t)], call[t].last), refs[n] > 0 PROVE FALSE
    <3>1. n \in Slots
      BY <1>0
    <3>2. at[n] \in Seq(STRING) /\ at[cur(t)] \in Seq(STRING)
      BY <1>0, <2>2, <3>1, PathTypes
    <3>3. call[t].last \in STRING
      <4>1. PICK q \in Seq(STRING) : q = at[cur(t)]
        BY <3>2
      <4>2. PICK r \in Seq(STRING) : r = at[n]
        BY <3>2
      <4>3. PICK y : y = call[t].last
        OBVIOUS
      <4>4. r = Append(q, y)
        BY <2>3, <4>1, <4>2, <4>3
      <4>5. Append(q, y)[Len(q) + 1] = y /\ Len(Append(q, y)) = Len(q) + 1
        OBVIOUS
      <4>6. Len(q) + 1 \in 1 .. Len(r)
        BY <4>4, <4>5
      <4> QED
        BY <4>3, <4>4, <4>5, <4>6
    <3>4. refs[n] >= 1
      BY <1>0, <2>3, <3>1
    <3>5. PICK p \in live : p = cur(t)
      BY <2>2
    <3>6. PICK x \in STRING : x = call[t].last
      BY <3>3
    <3>7. n \in Child(p, x)
      BY <2>2, <2>3, <3>4, <3>5, <3>6, OnlyChild
    <3> QED
      BY <2>1, <3>5, <3>6, <3>7
  <2>4. SeenAll(t)'
    BY <2>1, <2>2, <2>3 DEF SeenAll
  <2> QED
    BY <1>5, <2>4
<1>8. CASE LockNode(t)
  <2>1. /\ pc[t] = "at" \/ call[t].op \in {"open", "stat", "create"}
        /\ UNCHANGED <<live, call, seen>>
    BY <1>8 DEF LockNode, Arrived, At, hvars
  <2>2. Deleting(t)' => Deleting(t)
    BY <2>1 DEF Deleting
  <2> QED
    BY <1>4, <1>5, <2>1, <2>2
<1>9. ASSUME Deleting(t)' PROVE DeleteLooked(t) \/ LockNode(t)
  <2>1. pc'[t] \in {"at", "locked"}
    BY <1>9 DEF Deleting
  <2>2. Begins(t) => pc' = [pc EXCEPT ![t] = "walk"]
    <3>1. ASSUME NEW op \in Ops, NEW f \in Fs, NEW p \in Seq(STRING), Begin(t, op, f, p)
          PROVE  pc' = [pc EXCEPT ![t] = "walk"]
      BY <3>1 DEF Begin, Goto
    <3> QED
      BY <3>1 DEF Begins
  <2>3. Look(t) => pc' = [pc EXCEPT ![t] = "miss"] \/ pc' = [pc EXCEPT ![t] = "found"]
    BY DEF Look, Goto
  <2>4. Found(t) \/ NewFs(t) => pc' = [pc EXCEPT ![t] = "walk"]
    BY DEF Found, NewFs, Step, Goto
  <2>5. Load(t) => pc' = [pc EXCEPT ![t] = "new"]
    BY DEF Load, Goto
  <2>6. NewParent(t) => pc' = [pc EXCEPT ![t] = "newfs"]
    BY DEF NewParent, Goto
  <2>7. Back(t) => pc' = [pc EXCEPT ![t] = "idle"]
    <3>1. Back(t) => Return(t, cur(t))
      BY DEF Back
    <3> QED
      BY <3>1 DEF Return, Goto
  <2>8. Forget(t) \/ fs_open(t) \/ fs_subfs(t) => pc' = [pc EXCEPT ![t] = "idle"]
    BY DEF Forget, fs_open, fs_subfs, Goto
  <2>9. OpenOk(t) => pc' = [pc EXCEPT ![t] = "opened"]
    BY DEF OpenOk, Goto
  <2>10. Closes(t) \/ Leaves(t) => pc' = pc /\ pc[t] = "idle"
    BY DEF Closes, Leaves, unref_file, rm_fs, At
  <2>11. UnrefNode(t) \/ LastRef(t) \/ Unlink(t) \/ FreeNode(t) \/ unref_fs(t) => pc' = pc /\ pc[t] \in {"idle", "walk"}
    <3> SUFFICES ASSUME UnrefNode(t) \/ LastRef(t) \/ Unlink(t) \/ FreeNode(t) \/ unref_fs(t)
                 PROVE  pc' = pc /\ pc[t] \in {"idle", "walk"}
      OBVIOUS
    <3>1. pc' = pc
      BY Frames
    <3>2. todo[t] # <<>>
      BY DEF UnrefNode, LastRef, Unlink, FreeNode, unref_fs, Doing
    <3> QED
      BY <3>1, <3>2, HeadItem
  <2>12. Acts(t)
    OBVIOUS
  <2> QED
    BY <1>6, <2>1, <2>2, <2>3, <2>4, <2>5, <2>6, <2>7, <2>8, <2>9, <2>10, <2>11, <2>12 DEF Acts, Begins, Closes, Leaves
<1> QED
  BY <1>5, <1>7, <1>8, <1>9

\* Stacks stay finite.
LEMMA StacksFiniteKept ==
  ASSUME IInv, NEW t \in Threads, Acts(t)
  PROVE  StacksFinite'
<1>0. TypeOK /\ StacksFinite
  BY DEF IInv
<1>1. SUFFICES ASSUME NEW x \in Items PROVE IsFiniteSet(Places(x)')
  BY DEF StacksFinite
<1>2. IsFiniteSet(Places(x))
  BY <1>0 DEF StacksFinite
<1>3. CASE todo' = todo
  <2>1. Places(x)' = Places(x)
    <3>1. PlacesIn(todo', x) = PlacesIn(todo, x)
      BY <1>3 DEF PlacesIn
    <3> QED
      BY <3>1, PlacesAreIn
  <2> QED
    BY <1>2, <2>1
<1>4. CASE todo[t] = <<>> /\ \E s \in Seq(Items) : Begun(s) /\ todo' = [todo EXCEPT ![t] = s]
  <2>1. CASE \E a \in Items : todo' = [todo EXCEPT ![t] = <<a>>]
    <3>1. PICK a \in Items : todo' = [todo EXCEPT ![t] = <<a>>]
      BY <2>1
    <3> QED
      BY <1>0, <1>4, <3>1, PlacesPut
  <2>2. CASE \E a, b \in Items : todo' = [todo EXCEPT ![t] = <<a, b>>]
    <3>1. PICK a, b \in Items : todo' = [todo EXCEPT ![t] = <<a, b>>]
      BY <2>2
    <3> QED
      BY <1>0, <1>4, <3>1, PlacesPut
  <2>3. PICK s \in Seq(Items) : Begun(s) /\ todo' = [todo EXCEPT ![t] = s]
    BY <1>4
  <2>4. (\E a \in Items : s = <<a>>) \/ (\E a, b \in Items : s = <<a, b>>)
    <3>1. CASE \E n \in Slots : s = <<node(n)>>
      BY <3>1, ItemFacts
    <3>2. CASE \E n \in Slots, f \in Fs : s = <<node(n), fsys(f)>>
      <4>1. PICK n \in Slots : \E f \in Fs : s = <<node(n), fsys(f)>>
        BY <3>2
      <4>2. PICK f \in Fs : s = <<node(n), fsys(f)>>
        BY <4>1
      <4>3. node(n) \in Items /\ fsys(f) \in Items
        BY ItemFacts
      <4> QED
        BY <4>2, <4>3
    <3>3. CASE \E f \in Fs : s = <<fsys(f)>>
      BY <3>3, ItemFacts
    <3> QED
      BY <2>3, <3>1, <3>2, <3>3 DEF Begun
  <2> QED
    BY <2>1, <2>2, <2>3, <2>4
<1>5. ASSUME todo[t] # <<>>, UnrefNode(t) \/ LastRef(t) \/ Unlink(t) \/ FreeNode(t) \/ unref_fs(t)
      PROVE  IsFiniteSet(Places(x)')
  <2>0. "main" \in Fs
    BY DEF Fs
  <2>1. CASE Instead(t, <<>>)
    BY <1>0, <1>5, <2>1, PlacesInstead
  <2>2. ASSUME NEW a \in Items, Instead(t, <<a>>) PROVE IsFiniteSet(Places(x)')
    BY <1>0, <1>5, <2>2, PlacesInstead
  <2>3. ASSUME NEW a \in Items, NEW b \in Items, NEW c \in Items, Instead(t, <<a, b, c>>)
        PROVE  IsFiniteSet(Places(x)')
    BY <1>0, <1>5, <2>3, PlacesInstead
  <2>4. CASE LastRef(t)
    <3>1. PICK n \in Slots : Instead(t, <<par(n)>>)
      BY <2>4, LastFacts
    <3> QED
      BY <2>2, <3>1, ItemFacts
  <2>5. CASE Unlink(t)
    <3>1. \E n \in Slots : \E p \in Slots : Instead(t, <<node(p), fsys("main"), free(n)>>)
      BY <1>5, <2>5, Replacing
    <3>2. PICK n \in Slots : \E p \in Slots : Instead(t, <<node(p), fsys("main"), free(n)>>)
      BY <3>1
    <3>3. PICK p \in Slots : Instead(t, <<node(p), fsys("main"), free(n)>>)
      BY <3>2
    <3> QED
      BY <2>0, <2>3, <3>3, ItemFacts
  <2>6. CASE unref_fs(t)
    <3>1. \/ Instead(t, <<>>)
          \/ \E r \in Slots : fsrefs["sub"] = 1 /\ r = fsroot["sub"] /\ Instead(t, <<node(r)>>)
      BY <1>5, <2>6, Replacing
    <3> QED
      BY <2>1, <2>2, <3>1, ItemFacts
  <2> QED
    BY <1>5, <2>1, <2>4, <2>5, <2>6, Replacing
<1> QED
  BY <1>3, <1>4, <1>5, StackMoves

-----------------------------------------------------------------------------
(***************************************************************************)
(* The references.                                                         *)
(***************************************************************************)

\* How often an item is in the stacks after a step.
Puts(t, s) == todo' = [todo EXCEPT ![t] = s]

\* What each kind of step does to the number of places of an item.
LEMMA PlacesMove ==
  ASSUME IInv, NEW t \in Threads, NEW x \in Items, NEW N, N = Cardinality(Places(x)),
         NEW M, M = Cardinality(Places(x)')
  PROVE  /\ N \in Nat
         /\ todo' = todo => M = N
         /\ todo[t] = <<>> => \A a \in Items : Puts(t, <<a>>) =>
              (x = a => M = N + 1) /\ (x # a => M = N)
         /\ todo[t] = <<>> => \A a, b \in Items : Puts(t, <<a, b>>) /\ a # b =>
              (x = a \/ x = b => M = N + 1) /\ (x # a /\ x # b => M = N)
         /\ todo[t] # <<>> /\ Instead(t, <<>>) =>
              (x = Head(todo[t]) => M = N - 1) /\ (x # Head(todo[t]) => M = N)
         /\ todo[t] # <<>> => \A a \in Items : Instead(t, <<a>>) /\ a # Head(todo[t]) =>
              /\ x = Head(todo[t]) => M = N - 1
              /\ x = a => M = N + 1
              /\ x # a /\ x # Head(todo[t]) => M = N
         /\ todo[t] # <<>> => \A a, b, c \in Items :
              Instead(t, <<a, b, c>>) /\ Head(todo[t]) \notin {a, b, c} /\ a # b /\ a # c /\ b # c =>
              /\ x = Head(todo[t]) => M = N - 1
              /\ x = a \/ x = b \/ x = c => M = N + 1
              /\ x # a /\ x # b /\ x # c /\ x # Head(todo[t]) => M = N
<1>0. TypeOK /\ StacksFinite
  BY DEF IInv
<1>1. N \in Nat
  <2>1. IsFiniteSet(Places(x))
    BY <1>0 DEF StacksFinite
  <2> QED
    BY <2>1, FS_CardinalityType
<1>2. ASSUME todo' = todo PROVE M = N
  <2>1. PlacesIn(todo', x) = PlacesIn(todo, x)
    BY <1>2 DEF PlacesIn
  <2>2. Places(x)' = Places(x)
    BY <2>1, PlacesAreIn
  <2> QED
    BY <2>2
<1>3. ASSUME todo[t] = <<>>, NEW a \in Items, Puts(t, <<a>>)
      PROVE  (x = a => M = N + 1) /\ (x # a => M = N)
  <2>1. Put(Cardinality(Places(x)'), Cardinality(Places(x)), x, a)
    BY <1>0, <1>3, PlacesPut DEF Puts
  <2>2. M = N + One(x = a)
    BY <2>1 DEF Put
  <2> QED
    BY <1>1, <2>2 DEF One
<1>4. ASSUME todo[t] = <<>>, NEW a \in Items, NEW b \in Items,
             Puts(t, <<a, b>>), a # b
      PROVE  (x = a \/ x = b => M = N + 1) /\ (x # a /\ x # b => M = N)
  <2>1. Put2(Cardinality(Places(x)'), Cardinality(Places(x)), x, a, b)
    BY <1>0, <1>4, PlacesPut DEF Puts
  <2>2. M = N + One(x = b) + One(x = a)
    BY <2>1 DEF Put2
  <2> QED
    BY <1>1, <1>4, <2>2 DEF One
<1>5. ASSUME todo[t] # <<>>, Instead(t, <<>>)
      PROVE  (x = Head(todo[t]) => M = N - 1) /\ (x # Head(todo[t]) => M = N)
  <2>1. Take(Cardinality(Places(x)'), Cardinality(Places(x)), x, Head(todo[t]))
    BY <1>0, <1>5, PlacesInstead
  <2>2. M = N - One(x = Head(todo[t]))
    BY <2>1 DEF Take
  <2> QED
    BY <1>1, <2>2 DEF One
<1>6. ASSUME todo[t] # <<>>, NEW a \in Items, Instead(t, <<a>>), a # Head(todo[t])
      PROVE  /\ x = Head(todo[t]) => M = N - 1
             /\ x = a => M = N + 1
             /\ x # a /\ x # Head(todo[t]) => M = N
  <2>1. Swap(Cardinality(Places(x)'), Cardinality(Places(x)), x, Head(todo[t]), a)
    BY <1>0, <1>6, PlacesInstead
  <2>2. M = N - One(x = Head(todo[t])) + One(x = a)
    BY <2>1 DEF Swap
  <2> QED
    BY <1>1, <1>6, <2>2 DEF One
<1>7. ASSUME todo[t] # <<>>, NEW a \in Items, NEW b \in Items, NEW c \in Items,
             Instead(t, <<a, b, c>>), Head(todo[t]) \notin {a, b, c}, a # b, a # c, b # c
      PROVE  /\ x = Head(todo[t]) => M = N - 1
             /\ x = a \/ x = b \/ x = c => M = N + 1
             /\ x # a /\ x # b /\ x # c /\ x # Head(todo[t]) => M = N
  <2>1. Swap3(Cardinality(Places(x)'), Cardinality(Places(x)), x, Head(todo[t]), a, b, c)
    BY <1>0, <1>7, PlacesInstead
  <2>2. M = N - One(x = Head(todo[t])) + One(x = c) + One(x = b) + One(x = a)
    BY <2>1 DEF Swap3
  <2> QED
    BY <1>1, <1>7, <2>2 DEF One
<1> QED
  BY <1>1, <1>2, <1>3, <1>4, <1>5, <1>6, <1>7

\* What becomes of the count of a set that one element may join or leave.
Same(S, T) == Cardinality(T) = Cardinality(S)
Gains(S, T) == Cardinality(T) = Cardinality(S) + 1
Loses(S, T) == Cardinality(T) = Cardinality(S) - 1

\* A set that changes in one member gains it, loses it or stays.
LEMMA Members ==
  ASSUME NEW S, NEW T, NEW a, IsFiniteSet(S), \A b : b # a => (b \in T <=> b \in S)
  PROVE  /\ (a \in T <=> a \in S) => Same(S, T)
         /\ a \in T /\ a \notin S => Gains(S, T)
         /\ a \notin T /\ a \in S => Loses(S, T)
<1>1. /\ Cardinality(T) = Cardinality(S) + One(a \in T) - One(a \in S)
      /\ Cardinality(S) \in Nat /\ Cardinality(T) \in Nat
  BY OneMoves
<1>2. PICK N \in Nat : N = Cardinality(S)
  BY <1>1
<1>3. PICK M \in Nat : M = Cardinality(T)
  BY <1>1
<1>4. M = N + One(a \in T) - One(a \in S)
  BY <1>1, <1>2, <1>3
<1>5. /\ (a \in T <=> a \in S) => M = N
      /\ a \in T /\ a \notin S => M = N + 1
      /\ a \notin T /\ a \in S => M = N - 1
  BY <1>4 DEF One
<1> QED
  BY <1>2, <1>3, <1>5 DEF Same, Gains, Loses

\* The calls that are at a node, ...
LEMMA WalkersMove ==
  ASSUME IInv, NEW t \in Threads, Acts(t), NEW n, NEW p, NEW c, p = pc'[t], c = call'[t].cur
  PROVE  /\ (p # "idle" /\ c = n <=> InCall(t) /\ cur(t) = n) => Same(Walkers(n), Walkers(n)')
         /\ p # "idle" /\ c = n /\ ~ (InCall(t) /\ cur(t) = n) => Gains(Walkers(n), Walkers(n)')
         /\ ~ (p # "idle" /\ c = n) /\ InCall(t) /\ cur(t) = n => Loses(Walkers(n), Walkers(n)')
<1>0. TypeOK
  BY DEF IInv
<1>1. IsFiniteSet(Walkers(n))
  BY <1>0, HoldersFinite
<1>2. \A u \in Threads : u # t => pc'[u] = pc[u] /\ call'[u] = call[u]
  BY <1>0, OthersUnmoved
<1>3. \A b : b # t => (b \in Walkers(n)' <=> b \in Walkers(n))
  BY <1>2 DEF Walkers, InCall, cur
<1>4. t \in Walkers(n)' <=> p # "idle" /\ c = n
  BY DEF Walkers, InCall, cur
<1>5. t \in Walkers(n) <=> InCall(t) /\ cur(t) = n
  BY DEF Walkers
<1>6. PICK S : S = Walkers(n)
  OBVIOUS
<1>7. PICK T : T = Walkers(n)'
  OBVIOUS
<1>8. /\ (t \in T <=> t \in S) => Same(S, T)
      /\ t \in T /\ t \notin S => Gains(S, T)
      /\ t \notin T /\ t \in S => Loses(S, T)
  BY <1>1, <1>3, <1>6, <1>7, Members
<1> QED
  BY <1>4, <1>5, <1>6, <1>7, <1>8

\* ... those that are loading one, ...
LEMMA LoadingMove ==
  ASSUME IInv, NEW t \in Threads, Acts(t), NEW n \in live
  PROVE  LET S == Loading(n, {"new", "newfs"}) IN
         /\ NewFs(t) /\ n = call[t].nxt => Loses(S, S')
         /\ ~ (NewFs(t) /\ n = call[t].nxt) => Same(S, S')
<1>0. TypeOK
  BY DEF IInv
<1>1. IsFiniteSet(Loading(n, {"new", "newfs"}))
  BY <1>0, HoldersFinite
<1>2. \A u \in Threads : u # t => pc'[u] = pc[u] /\ call'[u] = call[u]
  BY <1>0, OthersUnmoved
<1>3. \A b : b # t => (b \in Loading(n, {"new", "newfs"})' <=> b \in Loading(n, {"new", "newfs"}))
  BY <1>2 DEF Loading
<1>4. t \in Loading(n, {"new", "newfs"}) <=> pc[t] \in {"new", "newfs"} /\ call[t].nxt = n
  BY DEF Loading
<1>5. t \in Loading(n, {"new", "newfs"})' <=> pc'[t] \in {"new", "newfs"} /\ call'[t].nxt = n
  BY DEF Loading
<1>6. NewFs(t) => pc[t] = "newfs" /\ ~ NewParent(t) /\ ~ Load(t)
  BY DEF NewFs, NewParent, Load, At
<1>7. NewParent(t) => pc'[t] = "newfs" /\ pc[t] = "new" /\ call'[t].nxt = call[t].nxt
  <2>1. NewParent(t) => pc[t] = "new" /\ pc' = [pc EXCEPT ![t] = "newfs"] /\ call' = call
    BY DEF NewParent, At, Goto
  <2> QED
    BY <1>0, <2>1 DEF TypeOK
<1>8. t \in Loading(n, {"new", "newfs"})' <=> NewParent(t) /\ call[t].nxt = n
  BY <1>5, <1>7, LoadingAfter
<1>9. t \in Loading(n, {"new", "newfs"}) <=> (NewParent(t) \/ NewFs(t)) /\ call[t].nxt = n
  BY <1>4, <1>6, <1>7, LoadingAfter
<1>10. PICK S : S = Loading(n, {"new", "newfs"})
  OBVIOUS
<1>11. PICK T : T = Loading(n, {"new", "newfs"})'
  OBVIOUS
<1>12. /\ (t \in T <=> t \in S) => Same(S, T)
       /\ t \in T /\ t \notin S => Gains(S, T)
       /\ t \notin T /\ t \in S => Loses(S, T)
  BY <1>1, <1>3, <1>10, <1>11, Members
<1>13. /\ NewFs(t) /\ n = call[t].nxt => Loses(S, T)
       /\ ~ (NewFs(t) /\ n = call[t].nxt) => Same(S, T)
  BY <1>6, <1>8, <1>9, <1>10, <1>11, <1>12
<1> QED
  BY <1>10, <1>11, <1>13

\* ... and the nodes below it, those of a file system together.
Loads1(t, s, pcs) == pc[t] \in pcs /\ call[t].nxt = s

\* Loading() stays when what the acting thread loads stays.
LEMMA LoadingSame ==
  ASSUME IInv, NEW t \in Threads, Acts(t), NEW s, NEW pcs,
         pc'[t] \in pcs /\ call'[t].nxt = s <=> Loads1(t, s, pcs)
  PROVE  Loading(s, pcs)' = Loading(s, pcs)
<1>0. TypeOK
  BY DEF IInv
<1>1. \A u \in Threads : u # t => pc'[u] = pc[u] /\ call'[u] = call[u]
  BY <1>0, OthersUnmoved
<1>2. \A u \in Threads :
        (pc'[u] \in pcs /\ call'[u].nxt = s) <=> (pc[u] \in pcs /\ call[u].nxt = s)
  BY <1>1 DEF Loads1
<1> QED
  BY <1>2 DEF Loading

\* Which nodes hold a reference on their parent and on their file system.
LEMMA HoldersMove ==
  ASSUME IInv, NEW t \in Threads, Acts(t), NEW s
  PROVE  /\ NewParent(t) =>
              /\ HoldsParent(s)' <=> HoldsParent(s) \/ s = call[t].nxt
              /\ s = call[t].nxt => ~ HoldsParent(s)
              /\ HoldsFs(s)' <=> HoldsFs(s)
         /\ NewFs(t) =>
              /\ HoldsFs(s)' <=> HoldsFs(s) \/ s = call[t].nxt
              /\ s = call[t].nxt => ~ HoldsFs(s)
              /\ HoldsParent(s)' <=> HoldsParent(s)
         /\ Unlink(t) =>
              /\ HoldsParent(s)' <=> HoldsParent(s) /\ s # Head(todo[t]).n
              /\ HoldsFs(s)' <=> HoldsFs(s) /\ s # Head(todo[t]).n
              /\ s = Head(todo[t]).n => HoldsParent(s) /\ HoldsFs(s)
         /\ ~ NewParent(t) /\ ~ NewFs(t) /\ ~ Unlink(t) =>
              (HoldsParent(s)' <=> HoldsParent(s)) /\ (HoldsFs(s)' <=> HoldsFs(s))
<1> DEFINE N == {"new"}
           B == {"new", "newfs"}
<1>0. TypeOK /\ StacksFinite /\ CountsExact /\ LoadedByOne
  BY DEF IInv
<1>1. /\ HoldsParent(s) <=> Linked(s) /\ Loading(s, N) = {}
      /\ HoldsFs(s) <=> Linked(s) /\ Loading(s, B) = {}
      /\ HoldsParent(s)' <=> Linked(s)' /\ Loading(s, N)' = {}
      /\ HoldsFs(s)' <=> Linked(s)' /\ Loading(s, B)' = {}
  BY DEF HoldsParent, HoldsFs, Linked
<1>2. NewParent(t) => /\ pc[t] = "new" /\ pc'[t] = "newfs" /\ call'[t].nxt = call[t].nxt
                      /\ ~ Unlink(t) /\ ~ Load(t) /\ ~ NewFs(t)
  <2>1. NewParent(t) => /\ pc[t] = "new" /\ pc' = [pc EXCEPT ![t] = "newfs"] /\ call' = call
                        /\ todo[t] = <<>>
    BY DEF NewParent, At, Goto
  <2>2. NewParent(t) => ~ Unlink(t) /\ ~ Load(t) /\ ~ NewFs(t)
    BY <2>1 DEF Unlink, Doing, Load, NewFs, At
  <2> QED
    BY <1>0, <2>1, <2>2 DEF TypeOK
<1>3. NewFs(t) => /\ pc[t] = "newfs" /\ pc'[t] = "walk" /\ ~ Unlink(t) /\ ~ Load(t)
  <2>1. NewFs(t) => /\ pc[t] = "newfs" /\ pc' = [pc EXCEPT ![t] = "walk"] /\ todo[t] = <<>>
    BY DEF NewFs, At, Step, Goto
  <2>2. NewFs(t) => ~ Unlink(t) /\ ~ Load(t)
    BY <2>1 DEF Unlink, Doing, Load, At
  <2> QED
    BY <1>0, <2>1, <2>2 DEF TypeOK
<1>4. \A u \in Threads : u # t => pc'[u] = pc[u] /\ call'[u] = call[u]
  BY <1>0, OthersUnmoved
<1>5. pc[t] \in {"new", "newfs"} => Linked(call[t].nxt)
  BY NextFacts
<1>6. \A u \in Threads : pc[t] \in B /\ pc[u] \in B /\ call[u].nxt = call[t].nxt => u = t
  <2>1. ASSUME NEW u \in Threads, pc[t] \in B, pc[u] \in B, call[u].nxt = call[t].nxt PROVE u = t
    BY <1>0, <2>1 DEF LoadedByOne
  <2> QED
    BY <2>1
<1>7. ASSUME NewParent(t)
      PROVE  /\ HoldsParent(s)' <=> HoldsParent(s) \/ s = call[t].nxt
             /\ s = call[t].nxt => ~ HoldsParent(s)
             /\ HoldsFs(s)' <=> HoldsFs(s)
  <2>1. Loading(s, B)' = Loading(s, B)
    BY <1>2, <1>7, LoadingSame DEF Loads1
  <2>2. Linked(s)' <=> Linked(s)
    BY <1>2, <1>7, LinkedMoves
  <2>3. s = call[t].nxt => t \in Loading(s, N) /\ Loading(s, N)' = {}
    BY <1>2, <1>4, <1>6, <1>7 DEF Loading
  <2>4. s # call[t].nxt => Loading(s, N)' = Loading(s, N)
    BY <1>2, <1>7, LoadingSame DEF Loads1
  <2> QED
    BY <1>1, <1>2, <1>5, <1>7, <2>1, <2>2, <2>3, <2>4
<1>8. ASSUME NewFs(t)
      PROVE  /\ HoldsFs(s)' <=> HoldsFs(s) \/ s = call[t].nxt
             /\ s = call[t].nxt => ~ HoldsFs(s)
             /\ HoldsParent(s)' <=> HoldsParent(s)
  <2>1. Loading(s, N)' = Loading(s, N)
    BY <1>3, <1>8, LoadingSame DEF Loads1
  <2>2. Linked(s)' <=> Linked(s)
    BY <1>3, <1>8, LinkedMoves
  <2>3. s = call[t].nxt => t \in Loading(s, B) /\ Loading(s, B)' = {}
    BY <1>3, <1>4, <1>6, <1>8 DEF Loading
  <2>4. s # call[t].nxt => Loading(s, B)' = Loading(s, B)
    BY <1>3, <1>8, LoadingSame DEF Loads1
  <2> QED
    BY <1>1, <1>3, <1>5, <1>8, <2>1, <2>2, <2>3, <2>4
<1>9. ASSUME ~ NewParent(t), ~ NewFs(t), ~ Load(t)
      PROVE  Loading(s, N)' = Loading(s, N) /\ Loading(s, B)' = Loading(s, B)
  <2>1. pc[t] \notin B /\ pc'[t] \notin B
    BY <1>9, LoadingAfter
  <2>2. pc[t] \notin N /\ pc'[t] \notin N
    BY <2>1
  <2> QED
    BY <2>1, <2>2, LoadingSame DEF Loads1
<1>10. ASSUME Unlink(t)
       PROVE  /\ HoldsParent(s)' <=> HoldsParent(s) /\ s # Head(todo[t]).n
              /\ HoldsFs(s)' <=> HoldsFs(s) /\ s # Head(todo[t]).n
              /\ s = Head(todo[t]).n => HoldsParent(s) /\ HoldsFs(s)
  <2>1. Linked(s)' <=> Linked(s) /\ s # Head(todo[t]).n
    BY <1>10, LinkedMoves
  <2>2. PICK n \in live : \E p \in live : \E x \in STRING : Unlinks(t, n, p, x)
    BY <1>10, UnlinkFacts
  <2>3. n = Head(todo[t]).n /\ refs[n] = 0 /\ Linked(n)
    BY <2>2 DEF Unlinks
  <2>4. \A u \in Threads : pc[u] \in B => call[u].nxt # n
    <3>1. \A u \in Threads : pc[u] \in B /\ call[u].nxt = n => refs[n] >= 1
      BY <1>0, Positive
    <3> QED
      BY <2>3, <3>1
  <2>5. Loading(n, B) = {} /\ Loading(n, N) = {}
    BY <2>4 DEF Loading
  <2>6. ~ NewParent(t) /\ ~ NewFs(t) /\ ~ Load(t)
    <3>1. todo[t] # <<>>
      BY <1>10 DEF Unlink, Doing
    <3> QED
      BY <3>1 DEF NewParent, NewFs, Load, At
  <2> QED
    BY <1>1, <1>9, <2>1, <2>3, <2>5, <2>6
<1>11. ASSUME ~ NewParent(t), ~ NewFs(t), ~ Unlink(t), ~ Load(t)
       PROVE  (HoldsParent(s)' <=> HoldsParent(s)) /\ (HoldsFs(s)' <=> HoldsFs(s))
  BY <1>1, <1>9, <1>11, LinkedMoves
<1>12. ASSUME Load(t)
       PROVE  (HoldsParent(s)' <=> HoldsParent(s)) /\ (HoldsFs(s)' <=> HoldsFs(s))
  <2>1. PICK n \in live : \E x \in STRING : \E m \in Slots \ live : Loads(t, n, x, m)
    BY <1>12, LoadFacts
  <2>2. PICK x \in STRING, m \in Slots \ live : Loads(t, n, x, m)
    BY <2>1
  <2>3. pc[t] = "miss" /\ pc' = [pc EXCEPT ![t] = "new"] /\ call' = [call EXCEPT ![t].nxt = m]
        /\ live' = live \cup {m}
    BY <2>2 DEF Loads
  <2>4. call[t] \in Calls
    BY <1>0, ThreadTypes
  <2>5. pc'[t] = "new" /\ call'[t].nxt = m
    BY <1>0, <2>3, <2>4, CallFields DEF TypeOK
  <2>6. Linked(s)' <=> Linked(s) \/ s = m
    BY <1>12, <2>3, LinkedMoves
  <2>7. s = m => ~ Linked(s) /\ Loading(s, N)' # {} /\ Loading(s, B)' # {}
    <3>1. s = m => ~ Linked(s)
      BY <2>2 DEF Linked
    <3>2. s = m => t \in Loading(s, N)' /\ t \in Loading(s, B)'
      BY <2>5 DEF Loading
    <3> QED
      BY <3>1, <3>2
  <2>8. s # m => Loading(s, N)' = Loading(s, N) /\ Loading(s, B)' = Loading(s, B)
    BY <2>3, <2>5, LoadingSame DEF Loads1
  <2> QED
    BY <1>1, <2>6, <2>7, <2>8
<1> QED
  BY <1>7, <1>8, <1>10, <1>11, <1>12

\* A node gains a child in NewParent() and loses one in Unlink().
LEMMA ChildrenMove ==
  ASSUME IInv, NEW t \in Threads, Acts(t), NEW n \in live
  PROVE  /\ NewParent(t) /\ n = cur(t) => Gains(Children(n), Children(n)')
         /\ Unlink(t) /\ n = parent[Head(todo[t]).n] => Loses(Children(n), Children(n)')
         /\ ~ (NewParent(t) /\ n = cur(t)) /\ ~ (Unlink(t) /\ n = parent[Head(todo[t]).n]) =>
              Same(Children(n), Children(n)')
<1>0. TypeOK
  BY DEF IInv
<1>1. \A s : s \in Children(n) <=> HoldsParent(s) /\ parent[s] = n
  BY DEF Children, HoldsParent
<1>2. \A s : s \in Children(n)' <=> HoldsParent(s)' /\ parent'[s] = n
  BY DEF Children, HoldsParent
<1>3. \A s : HoldsParent(s) => parent'[s] = parent[s]
  <2>1. \A s : HoldsParent(s) => Linked(s) /\ s \in live /\ s \in Slots
    BY <1>0 DEF HoldsParent, Linked, TypeOK
  <2> QED
    BY <2>1, InUseStays, Steady
<1>4. IsFiniteSet(Children(n))
  BY <1>0, HoldersFinite
<1>5. PICK S : S = Children(n)
  OBVIOUS
<1>6. PICK T : T = Children(n)'
  OBVIOUS
<1>7. ASSUME NewParent(t)
      PROVE  (n = cur(t) => Gains(S, T)) /\ (n # cur(t) => Same(S, T))
  <2>1. pc[t] = "new" /\ parent' = parent
    BY <1>7 DEF NewParent, At
  <2>2. PICK m \in Slots : m = call[t].nxt /\ parent[m] = cur(t)
    BY <2>1, NextFacts
  <2>3. \A s : (s \in T <=> (HoldsParent(s) \/ s = m) /\ parent[s] = n)
    BY <1>2, <1>6, <1>7, <2>1, <2>2, HoldersMove
  <2>4. ~ HoldsParent(m)
    BY <1>7, <2>2, HoldersMove
  <2>5. (m \in T <=> n = cur(t)) /\ m \notin S /\ \A b : b # m => (b \in T <=> b \in S)
    BY <1>1, <1>5, <2>2, <2>3, <2>4
  <2>6. /\ (m \in T <=> m \in S) => Same(S, T)
        /\ m \in T /\ m \notin S => Gains(S, T)
    BY <1>4, <1>5, <2>5, Members
  <2> QED
    BY <2>5, <2>6
<1>8. ASSUME Unlink(t)
      PROVE  (n = parent[Head(todo[t]).n] => Loses(S, T)) /\ (n # parent[Head(todo[t]).n] => Same(S, T))
  <2>1. parent' = parent
    BY <1>8 DEF Unlink
  <2>2. PICK m : m = Head(todo[t]).n
    OBVIOUS
  <2>3. \A s : (s \in T <=> HoldsParent(s) /\ s # m /\ parent[s] = n)
    BY <1>2, <1>6, <1>8, <2>1, <2>2, HoldersMove
  <2>4. HoldsParent(m)
    BY <1>8, <2>2, HoldersMove
  <2>5. m \notin T /\ (m \in S <=> n = parent[m]) /\ \A b : b # m => (b \in T <=> b \in S)
    BY <1>1, <1>5, <2>3, <2>4
  <2>6. /\ (m \in T <=> m \in S) => Same(S, T)
        /\ m \notin T /\ m \in S => Loses(S, T)
    BY <1>4, <1>5, <2>5, Members
  <2> QED
    BY <2>2, <2>5, <2>6
<1>9. ASSUME ~ NewParent(t), ~ Unlink(t)
      PROVE  Same(S, T)
  <2>1. \A s : HoldsParent(s)' <=> HoldsParent(s)
    <3>1. ASSUME NEW s PROVE HoldsParent(s)' <=> HoldsParent(s)
      BY <1>9, HoldersMove
    <3> QED
      BY <3>1
  <2>2. T = S
    BY <1>1, <1>2, <1>3, <1>5, <1>6, <2>1
  <2> QED
    BY <2>2 DEF Same
<1>10. ~ (NewParent(t) /\ Unlink(t))
  BY DEF NewParent, Unlink, At, Doing
<1> QED
  BY <1>5, <1>6, <1>7, <1>8, <1>9, <1>10

\* So does its file system, in NewFs() and Unlink().
LEMMA NodesMove ==
  ASSUME IInv, NEW t \in Threads, Acts(t)
  PROVE  /\ NewFs(t) => Gains(Nodes("main"), Nodes("main")')
         /\ Unlink(t) => Loses(Nodes("main"), Nodes("main")')
         /\ ~ NewFs(t) /\ ~ Unlink(t) => Same(Nodes("main"), Nodes("main")')
         /\ Nodes("sub") = {} /\ Nodes("sub")' = {}
<1>0. TypeOK
  BY DEF IInv
<1>1. \A s : (s \in Nodes("main") <=> HoldsFs(s)) /\ (s \in Nodes("main")' <=> HoldsFs(s)')
  BY DEF Nodes, HoldsFs
<1>2. IsFiniteSet(Nodes("main"))
  BY <1>0, HoldersFinite
<1>3. PICK S : S = Nodes("main")
  OBVIOUS
<1>4. PICK T : T = Nodes("main")'
  OBVIOUS
<1>5. ASSUME NewFs(t) PROVE Gains(S, T)
  <2>1. PICK m : m = call[t].nxt
    OBVIOUS
  <2>2. m \in T /\ m \notin S /\ \A b : b # m => (b \in T <=> b \in S)
    BY <1>1, <1>3, <1>4, <1>5, <2>1, HoldersMove
  <2> QED
    BY <1>2, <1>3, <2>2, Members
<1>6. ASSUME Unlink(t) PROVE Loses(S, T)
  <2>1. PICK m : m = Head(todo[t]).n
    OBVIOUS
  <2>2. m \notin T /\ m \in S /\ \A b : b # m => (b \in T <=> b \in S)
    BY <1>1, <1>3, <1>4, <1>6, <2>1, HoldersMove
  <2> QED
    BY <1>2, <1>3, <2>2, Members
<1>7. ASSUME ~ NewFs(t), ~ Unlink(t) PROVE Same(S, T)
  <2>1. \A s : HoldsFs(s)' <=> HoldsFs(s)
    <3>1. ASSUME NEW s PROVE HoldsFs(s)' <=> HoldsFs(s)
      BY <1>7, HoldersMove
    <3> QED
      BY <3>1
  <2>2. T = S
    BY <1>1, <1>3, <1>4, <2>1
  <2> QED
    BY <2>2 DEF Same
<1>8. Nodes("sub") = {} /\ Nodes("sub")' = {}
  BY DEF Nodes
<1> QED
  BY <1>3, <1>4, <1>5, <1>6, <1>7, <1>8

\* ... the open handles, ...
LEMMA OpenMove ==
  ASSUME IInv, NEW t \in Threads, Acts(t), NEW n, NEW f
  PROVE  /\ fs_open(t) =>
              /\ n = cur(t) => Gains(OpenNodes(n), OpenNodes(n)')
              /\ n # cur(t) => Same(OpenNodes(n), OpenNodes(n)')
              /\ f = call[t].fs => Gains(OpenFiles(f), OpenFiles(f)')
              /\ f # call[t].fs => Same(OpenFiles(f), OpenFiles(f)')
         /\ \A u \in Threads : \A h \in handles[u] : unref_file(t, u, h) =>
              /\ n = h[2] => Loses(OpenNodes(n), OpenNodes(n)')
              /\ n # h[2] => Same(OpenNodes(n), OpenNodes(n)')
              /\ f = h[1] => Loses(OpenFiles(f), OpenFiles(f)')
              /\ f # h[1] => Same(OpenFiles(f), OpenFiles(f)')
         /\ ~ fs_open(t) /\ ~ Closes(t) =>
              Same(OpenNodes(n), OpenNodes(n)') /\ Same(OpenFiles(f), OpenFiles(f)')
<1>0. TypeOK /\ handles \in [Threads -> SUBSET (Fs \X Slots)]
  BY DEF IInv, TypeOK
<1>1. IsFiniteSet(OpenNodes(n)) /\ IsFiniteSet(OpenFiles(f))
  BY <1>0, HoldersFinite
<1>2. PICK S : S = OpenNodes(n)
  OBVIOUS
<1>3. PICK T : T = OpenNodes(n)'
  OBVIOUS
<1>4. PICK U : U = OpenFiles(f)
  OBVIOUS
<1>5. PICK V : V = OpenFiles(f)'
  OBVIOUS
<1>6. /\ \A x : x \in S <=> x \in Threads \X Fs /\ <<x[2], n>> \in handles[x[1]]
      /\ \A x : x \in T <=> x \in Threads \X Fs /\ <<x[2], n>> \in handles'[x[1]]
      /\ \A x : x \in U <=> x \in Threads \X Slots /\ <<f, x[2]>> \in handles[x[1]]
      /\ \A x : x \in V <=> x \in Threads \X Slots /\ <<f, x[2]>> \in handles'[x[1]]
  BY <1>2, <1>3, <1>4, <1>5 DEF OpenNodes, OpenFiles
<1>7. ASSUME fs_open(t)
      PROVE  /\ n = cur(t) => Gains(S, T)
             /\ n # cur(t) => Same(S, T)
             /\ f = call[t].fs => Gains(U, V)
             /\ f # call[t].fs => Same(U, V)
  <2>1. /\ InCall(t) /\ pc[t] = "opened"
        /\ handles' = [handles EXCEPT ![t] = @ \cup {<<call[t].fs, cur(t)>>}]
    BY <1>7 DEF fs_open, At, InCall
  <2>2. call[t].fs \in Fs /\ cur(t) \in Slots
    BY <2>1, CallFacts
  <2>3. handles[t] = {}
    BY <2>1 DEF IInv, CallsInStep, CallInStep
  <2>4. PICK g \in Fs : g = call[t].fs
    BY <2>2
  <2>5. PICK m \in Slots : m = cur(t)
    BY <2>2
  <2>6. handles'[t] = {<<g, m>>} /\ \A u \in Threads : u # t => handles'[u] = handles[u]
    BY <1>0, <2>1, <2>3, <2>4, <2>5
  <2>7. /\ <<t, g>> \notin S /\ (<<t, g>> \in T <=> n = m)
        /\ \A b : b # <<t, g>> => (b \in T <=> b \in S)
    <3>1. <<t, g>> \notin S /\ (<<t, g>> \in T <=> n = m)
      <4>1. <<t, g>> \in T <=> <<g, n>> \in handles'[t]
        BY <1>6
      <4>2. <<t, g>> \in S <=> <<g, n>> \in handles[t]
        BY <1>6
      <4>3. <<g, n>> \in {<<g, m>>} <=> n = m
        OBVIOUS
      <4> QED
        BY <2>3, <2>6, <4>1, <4>2, <4>3
    <3>2. ASSUME NEW b, b # <<t, g>> PROVE b \in T <=> b \in S
      <4>1. CASE b \notin Threads \X Fs
        BY <1>6, <4>1
      <4>2. CASE b \in Threads \X Fs
        <5>1. b = <<b[1], b[2]>> /\ b[1] \in Threads
          BY <4>2
        <5>2. CASE b[1] = t
          BY <1>6, <2>3, <2>6, <3>2, <5>1, <5>2
        <5>3. CASE b[1] # t
          BY <1>6, <2>6, <5>1, <5>3
        <5> QED
          BY <5>2, <5>3
      <4> QED
        BY <4>1, <4>2
    <3> QED
      BY <3>1, <3>2
  <2>8. /\ <<t, m>> \notin U /\ (<<t, m>> \in V <=> f = g)
        /\ \A b : b # <<t, m>> => (b \in V <=> b \in U)
    <3>1. <<t, m>> \notin U /\ (<<t, m>> \in V <=> f = g)
      <4>1. <<t, m>> \in V <=> <<f, m>> \in handles'[t]
        BY <1>6
      <4>2. <<t, m>> \in U <=> <<f, m>> \in handles[t]
        BY <1>6
      <4>3. <<f, m>> \in {<<g, m>>} <=> f = g
        OBVIOUS
      <4> QED
        BY <2>3, <2>6, <4>1, <4>2, <4>3
    <3>2. ASSUME NEW b, b # <<t, m>> PROVE b \in V <=> b \in U
      <4>1. CASE b \notin Threads \X Slots
        BY <1>6, <4>1
      <4>2. CASE b \in Threads \X Slots
        <5>1. b = <<b[1], b[2]>> /\ b[1] \in Threads
          BY <4>2
        <5>2. CASE b[1] = t
          BY <1>6, <2>3, <2>6, <3>2, <5>1, <5>2
        <5>3. CASE b[1] # t
          BY <1>6, <2>6, <5>1, <5>3
        <5> QED
          BY <5>2, <5>3
      <4> QED
        BY <4>1, <4>2
    <3> QED
      BY <3>1, <3>2
  <2>9. (n = m => Gains(S, T)) /\ (n # m => Same(S, T))
    <3>1. PICK a : a = <<t, g>>
      OBVIOUS
    <3>2. IsFiniteSet(S) /\ a \notin S /\ (a \in T <=> n = m) /\ \A b : b # a => (b \in T <=> b \in S)
      BY <1>1, <1>2, <2>7, <3>1
    <3> QED
      BY <3>2, Members
  <2>10. (f = g => Gains(U, V)) /\ (f # g => Same(U, V))
    <3>1. PICK a : a = <<t, m>>
      OBVIOUS
    <3>2. IsFiniteSet(U) /\ a \notin U /\ (a \in V <=> f = g) /\ \A b : b # a => (b \in V <=> b \in U)
      BY <1>1, <1>4, <2>8, <3>1
    <3> QED
      BY <3>2, Members
  <2> QED
    BY <2>4, <2>5, <2>9, <2>10
<1>8. ASSUME NEW u \in Threads, NEW h \in handles[u], unref_file(t, u, h)
      PROVE  /\ n = h[2] => Loses(S, T)
             /\ n # h[2] => Same(S, T)
             /\ f = h[1] => Loses(U, V)
             /\ f # h[1] => Same(U, V)
  <2>1. handles' = [handles EXCEPT ![u] = @ \ {h}]
    BY <1>8 DEF unref_file
  <2>2. h = <<h[1], h[2]>> /\ h[1] \in Fs /\ h[2] \in Slots
    BY <1>0
  <2>3. PICK g \in Fs : g = h[1]
    BY <2>2
  <2>4. PICK m \in Slots : m = h[2]
    BY <2>2
  <2>5. h = <<g, m>>
    BY <2>2, <2>3, <2>4
  <2>6. handles'[u] = handles[u] \ {<<g, m>>} /\ \A v \in Threads : v # u => handles'[v] = handles[v]
    BY <1>0, <2>1, <2>5
  <2>7. /\ <<u, g>> \notin T \/ n # m
        /\ n = m => <<u, g>> \in S
        /\ n # m => T = S
        /\ \A b : b # <<u, g>> => (b \in T <=> b \in S)
    <3>1. (<<u, g>> \notin T \/ n # m) /\ (n = m => <<u, g>> \in S)
      BY <1>6, <1>8, <2>5, <2>6
    <3>2. ASSUME NEW b, b # <<u, g>> \/ n # m PROVE b \in T <=> b \in S
      <4>1. CASE b \notin Threads \X Fs
        BY <1>6, <4>1
      <4>2. CASE b \in Threads \X Fs
        <5>1. b = <<b[1], b[2]>> /\ b[1] \in Threads
          BY <4>2
        <5>2. CASE b[1] = u
          <6>1. <<b[2], n>> # <<g, m>>
            BY <3>2, <5>1, <5>2
          <6> QED
            BY <1>6, <2>6, <5>2, <6>1
        <5>3. CASE b[1] # u
          BY <1>6, <2>6, <5>1, <5>3
        <5> QED
          BY <5>2, <5>3
      <4> QED
        BY <4>1, <4>2
    <3>3. n # m => \A b : b \in T <=> b \in S
      BY <3>2
    <3>4. n # m => T = S
      BY <1>2, <1>3, <3>3 DEF OpenNodes
    <3> QED
      BY <3>1, <3>2, <3>4
  <2>8. /\ <<u, m>> \notin V \/ f # g
        /\ f = g => <<u, m>> \in U
        /\ f # g => V = U
        /\ \A b : b # <<u, m>> => (b \in V <=> b \in U)
    <3>1. (<<u, m>> \notin V \/ f # g) /\ (f = g => <<u, m>> \in U)
      BY <1>6, <1>8, <2>5, <2>6
    <3>2. ASSUME NEW b, b # <<u, m>> \/ f # g PROVE b \in V <=> b \in U
      <4>1. CASE b \notin Threads \X Slots
        BY <1>6, <4>1
      <4>2. CASE b \in Threads \X Slots
        <5>1. b = <<b[1], b[2]>> /\ b[1] \in Threads
          BY <4>2
        <5>2. CASE b[1] = u
          <6>1. <<f, b[2]>> # <<g, m>>
            BY <3>2, <5>1, <5>2
          <6> QED
            BY <1>6, <2>6, <5>2, <6>1
        <5>3. CASE b[1] # u
          BY <1>6, <2>6, <5>1, <5>3
        <5> QED
          BY <5>2, <5>3
      <4> QED
        BY <4>1, <4>2
    <3>3. f # g => \A b : b \in V <=> b \in U
      BY <3>2
    <3>4. f # g => V = U
      BY <1>4, <1>5, <3>3 DEF OpenFiles
    <3> QED
      BY <3>1, <3>2, <3>4
  <2>9. (n = m => Loses(S, T)) /\ (n # m => Same(S, T))
    <3>1. PICK a : a = <<u, g>>
      OBVIOUS
    <3>2. IsFiniteSet(S) /\ (n = m => a \in S /\ a \notin T) /\ \A b : b # a => (b \in T <=> b \in S)
      BY <1>1, <1>2, <2>7, <3>1
    <3>3. n = m => Loses(S, T)
      BY <3>2, Members
    <3>4. n # m => Same(S, T)
      BY <2>7 DEF Same
    <3> QED
      BY <3>3, <3>4
  <2>10. (f = g => Loses(U, V)) /\ (f # g => Same(U, V))
    <3>1. PICK a : a = <<u, m>>
      OBVIOUS
    <3>2. IsFiniteSet(U) /\ (f = g => a \in U /\ a \notin V) /\ \A b : b # a => (b \in V <=> b \in U)
      BY <1>1, <1>4, <2>8, <3>1
    <3>3. f = g => Loses(U, V)
      BY <3>2, Members
    <3>4. f # g => Same(U, V)
      BY <2>8 DEF Same
    <3> QED
      BY <3>3, <3>4
  <2> QED
    BY <2>3, <2>4, <2>9, <2>10
<1>9. ASSUME ~ fs_open(t), ~ Closes(t) PROVE Same(S, T) /\ Same(U, V)
  <2>1. handles' = handles
    BY <1>9, Frames
  <2>2. S = T /\ U = V
    BY <1>2, <1>3, <1>4, <1>5, <2>1 DEF OpenNodes, OpenFiles
  <2> QED
    BY <2>2 DEF Same
<1> QED
  BY <1>2, <1>3, <1>4, <1>5, <1>7, <1>8, <1>9

\* ... the file systems that have a node for root, and those that processes have.
DropsRoot(t) == unref_fs(t) /\ Head(todo[t]) = fsys("sub") /\ fsrefs["sub"] = 1

\* A node becomes a root in fs_subfs() and is one until the file system goes.
LEMMA RootsMove ==
  ASSUME IInv, NEW t \in Threads, Acts(t), NEW n \in live, n \in live'
  PROVE  /\ fs_subfs(t) /\ n = cur(t) => Gains(Roots(n), Roots(n)')
         /\ DropsRoot(t) /\ n = fsroot["sub"] => Loses(Roots(n), Roots(n)')
         /\ ~ (fs_subfs(t) /\ n = cur(t)) /\ ~ (DropsRoot(t) /\ n = fsroot["sub"]) =>
              Same(Roots(n), Roots(n)')
<1>0. /\ TypeOK /\ fsrefs \in [Fs -> Nat] /\ fsroot \in [Fs -> Slots \cup {NoSlot}]
      /\ "main" \in Fs /\ "sub" \in Fs /\ n \in Slots /\ n # NoSlot
      /\ \A f \in Fs : f \in {"main", "sub"}
  BY VfsAssumption DEF IInv, TypeOK, Fs
<1>1. IsFiniteSet(Roots(n))
  BY <1>0, HoldersFinite
<1>2. PICK S : S = Roots(n)
  OBVIOUS
<1>3. PICK T : T = Roots(n)'
  OBVIOUS
<1>4. /\ \A f : f \in S <=> f \in Fs /\ fsrefs[f] > 0 /\ fsroot[f] = n
      /\ \A f : f \in T <=> f \in Fs /\ fsrefs'[f] > 0 /\ fsroot'[f] = n
  BY <1>2, <1>3 DEF Roots
<1>5. ASSUME fs_subfs(t)
      PROVE  (n = cur(t) => Gains(S, T)) /\ (n # cur(t) => Same(S, T))
  <2>1. /\ fsrefs' = [fsrefs EXCEPT !["sub"] = 1] /\ fsrefs["sub"] = 0
        /\ fsroot' = [fsroot EXCEPT !["sub"] = cur(t)]
    BY <1>5 DEF fs_subfs
  <2>2. "sub" \notin S /\ ("sub" \in T <=> n = cur(t)) /\ \A b : b # "sub" => (b \in T <=> b \in S)
    <3>1. "sub" \notin S /\ ("sub" \in T <=> n = cur(t))
      BY <1>0, <1>4, <2>1
    <3>2. \A b : b # "sub" => (b \in T <=> b \in S)
      BY <1>0, <1>4, <2>1
    <3> QED
      BY <3>1, <3>2
  <2> QED
    BY <1>1, <1>2, <2>2, Members
<1>6. ASSUME unref_fs(t)
      PROVE  /\ DropsRoot(t) /\ n = fsroot["sub"] => Loses(S, T)
             /\ ~ (DropsRoot(t) /\ n = fsroot["sub"]) => Same(S, T)
  <2>1. PICK f \in Fs : 
              /\ todo[t] # <<>> /\ Head(todo[t]) = fsys(f)
              /\ fsrefs' = [fsrefs EXCEPT ![f] = @ - 1] /\ fsrefs[f] >= 1
              /\ IF f = "main" /\ fsrefs[f] = 1
                 THEN live' = live \ {Root} /\ UNCHANGED fsroot
                 ELSE UNCHANGED live /\ fsroot' = IF fsrefs[f] = 1
                                                  THEN [fsroot EXCEPT ![f] = NoSlot] ELSE fsroot
    BY <1>6, FsMoves
  <2>2. PICK k \in Nat : k = fsrefs[f]
    BY <1>0
  <2>3. fsrefs'[f] = k - 1 /\ k >= 1 /\ \A g \in Fs : g # f => fsrefs'[g] = fsrefs[g]
    BY <1>0, <2>1, <2>2
  <2>4. CASE k # 1
    <3>1. fsroot' = fsroot
      BY <2>1, <2>2, <2>4
    <3>2. \A b : b \in T <=> b \in S
      BY <1>0, <1>4, <2>2, <2>3, <2>4, <3>1
    <3>3. T = S
      BY <1>2, <1>3, <3>2 DEF Roots
    <3>4. ~ DropsRoot(t)
      <4>1. Head(todo[t]) = fsys("sub") => f = "sub"
        BY <2>1 DEF fsys
      <4> QED
        BY <2>2, <2>4, <4>1 DEF DropsRoot
    <3> QED
      BY <3>3, <3>4 DEF Same
  <2>5. CASE k = 1 /\ f = "main"
    <3>1. fsroot' = fsroot /\ n # Root /\ fsroot["main"] = Root
      BY <2>1, <2>2, <2>5, RootFacts
    <3>2. \A b : b \in T <=> b \in S
      BY <1>0, <1>4, <2>2, <2>3, <2>5, <3>1
    <3>3. T = S
      BY <1>2, <1>3, <3>2 DEF Roots
    <3>4. ~ DropsRoot(t)
      BY <2>1, <2>5 DEF DropsRoot, fsys
    <3> QED
      BY <3>3, <3>4 DEF Same
  <2>6. CASE k = 1 /\ f = "sub"
    <3>1. fsroot' = [fsroot EXCEPT !["sub"] = NoSlot]
      BY <2>1, <2>2, <2>6
    <3>2. DropsRoot(t)
      BY <1>6, <2>1, <2>2, <2>6 DEF DropsRoot
    <3>3. "sub" \notin T /\ ("sub" \in S <=> n = fsroot["sub"]) /\ \A b : b # "sub" => (b \in T <=> b \in S)
      <4>1. "sub" \notin T
        BY <1>4, <2>3, <2>6
      <4>2. "sub" \in S <=> n = fsroot["sub"]
        <5>1. fsrefs["sub"] = 1
          BY <2>2, <2>6
        <5>2. fsrefs["sub"] > 0
          BY <5>1
        <5> QED
          BY <1>0, <1>4, <5>2
      <4>3. \A b : b # "sub" => (b \in T <=> b \in S)
        BY <1>0, <1>4, <2>3, <2>6, <3>1
      <4> QED
        BY <4>1, <4>2, <4>3
    <3> QED
      BY <1>1, <1>2, <3>2, <3>3, Members
  <2> QED
    BY <1>0, <2>4, <2>5, <2>6
<1>7. ASSUME ~ fs_subfs(t), ~ unref_fs(t) PROVE Same(S, T)
  <2>1. fsroot' = fsroot
    BY <1>7, Frames
  <2>2. \A f \in Fs : fsrefs'[f] > 0 <=> fsrefs[f] > 0
    <3>1. CASE fsrefs' = fsrefs
      BY <3>1
    <3>2. CASE NewFs(t)
      <4>1. fsrefs' = [fsrefs EXCEPT !["main"] = @ + 1] /\ fsrefs["main"] >= 1
        BY <3>2, FsMoves
      <4> QED
        BY <1>0, <4>1
    <3>3. CASE fs_open(t)
      <4>1. PICK f \in Fs : fsrefs' = [fsrefs EXCEPT ![f] = @ + 1] /\ fsrefs[f] >= 1
        BY <3>3, FsMoves
      <4>2. \A g \in Fs : fsrefs'[g] = IF g = f THEN fsrefs[f] + 1 ELSE fsrefs[g]
        BY <1>0, <4>1
      <4> QED
        BY <1>0, <4>1, <4>2
    <3> QED
      BY <1>7, <3>1, <3>2, <3>3, Frames
  <2>3. S = T
    BY <1>2, <1>3, <2>1, <2>2 DEF Roots
  <2> QED
    BY <2>3 DEF Same
<1>8. ~ (fs_subfs(t) /\ unref_fs(t)) /\ (DropsRoot(t) => unref_fs(t))
  <2>1. fs_subfs(t) => todo[t] = <<>>
    BY DEF fs_subfs, Arrived, At
  <2>2. unref_fs(t) => todo[t] # <<>>
    BY DEF unref_fs, Doing
  <2> QED
    BY <2>1, <2>2 DEF DropsRoot
<1> QED
  BY <1>2, <1>3, <1>5, <1>6, <1>7, <1>8

\* Processes come to hold a file system in fs_subfs() and leave it in rm_fs().
LEMMA OwnedMove ==
  ASSUME IInv, NEW t \in Threads, Acts(t), NEW f \in Fs
  PROVE  LET S == {f} \cap owned IN
         /\ fs_subfs(t) /\ f = "sub" => Gains(S, S')
         /\ \A g \in Fs : rm_fs(t, g) => (f = g => Loses(S, S')) /\ (f # g => Same(S, S'))
         /\ ~ (fs_subfs(t) /\ f = "sub") /\ ~ Leaves(t) => Same(S, S')
<1>0. TypeOK /\ StacksFinite /\ CountsExact
  BY DEF IInv
<1>1. IsFiniteSet({f} \cap owned)
  BY <1>0, HoldersFinite
<1>2. PICK S : S = {f} \cap owned
  OBVIOUS
<1>3. PICK T : T = ({f} \cap owned)'
  OBVIOUS
<1>4. S = {f} \cap owned /\ T = {f} \cap owned'
  BY <1>2, <1>3
<1>5. \A b : b # f => (b \in T <=> b \in S)
  BY <1>4
<1>6. ASSUME fs_subfs(t) PROVE (f = "sub" => Gains(S, T)) /\ (f # "sub" => Same(S, T))
  <2>1. owned' = owned \cup {"sub"} /\ fsrefs["sub"] = 0
    BY <1>6 DEF fs_subfs
  <2>2. "sub" \notin owned
    BY <1>0, <2>1, Positive DEF Fs
  <2>3. f = "sub" => f \in T /\ f \notin S
    BY <1>4, <2>1, <2>2
  <2>4. f # "sub" => (f \in T <=> f \in S)
    BY <1>4, <2>1
  <2> QED
    BY <1>1, <1>2, <1>5, <2>3, <2>4, Members
<1>7. ASSUME NEW g \in Fs, rm_fs(t, g) PROVE (f = g => Loses(S, T)) /\ (f # g => Same(S, T))
  <2>1. owned' = owned \ {g} /\ g \in owned
    BY <1>7 DEF rm_fs
  <2>2. (f = g => f \notin T /\ f \in S) /\ (f # g => (f \in T <=> f \in S))
    BY <1>4, <2>1
  <2> QED
    BY <1>1, <1>2, <1>5, <2>2, Members
<1>8. ASSUME ~ fs_subfs(t), ~ Leaves(t) PROVE Same(S, T)
  <2>1. owned' = owned
    BY <1>8, Frames
  <2> QED
    BY <1>4, <2>1 DEF Same
<1> QED
  BY <1>2, <1>3, <1>6, <1>7, <1>8

\* The references that are about to be dropped.
LEMMA ItemsDiffer ==
  /\ \A n, m : node(n) = node(m) <=> n = m
  /\ \A n, m : node(n) # par(m) /\ node(n) # free(m) /\ par(n) # free(m)
  /\ \A n, f : node(n) # fsys(f) /\ par(n) # fsys(f) /\ free(n) # fsys(f)
  /\ \A f, g : fsys(f) = fsys(g) <=> f = g
BY DEF node, par, free, fsys

\* PlacesMove, as sets that gain or lose one member.
LEMMA PlacesNow ==
  ASSUME IInv, NEW t \in Threads, Acts(t), NEW x \in Items
  PROVE  LET S == Places(x) IN
         /\ todo' = todo => Same(S, S')
         /\ todo[t] = <<>> => \A a \in Items : Puts(t, <<a>>) =>
              (x = a => Gains(S, S')) /\ (x # a => Same(S, S'))
         /\ todo[t] = <<>> => \A a, b \in Items : Puts(t, <<a, b>>) /\ a # b =>
              (x = a \/ x = b => Gains(S, S')) /\ (x # a /\ x # b => Same(S, S'))
         /\ UnrefNode(t) \/ FreeNode(t) =>
              (x = Head(todo[t]) => Loses(S, S')) /\ (x # Head(todo[t]) => Same(S, S'))
         /\ \A a \in Items : todo[t] # <<>> /\ Instead(t, <<a>>) /\ a # Head(todo[t]) =>
              /\ x = Head(todo[t]) => Loses(S, S')
              /\ x = a => Gains(S, S')
              /\ x # a /\ x # Head(todo[t]) => Same(S, S')
         /\ unref_fs(t) /\ Instead(t, <<>>) =>
              (x = Head(todo[t]) => Loses(S, S')) /\ (x # Head(todo[t]) => Same(S, S'))
         /\ \A n, p : n \in Slots /\ p \in Slots /\ Head(todo[t]) = par(n) /\ Unlink(t)
                      /\ Instead(t, <<node(p), fsys("main"), free(n)>>) =>
              /\ x = par(n) => Loses(S, S')
              /\ x \in {node(p), fsys("main"), free(n)} => Gains(S, S')
              /\ x \notin {node(p), fsys("main"), free(n), par(n)} => Same(S, S')
<1>1. PICK N : N = Cardinality(Places(x))
  OBVIOUS
<1>2. PICK M : M = Cardinality(Places(x)')
  OBVIOUS
<1>3. UnrefNode(t) \/ FreeNode(t) \/ unref_fs(t) \/ Unlink(t) => todo[t] # <<>>
  BY DEF UnrefNode, FreeNode, unref_fs, Unlink, Doing
<1>4. UnrefNode(t) \/ FreeNode(t) => Instead(t, <<>>)
  BY DEF UnrefNode, FreeNode
<1>5. /\ M = N => Same(Places(x), Places(x)')
      /\ M = N + 1 => Gains(Places(x), Places(x)')
      /\ M = N - 1 => Loses(Places(x), Places(x)')
  BY <1>1, <1>2 DEF Same, Gains, Loses
<1>6. todo' = todo => Same(Places(x), Places(x)')
  BY <1>1, <1>2, <1>5, PlacesMove
<1>7. ASSUME todo[t] = <<>>, NEW a \in Items, Puts(t, <<a>>)
      PROVE  (x = a => Gains(Places(x), Places(x)')) /\ (x # a => Same(Places(x), Places(x)'))
  <2>1. todo[t] = <<>> => \A b \in Items : Puts(t, <<b>>) =>
          (x = b => M = N + 1) /\ (x # b => M = N)
    BY <1>1, <1>2, PlacesMove
  <2>2. (x = a => M = N + 1) /\ (x # a => M = N)
    BY <1>7, <2>1
  <2> QED
    BY <1>5, <2>2
<1>8. ASSUME todo[t] = <<>>, NEW a \in Items, NEW b \in Items,
             Puts(t, <<a, b>>), a # b
      PROVE  /\ x = a \/ x = b => Gains(Places(x), Places(x)')
             /\ x # a /\ x # b => Same(Places(x), Places(x)')
  <2>1. todo[t] = <<>> => \A c, d \in Items : Puts(t, <<c, d>>) /\ c # d =>
          (x = c \/ x = d => M = N + 1) /\ (x # c /\ x # d => M = N)
    BY <1>1, <1>2, PlacesMove
  <2>2. (x = a \/ x = b => M = N + 1) /\ (x # a /\ x # b => M = N)
    BY <1>8, <2>1
  <2> QED
    BY <1>5, <2>2
<1>9. ASSUME todo[t] # <<>>, Instead(t, <<>>)
      PROVE  /\ x = Head(todo[t]) => Loses(Places(x), Places(x)')
             /\ x # Head(todo[t]) => Same(Places(x), Places(x)')
  <2>1. (x = Head(todo[t]) => M = N - 1) /\ (x # Head(todo[t]) => M = N)
    BY <1>1, <1>2, <1>9, PlacesMove
  <2> QED
    BY <1>5, <2>1
<1>10. ASSUME todo[t] # <<>>, NEW a \in Items, Instead(t, <<a>>), a # Head(todo[t])
       PROVE  /\ x = Head(todo[t]) => Loses(Places(x), Places(x)')
              /\ x = a => Gains(Places(x), Places(x)')
              /\ x # a /\ x # Head(todo[t]) => Same(Places(x), Places(x)')
  <2>1. /\ x = Head(todo[t]) => M = N - 1
        /\ x = a => M = N + 1
        /\ x # a /\ x # Head(todo[t]) => M = N
    BY <1>1, <1>2, <1>10, PlacesMove
  <2> QED
    BY <1>5, <2>1
<1>11. ASSUME NEW n \in Slots, NEW p \in Slots, Head(todo[t]) = par(n), Unlink(t),
              Instead(t, <<node(p), fsys("main"), free(n)>>)
       PROVE  /\ x = par(n) => Loses(Places(x), Places(x)')
              /\ x \in {node(p), fsys("main"), free(n)} => Gains(Places(x), Places(x)')
              /\ x \notin {node(p), fsys("main"), free(n), par(n)} => Same(Places(x), Places(x)')
  <2>1. PICK a \in Items : a = node(p)
    BY ItemFacts
  <2>2. PICK b \in Items : b = fsys("main")
    BY ItemFacts DEF Fs
  <2>3. PICK c \in Items : c = free(n)
    BY ItemFacts
  <2>4. Head(todo[t]) \notin {a, b, c} /\ a # b /\ a # c /\ b # c
    BY <1>11, <2>1, <2>2, <2>3, ItemsDiffer
  <2>5. todo[t] # <<>> /\ Instead(t, <<a, b, c>>)
    BY <1>3, <1>11, <2>1, <2>2, <2>3
  <2>6. /\ x = Head(todo[t]) => M = N - 1
        /\ x = a \/ x = b \/ x = c => M = N + 1
        /\ x # a /\ x # b /\ x # c /\ x # Head(todo[t]) => M = N
    BY <1>1, <1>2, <2>4, <2>5, PlacesMove
  <2> QED
    BY <1>5, <1>11, <2>1, <2>2, <2>3, <2>6
<1> QED
  BY <1>3, <1>4, <1>6, <1>7, <1>8, <1>9, <1>10, <1>11

\* What the steps of a thread that has such references leave on its stack.
LEMMA NodePlaces ==
  ASSUME IInv, NEW t \in Threads, Acts(t), NEW n \in Slots
  PROVE  LET S == Places(node(n)) IN
         /\ todo' = todo => Same(S, S')
         /\ \A m \in Slots : todo[t] = <<>> /\ Puts(t, <<node(m)>>) =>
              (n = m => Gains(S, S')) /\ (n # m => Same(S, S'))
         /\ \A m \in Slots : \A f \in Fs :
              todo[t] = <<>> /\ Puts(t, <<node(m), fsys(f)>>) =>
                (n = m => Gains(S, S')) /\ (n # m => Same(S, S'))
         /\ \A f \in Fs : todo[t] = <<>> /\ Puts(t, <<fsys(f)>>) => Same(S, S')
         /\ UnrefNode(t) \/ LastRef(t) =>
              (n = Head(todo[t]).n => Loses(S, S')) /\ (n # Head(todo[t]).n => Same(S, S'))
         /\ FreeNode(t) => Same(S, S')
         /\ Unlink(t) => /\ n = parent[Head(todo[t]).n] => Gains(S, S')
                         /\ n # parent[Head(todo[t]).n] => Same(S, S')
         /\ unref_fs(t) => /\ DropsRoot(t) /\ n = fsroot["sub"] => Gains(S, S')
                           /\ ~ (DropsRoot(t) /\ n = fsroot["sub"]) => Same(S, S')
<1>1. PICK x \in Items : x = node(n)
  BY ItemFacts
<1>2. PICK S : S = Places(x)
  OBVIOUS
<1>3. PICK T : T = Places(x)'
  OBVIOUS
<1>4. todo' = todo => Same(S, T)
  BY <1>2, <1>3, PlacesNow
<1>5. ASSUME NEW m \in Slots, todo[t] = <<>>, Puts(t, <<node(m)>>)
      PROVE  (n = m => Gains(S, T)) /\ (n # m => Same(S, T))
  <2>1. PICK a \in Items : a = node(m)
    BY ItemFacts
  <2>2. (x = a => Gains(S, T)) /\ (x # a => Same(S, T))
    BY <1>2, <1>3, <1>5, <2>1, PlacesNow
  <2> QED
    BY <1>1, <2>1, <2>2, ItemsDiffer
<1>6. ASSUME NEW m \in Slots, NEW f \in Fs, todo[t] = <<>>,
             Puts(t, <<node(m), fsys(f)>>)
      PROVE  (n = m => Gains(S, T)) /\ (n # m => Same(S, T))
  <2>1. PICK a \in Items : a = node(m)
    BY ItemFacts
  <2>2. PICK b \in Items : b = fsys(f)
    BY ItemFacts
  <2>3. a # b
    BY <2>1, <2>2, ItemsDiffer
  <2>4. (x = a \/ x = b => Gains(S, T)) /\ (x # a /\ x # b => Same(S, T))
    BY <1>2, <1>3, <1>6, <2>1, <2>2, <2>3, PlacesNow
  <2> QED
    BY <1>1, <2>1, <2>2, <2>4, ItemsDiffer
<1>7. ASSUME NEW f \in Fs, todo[t] = <<>>, Puts(t, <<fsys(f)>>)
      PROVE  Same(S, T)
  <2>1. PICK a \in Items : a = fsys(f)
    BY ItemFacts
  <2>2. x # a => Same(S, T)
    BY <1>2, <1>3, <1>7, <2>1, PlacesNow
  <2> QED
    BY <1>1, <2>1, <2>2, ItemsDiffer
<1>8. UnrefNode(t) =>
        (n = Head(todo[t]).n => Loses(S, T)) /\ (n # Head(todo[t]).n => Same(S, T))
  <2>1. UnrefNode(t) => Head(todo[t]) = node(Head(todo[t]).n)
    <3>1. UnrefNode(t) => todo[t] # <<>>
      BY DEF UnrefNode, Doing
    <3> QED
      BY <3>1, Replacing
  <2>2. UnrefNode(t) => (x = Head(todo[t]) => Loses(S, T)) /\ (x # Head(todo[t]) => Same(S, T))
    BY <1>2, <1>3, PlacesNow
  <2> QED
    BY <1>1, <2>1, <2>2, ItemsDiffer
<1>9. LastRef(t) =>
        (n = Head(todo[t]).n => Loses(S, T)) /\ (n # Head(todo[t]).n => Same(S, T))
  <2>1. SUFFICES ASSUME LastRef(t)
                 PROVE (n = Head(todo[t]).n => Loses(S, T)) /\ (n # Head(todo[t]).n => Same(S, T))
    OBVIOUS
  <2>2. PICK m \in live : /\ todo[t] # <<>> /\ Head(todo[t]) = node(m) /\ m = Head(todo[t]).n
                          /\ m \in Slots /\ Instead(t, <<par(m)>>)
    BY <2>1, LastFacts
  <2>3. PICK a \in Items : a = par(m)
    BY <2>2, ItemFacts
  <2>4. a # Head(todo[t])
    BY <2>2, <2>3, ItemsDiffer
  <2>5. /\ x = Head(todo[t]) => Loses(S, T)
        /\ x # a /\ x # Head(todo[t]) => Same(S, T)
    BY <1>2, <1>3, <2>2, <2>3, <2>4, PlacesNow
  <2> QED
    BY <1>1, <2>2, <2>3, <2>5, ItemsDiffer
<1>10. FreeNode(t) => Same(S, T)
  <2>1. FreeNode(t) => Head(todo[t]) = free(Head(todo[t]).n)
    <3>1. FreeNode(t) => todo[t] # <<>>
      BY DEF FreeNode, Doing
    <3> QED
      BY <3>1, Replacing
  <2>2. FreeNode(t) => (x # Head(todo[t]) => Same(S, T))
    BY <1>2, <1>3, PlacesNow
  <2> QED
    BY <1>1, <2>1, <2>2, ItemsDiffer
<1>11. Unlink(t) => /\ n = parent[Head(todo[t]).n] => Gains(S, T)
                    /\ n # parent[Head(todo[t]).n] => Same(S, T)
  <2>1. SUFFICES ASSUME Unlink(t) PROVE /\ n = parent[Head(todo[t]).n] => Gains(S, T)
                                        /\ n # parent[Head(todo[t]).n] => Same(S, T)
    OBVIOUS
  <2>2. PICK m \in live : \E p \in live : \E y \in STRING : Unlinks(t, m, p, y)
    BY <2>1, UnlinkFacts
  <2>3. PICK p \in live, y \in STRING : Unlinks(t, m, p, y)
    BY <2>2
  <2>4. /\ m \in Slots /\ p \in Slots /\ Head(todo[t]) = par(m) /\ m = Head(todo[t]).n
        /\ p = parent[m] /\ Instead(t, <<node(p), fsys("main"), free(m)>>)
    BY <2>3 DEF Unlinks
  <2>5. /\ x \in {node(p), fsys("main"), free(m)} => Gains(S, T)
        /\ x \notin {node(p), fsys("main"), free(m), par(m)} => Same(S, T)
    BY <1>2, <1>3, <2>1, <2>4, PlacesNow
  <2>6. /\ x = node(p) <=> n = p
        /\ x # fsys("main") /\ x # free(m) /\ x # par(m)
    BY <1>1, ItemsDiffer
  <2> QED
    BY <2>4, <2>5, <2>6
<1>12. unref_fs(t) => /\ DropsRoot(t) /\ n = fsroot["sub"] => Gains(S, T)
                      /\ ~ (DropsRoot(t) /\ n = fsroot["sub"]) => Same(S, T)
  <2>1. SUFFICES ASSUME unref_fs(t)
                 PROVE  /\ DropsRoot(t) /\ n = fsroot["sub"] => Gains(S, T)
                        /\ ~ (DropsRoot(t) /\ n = fsroot["sub"]) => Same(S, T)
    OBVIOUS
  <2>2. todo[t] # <<>> /\ Head(todo[t]).do = "fs"
    BY <2>1 DEF unref_fs, Doing
  <2>3. PICK f \in Fs : f = Head(todo[t]).fs /\ Head(todo[t]) = fsys(f)
    BY <2>2, HeadItem
  <2>4. DropsRoot(t) <=> f = "sub" /\ fsrefs[f] = 1
    BY <2>1, <2>3, ItemsDiffer DEF DropsRoot
  <2>5. CASE DropsRoot(t)
    <3>1. Instead(t, <<node(fsroot[f])>>)
      BY <2>1, <2>3, <2>4, <2>5 DEF unref_fs
    <3>2. fsrefs["sub"] >= 1
      BY <2>4, <2>5
    <3>3. fsroot["sub"] \in live
      BY <3>2, RootFacts DEF Fs
    <3>4. PICK r \in Slots : r = fsroot["sub"]
      BY <3>3, UsedLinked
    <3>5. PICK a \in Items : a = node(r)
      BY ItemFacts
    <3>6. Instead(t, <<a>>) /\ a # Head(todo[t])
      BY <2>3, <2>4, <2>5, <3>1, <3>4, <3>5, ItemsDiffer
    <3>7. /\ x = a => Gains(S, T)
          /\ x # a /\ x # Head(todo[t]) => Same(S, T)
      BY <1>2, <1>3, <2>2, <3>6, PlacesNow
    <3>8. (x = a <=> n = r) /\ x # Head(todo[t])
      BY <1>1, <2>3, <3>5, ItemsDiffer
    <3> QED
      BY <2>5, <3>4, <3>7, <3>8
  <2>6. CASE ~ DropsRoot(t)
    <3>1. Instead(t, <<>>)
      BY <2>1, <2>3, <2>4, <2>6 DEF unref_fs
    <3>2. x # Head(todo[t]) => Same(S, T)
      BY <1>2, <1>3, <2>1, <3>1, PlacesNow
    <3> QED
      BY <1>1, <2>3, <2>6, <3>2, ItemsDiffer
  <2> QED
    BY <2>5, <2>6
<1> QED
  BY <1>1, <1>2, <1>3, <1>4, <1>5, <1>6, <1>7, <1>8, <1>9, <1>10, <1>11, <1>12

\* The same, for the items that are about file systems.
LEMMA FsPlaces ==
  ASSUME IInv, NEW t \in Threads, Acts(t), NEW f \in Fs
  PROVE  LET S == Places(fsys(f)) IN
         /\ todo' = todo => Same(S, S')
         /\ \A m \in Slots : todo[t] = <<>> /\ Puts(t, <<node(m)>>) => Same(S, S')
         /\ \A m \in Slots : \A g \in Fs : todo[t] = <<>> /\ Puts(t, <<node(m), fsys(g)>>) =>
              (f = g => Gains(S, S')) /\ (f # g => Same(S, S'))
         /\ \A g \in Fs : todo[t] = <<>> /\ Puts(t, <<fsys(g)>>) =>
              (f = g => Gains(S, S')) /\ (f # g => Same(S, S'))
         /\ UnrefNode(t) \/ LastRef(t) \/ FreeNode(t) => Same(S, S')
         /\ Unlink(t) => (f = "main" => Gains(S, S')) /\ (f # "main" => Same(S, S'))
         /\ unref_fs(t) =>
              (f = Head(todo[t]).fs => Loses(S, S')) /\ (f # Head(todo[t]).fs => Same(S, S'))
<1>1. PICK x \in Items : x = fsys(f)
  BY ItemFacts
<1>2. PICK S : S = Places(x)
  OBVIOUS
<1>3. PICK T : T = Places(x)'
  OBVIOUS
<1>4. todo' = todo => Same(S, T)
  BY <1>2, <1>3, PlacesNow
<1>5. ASSUME NEW m \in Slots, todo[t] = <<>>, Puts(t, <<node(m)>>)
      PROVE  Same(S, T)
  <2>1. PICK a \in Items : a = node(m)
    BY ItemFacts
  <2>2. x # a => Same(S, T)
    BY <1>2, <1>3, <1>5, <2>1, PlacesNow
  <2> QED
    BY <1>1, <2>1, <2>2, ItemsDiffer
<1>6. ASSUME NEW m \in Slots, NEW g \in Fs, todo[t] = <<>>, Puts(t, <<node(m), fsys(g)>>)
      PROVE  (f = g => Gains(S, T)) /\ (f # g => Same(S, T))
  <2>1. PICK a \in Items : a = node(m)
    BY ItemFacts
  <2>2. PICK b \in Items : b = fsys(g)
    BY ItemFacts
  <2>3. a # b
    BY <2>1, <2>2, ItemsDiffer
  <2>4. (x = a \/ x = b => Gains(S, T)) /\ (x # a /\ x # b => Same(S, T))
    BY <1>2, <1>3, <1>6, <2>1, <2>2, <2>3, PlacesNow
  <2> QED
    BY <1>1, <2>1, <2>2, <2>4, ItemsDiffer
<1>7. ASSUME NEW g \in Fs, todo[t] = <<>>, Puts(t, <<fsys(g)>>)
      PROVE  (f = g => Gains(S, T)) /\ (f # g => Same(S, T))
  <2>1. PICK a \in Items : a = fsys(g)
    BY ItemFacts
  <2>2. (x = a => Gains(S, T)) /\ (x # a => Same(S, T))
    BY <1>2, <1>3, <1>7, <2>1, PlacesNow
  <2> QED
    BY <1>1, <2>1, <2>2, ItemsDiffer
<1>8. UnrefNode(t) \/ FreeNode(t) => Same(S, T)
  <2>1. UnrefNode(t) \/ FreeNode(t) =>
          Head(todo[t]) \in {node(Head(todo[t]).n), free(Head(todo[t]).n)}
    <3>1. UnrefNode(t) \/ FreeNode(t) => todo[t] # <<>>
      BY DEF UnrefNode, FreeNode, Doing
    <3> QED
      BY <3>1, Replacing
  <2>2. UnrefNode(t) \/ FreeNode(t) => (x # Head(todo[t]) => Same(S, T))
    BY <1>2, <1>3, PlacesNow
  <2> QED
    BY <1>1, <2>1, <2>2, ItemsDiffer
<1>9. LastRef(t) => Same(S, T)
  <2>1. SUFFICES ASSUME LastRef(t) PROVE Same(S, T)
    OBVIOUS
  <2>2. PICK m \in live : /\ todo[t] # <<>> /\ Head(todo[t]) = node(m) /\ m = Head(todo[t]).n
                          /\ m \in Slots /\ Instead(t, <<par(m)>>)
    BY <2>1, LastFacts
  <2>3. PICK a \in Items : a = par(m)
    BY <2>2, ItemFacts
  <2>4. a # Head(todo[t])
    BY <2>2, <2>3, ItemsDiffer
  <2>5. x # a /\ x # Head(todo[t]) => Same(S, T)
    BY <1>2, <1>3, <2>2, <2>3, <2>4, PlacesNow
  <2> QED
    BY <1>1, <2>2, <2>3, <2>5, ItemsDiffer
<1>10. Unlink(t) => (f = "main" => Gains(S, T)) /\ (f # "main" => Same(S, T))
  <2>1. SUFFICES ASSUME Unlink(t) PROVE (f = "main" => Gains(S, T)) /\ (f # "main" => Same(S, T))
    OBVIOUS
  <2>2. PICK m \in live : \E p \in live : \E y \in STRING : Unlinks(t, m, p, y)
    BY <2>1, UnlinkFacts
  <2>3. PICK p \in live, y \in STRING : Unlinks(t, m, p, y)
    BY <2>2
  <2>4. /\ m \in Slots /\ p \in Slots /\ Head(todo[t]) = par(m)
        /\ Instead(t, <<node(p), fsys("main"), free(m)>>)
    BY <2>3 DEF Unlinks
  <2>5. /\ x \in {node(p), fsys("main"), free(m)} => Gains(S, T)
        /\ x \notin {node(p), fsys("main"), free(m), par(m)} => Same(S, T)
    BY <1>2, <1>3, <2>1, <2>4, PlacesNow
  <2>6. /\ x = fsys("main") <=> f = "main"
        /\ x # node(p) /\ x # free(m) /\ x # par(m)
    BY <1>1, ItemsDiffer
  <2> QED
    BY <2>4, <2>5, <2>6
<1>11. unref_fs(t) =>
         (f = Head(todo[t]).fs => Loses(S, T)) /\ (f # Head(todo[t]).fs => Same(S, T))
  <2>1. SUFFICES ASSUME unref_fs(t)
                 PROVE  (f = Head(todo[t]).fs => Loses(S, T)) /\ (f # Head(todo[t]).fs => Same(S, T))
    OBVIOUS
  <2>2. todo[t] # <<>> /\ Head(todo[t]).do = "fs"
    BY <2>1 DEF unref_fs, Doing
  <2>3. PICK g \in Fs : g = Head(todo[t]).fs /\ Head(todo[t]) = fsys(g)
    BY <2>2, HeadItem
  <2>4. DropsRoot(t) <=> g = "sub" /\ fsrefs[g] = 1
    BY <2>1, <2>3, ItemsDiffer DEF DropsRoot
  <2>5. CASE DropsRoot(t)
    <3>1. Instead(t, <<node(fsroot[g])>>)
      BY <2>1, <2>3, <2>4, <2>5 DEF unref_fs
    <3>2. fsrefs["sub"] >= 1
      BY <2>4, <2>5
    <3>3. fsroot["sub"] \in live
      BY <3>2, RootFacts DEF Fs
    <3>4. PICK r \in Slots : r = fsroot["sub"]
      BY <3>3, UsedLinked
    <3>5. PICK a \in Items : a = node(r)
      BY ItemFacts
    <3>6. Instead(t, <<a>>) /\ a # Head(todo[t])
      BY <2>3, <2>4, <2>5, <3>1, <3>4, <3>5, ItemsDiffer
    <3>7. /\ x = Head(todo[t]) => Loses(S, T)
          /\ x # a /\ x # Head(todo[t]) => Same(S, T)
      BY <1>2, <1>3, <2>2, <3>6, PlacesNow
    <3>8. (x = Head(todo[t]) <=> f = g) /\ x # a
      BY <1>1, <2>3, <3>5, ItemsDiffer
    <3> QED
      BY <2>3, <3>7, <3>8
  <2>6. CASE ~ DropsRoot(t)
    <3>1. Instead(t, <<>>)
      BY <2>1, <2>3, <2>4, <2>6 DEF unref_fs
    <3>2. (x = Head(todo[t]) => Loses(S, T)) /\ (x # Head(todo[t]) => Same(S, T))
      BY <1>2, <1>3, <2>1, <3>1, PlacesNow
    <3> QED
      BY <1>1, <2>3, <3>2, ItemsDiffer
  <2> QED
    BY <2>5, <2>6
<1> QED
  BY <1>1, <1>2, <1>3, <1>4, <1>5, <1>6, <1>7, <1>8, <1>9, <1>10, <1>11

\* Where t has a reference as a call, in each step.
LEMMA WalksMove ==
  ASSUME IInv, NEW t \in Threads, Acts(t), NEW n
  PROVE  LET S == Walkers(n) IN
         /\ Begins(t) => \E f \in owned : /\ Free(fsroot[f]) /\ refs' = [refs EXCEPT ![fsroot[f]] = @ + 1]
                                          /\ todo' = todo /\ leaked' = leaked /\ handles' = handles
                                          /\ fsrefs' = fsrefs /\ fsroot' = fsroot /\ pc[t] = "idle"
                                          /\ fsroot[f] \in live /\ ~ Unlink(t)
                                          /\ n = fsroot[f] => Gains(S, S')
                                          /\ n # fsroot[f] => Same(S, S')
         /\ Look(t) \/ Load(t) \/ NewParent(t) \/ DeleteLooked(t) \/ LockNode(t) \/ OpenOk(t) => Same(S, S')
         /\ Found(t) \/ NewFs(t) => /\ call[t].nxt # cur(t)
                                    /\ n = call[t].nxt => Gains(S, S')
                                    /\ n = cur(t) => Loses(S, S')
                                    /\ n # call[t].nxt /\ n # cur(t) => Same(S, S')
         /\ Back(t) \/ Forget(t) \/ fs_open(t) \/ fs_subfs(t) =>
              (n = cur(t) => Loses(S, S')) /\ (n # cur(t) => Same(S, S'))
         /\ Closes(t) \/ Leaves(t) => Same(S, S')
         /\ UnrefNode(t) \/ LastRef(t) \/ Unlink(t) \/ FreeNode(t) \/ unref_fs(t) => Same(S, S')
<1>0. pc \in [Threads -> PCs] /\ call \in [Threads -> Calls] /\ TypeOK
  BY DEF IInv, TypeOK
<1>1. \A p : pc' = [pc EXCEPT ![t] = p] => pc'[t] = p
  BY <1>0
<1>2. PICK p : p = pc'[t]
  OBVIOUS
<1>3. PICK c : c = call'[t].cur
  OBVIOUS
<1>4. PICK S : S = Walkers(n)
  OBVIOUS
<1>5. PICK T : T = Walkers(n)'
  OBVIOUS
<1>6. /\ (p # "idle" /\ c = n <=> InCall(t) /\ cur(t) = n) => Same(S, T)
      /\ p # "idle" /\ c = n /\ ~ (InCall(t) /\ cur(t) = n) => Gains(S, T)
      /\ ~ (p # "idle" /\ c = n) /\ InCall(t) /\ cur(t) = n => Loses(S, T)
  BY <1>2, <1>3, <1>4, <1>5, WalkersMove
<1>7. ASSUME NEW op \in Ops, NEW f \in Fs, NEW q \in Seq(STRING), Begin(t, op, f, q)
      PROVE  /\ f \in owned /\ Free(fsroot[f]) /\ refs' = [refs EXCEPT ![fsroot[f]] = @ + 1]
             /\ todo' = todo /\ leaked' = leaked /\ handles' = handles
             /\ fsrefs' = fsrefs /\ fsroot' = fsroot /\ pc[t] = "idle"
             /\ fsroot[f] \in live /\ ~ Unlink(t)
             /\ n = fsroot[f] => Gains(S, T)
             /\ n # fsroot[f] => Same(S, T)
  <2>1. /\ f \in owned /\ Free(fsroot[f]) /\ refs' = [refs EXCEPT ![fsroot[f]] = @ + 1]
        /\ pc' = [pc EXCEPT ![t] = "walk"] /\ pc[t] = "idle" /\ todo[t] = <<>>
        /\ todo' = todo /\ leaked' = leaked /\ handles' = handles /\ fsrefs' = fsrefs /\ fsroot' = fsroot
    BY <1>7 DEF Begin, Goto, At, fvars, hvars
  <2>2. \E r, x : call' = [call EXCEPT ![t] = Call(op, f, fsroot[f], NoSlot, r, x)]
    <3>1. CASE op \in {"create", "delete"}
      <4>1. call' = [call EXCEPT ![t] = Call(op, f, fsroot[f], NoSlot, Front(q), q[Len(q)])]
        BY <1>7, <3>1 DEF Begin
      <4> QED
        BY <4>1
    <3>2. CASE op \notin {"create", "delete"}
      <4>1. call' = [call EXCEPT ![t] = Call(op, f, fsroot[f], NoSlot, q, "")]
        BY <1>7, <3>2 DEF Begin
      <4> QED
        BY <4>1
    <3> QED
      BY <3>1, <3>2
  <2>3. PICK r, x : call' = [call EXCEPT ![t] = Call(op, f, fsroot[f], NoSlot, r, x)]
    BY <2>2
  <2>4. PICK d : d = Call(op, f, fsroot[f], NoSlot, r, x)
    OBVIOUS
  <2>5. call'[t] = d
    BY <1>0, <2>3, <2>4
  <2>6. d.cur = fsroot[f]
    BY <2>4, CallFields
  <2>7. c = fsroot[f]
    BY <1>3, <2>5, <2>6
  <2>8. p = "walk" /\ ~ InCall(t)
    BY <1>1, <1>2, <2>1 DEF InCall
  <2>9. fsroot[f] \in live
    BY <2>1, FilesSteady
  <2>10. ~ Unlink(t)
    BY <2>1 DEF Unlink, Doing
  <2> QED
    BY <1>6, <2>1, <2>7, <2>8, <2>9, <2>10
<1>8. Begins(t) => \E f \in owned :
             /\ Free(fsroot[f]) /\ refs' = [refs EXCEPT ![fsroot[f]] = @ + 1]
             /\ todo' = todo /\ leaked' = leaked /\ handles' = handles
             /\ fsrefs' = fsrefs /\ fsroot' = fsroot /\ pc[t] = "idle"
             /\ fsroot[f] \in live /\ ~ Unlink(t)
             /\ n = fsroot[f] => Gains(S, T)
             /\ n # fsroot[f] => Same(S, T)
  <2>1. ASSUME Begins(t)
        PROVE  \E op \in Ops, f \in Fs, q \in Seq(STRING) : Begin(t, op, f, q)
    BY <2>1 DEF Begins
  <2> QED
    BY <1>7, <2>1
<1>9. ASSUME Look(t) \/ Load(t) \/ NewParent(t) \/ DeleteLooked(t) \/ LockNode(t) \/ OpenOk(t)
      PROVE  Same(S, T)
  <2>1. InCall(t)
    BY <1>9 DEF Look, Load, NewParent, DeleteLooked, LockNode, OpenOk, Driver, Arrived, At, InCall
  <2>2. call[t] \in Calls
    BY <1>0
  <2>3. ASSUME Look(t) PROVE p # "idle" /\ c = cur(t)
    <3>1. CASE Child(cur(t), Head(call[t].rest)) = {}
      <4>1. pc' = [pc EXCEPT ![t] = "miss"] /\ call' = call
        BY <2>3, <3>1 DEF Look, Goto
      <4> QED
        BY <1>1, <1>2, <1>3, <4>1 DEF cur
    <3>2. CASE Child(cur(t), Head(call[t].rest)) # {}
      <4>1. \E s \in Child(cur(t), Head(call[t].rest)) : Goto(t, "found") /\ call' = [call EXCEPT ![t].nxt = s]
        BY <2>3, <3>2 DEF Look
      <4>2. PICK s : pc' = [pc EXCEPT ![t] = "found"] /\ call' = [call EXCEPT ![t].nxt = s]
        BY <4>1 DEF Goto
      <4>3. PICK d : d = [call[t] EXCEPT !.nxt = s]
        OBVIOUS
      <4>4. call'[t] = d /\ d.cur = call[t].cur
        BY <1>0, <2>2, <4>2, <4>3, CallFields
      <4> QED
        BY <1>1, <1>2, <1>3, <4>2, <4>4 DEF cur
    <3> QED
      BY <3>1, <3>2
  <2>4. ASSUME Load(t) PROVE p # "idle" /\ c = cur(t)
    <3>1. PICK m \in live : \E x \in STRING : \E s \in Slots \ live : Loads(t, m, x, s)
      BY <2>4, LoadFacts
    <3>2. PICK x \in STRING, s \in Slots \ live : Loads(t, m, x, s)
      BY <3>1
    <3>3. pc' = [pc EXCEPT ![t] = "new"] /\ call' = [call EXCEPT ![t].nxt = s]
      BY <3>2 DEF Loads
    <3>4. PICK d : d = [call[t] EXCEPT !.nxt = s]
      OBVIOUS
    <3>5. call'[t] = d /\ d.cur = call[t].cur
      BY <1>0, <2>2, <3>3, <3>4, CallFields
    <3> QED
      BY <1>1, <1>2, <1>3, <3>3, <3>5 DEF cur
  <2>5. ASSUME NewParent(t) \/ DeleteLooked(t) \/ LockNode(t) \/ OpenOk(t) PROVE p # "idle" /\ c = cur(t)
    <3>1. call' = call /\ \E q \in {"newfs", "at", "locked", "opened"} : pc' = [pc EXCEPT ![t] = q]
      BY <2>5 DEF NewParent, DeleteLooked, LockNode, OpenOk, Goto
    <3> QED
      BY <1>1, <1>2, <1>3, <3>1 DEF cur
  <2>6. p # "idle" /\ c = cur(t)
    BY <1>9, <2>3, <2>4, <2>5
  <2> QED
    BY <1>6, <2>1, <2>6
<1>10. ASSUME Found(t) \/ NewFs(t)
       PROVE  /\ call[t].nxt # cur(t)
              /\ n = call[t].nxt => Gains(S, T)
              /\ n = cur(t) => Loses(S, T)
              /\ n # call[t].nxt /\ n # cur(t) => Same(S, T)
  <2>1. Step(t)
    BY <1>10 DEF Found, NewFs
  <2>2. pc[t] \in {"found", "newfs"}
    BY <1>10 DEF Found, NewFs, At
  <2>3. /\ pc' = [pc EXCEPT ![t] = "walk"]
        /\ call' = [call EXCEPT ![t] = Call(@.op, @.fs, @.nxt, NoSlot, Tail(@.rest), @.last)]
    BY <2>1 DEF Step, Goto
  <2>4. PICK d : d = Call(call[t].op, call[t].fs, call[t].nxt, NoSlot, Tail(call[t].rest), call[t].last)
    OBVIOUS
  <2>5. call'[t] = d
    BY <1>0, <2>3, <2>4
  <2>6. d.cur = call[t].nxt
    BY <2>4, CallFields
  <2>7. p = "walk" /\ c = call[t].nxt
    BY <1>1, <1>2, <1>3, <2>3, <2>5, <2>6
  <2>8. InCall(t) /\ call[t].nxt # cur(t)
    BY <2>2, NextFacts
  <2> QED
    BY <1>6, <2>7, <2>8
<1>11. ASSUME Back(t) \/ Forget(t) \/ fs_open(t) \/ fs_subfs(t)
       PROVE  (n = cur(t) => Loses(S, T)) /\ (n # cur(t) => Same(S, T))
  <2>1. InCall(t)
    BY <1>11 DEF Back, Forget, fs_open, fs_subfs, Arrived, At, InCall
  <2>2. Back(t) => Return(t, cur(t))
    BY DEF Back
  <2>3. pc' = [pc EXCEPT ![t] = "idle"]
    BY <1>11, <2>2 DEF Return, Forget, fs_open, fs_subfs, Goto
  <2> QED
    BY <1>1, <1>2, <1>6, <2>1, <2>3
<1>12. ASSUME \/ Closes(t) \/ Leaves(t)
              \/ UnrefNode(t) \/ LastRef(t) \/ Unlink(t) \/ FreeNode(t) \/ unref_fs(t)
       PROVE  Same(S, T)
  <2>1. ASSUME Closes(t) \/ Leaves(t) PROVE p = "idle" /\ ~ InCall(t)
    <3>1. pc' = pc /\ pc[t] = "idle"
      BY <2>1 DEF Closes, Leaves, unref_file, rm_fs, At
    <3> QED
      BY <1>2, <3>1 DEF InCall
  <2>2. ASSUME UnrefNode(t) \/ LastRef(t) \/ Unlink(t) \/ FreeNode(t) \/ unref_fs(t)
        PROVE  p = pc[t] /\ c = cur(t)
    <3>1. pc' = pc /\ call' = call
      BY <2>2, Frames
    <3> QED
      BY <1>2, <1>3, <3>1 DEF cur
  <2> QED
    BY <1>6, <1>12, <2>1, <2>2 DEF InCall
<1> QED
  BY <1>4, <1>5, <1>8, <1>9, <1>10, <1>11, <1>12

\* The references to a node before and after a step: w, l, p, c, o, k and z are
\* how many more there are of each kind.
Moved(S, T, d) == (d = 0 /\ Same(S, T)) \/ (d = 1 /\ Gains(S, T)) \/ (d = -1 /\ Loses(S, T))
NodeMoved(n, w, l, p, c, o, k, z) ==
  /\ Moved(Walkers(n), Walkers(n)', w)
  /\ Moved(Loading(n, {"new", "newfs"}), Loading(n, {"new", "newfs"})', l)
  /\ Moved(Places(node(n)), Places(node(n))', p)
  /\ Moved(Children(n), Children(n)', c)
  /\ Moved(OpenNodes(n), OpenNodes(n)', o)
  /\ Moved(Roots(n), Roots(n)', k)
  /\ leaked'[n] = leaked[n] + z
  /\ refs'[n] = refs[n] + w + l + p + c + o + k + z

\* The sets that NodeRefs() counts are finite.
LEMMA NodeCounts ==
  ASSUME TypeOK, StacksFinite, NEW n \in Slots
  PROVE  /\ Cardinality(Walkers(n)) \in Nat /\ Cardinality(Loading(n, {"new", "newfs"})) \in Nat
         /\ Cardinality(Places(node(n))) \in Nat /\ Cardinality(Children(n)) \in Nat
         /\ Cardinality(OpenNodes(n)) \in Nat /\ Cardinality(Roots(n)) \in Nat
         /\ leaked[n] \in Nat /\ refs[n] \in Nat
<1>1. IsFiniteSet(Places(node(n)))
  BY ItemFacts DEF StacksFinite
<1>2. /\ IsFiniteSet(Walkers(n)) /\ IsFiniteSet(Loading(n, {"new", "newfs"}))
      /\ IsFiniteSet(Children(n)) /\ IsFiniteSet(OpenNodes(n)) /\ IsFiniteSet(Roots(n))
  BY HoldersFinite
<1>3. leaked[n] \in Nat /\ refs[n] \in Nat
  BY VfsAssumption DEF TypeOK
<1>4. Cardinality(Places(node(n))) \in Nat
  BY <1>1, FS_CardinalityType
<1>5. Cardinality(Walkers(n)) \in Nat /\ Cardinality(Loading(n, {"new", "newfs"})) \in Nat
  BY <1>2, FS_CardinalityType
<1>6. Cardinality(Children(n)) \in Nat /\ Cardinality(OpenNodes(n)) \in Nat /\ Cardinality(Roots(n)) \in Nat
  BY <1>2, FS_CardinalityType
<1> QED
  BY <1>3, <1>4, <1>5, <1>6

\* A count that changes by the sum of what its parts change by stays exact.
LEMMA NodeBalance ==
  ASSUME IInv, NEW n \in live, NEW w \in Int, NEW l \in Int, NEW p \in Int, NEW c \in Int,
         NEW o \in Int, NEW k \in Int, NEW z \in Int, NodeMoved(n, w, l, p, c, o, k, z)
  PROVE  refs'[n] = NodeRefs(n)'
<1>0. TypeOK /\ StacksFinite /\ CountsExact /\ n \in Slots
  BY DEF IInv, TypeOK
<1>1. PICK W \in Nat : W = Cardinality(Walkers(n))
  BY <1>0, NodeCounts
<1>2. PICK L \in Nat : L = Cardinality(Loading(n, {"new", "newfs"}))
  BY <1>0, NodeCounts
<1>3. PICK P \in Nat : P = Cardinality(Places(node(n)))
  BY <1>0, NodeCounts
<1>4. PICK C \in Nat : C = Cardinality(Children(n))
  BY <1>0, NodeCounts
<1>5. PICK O \in Nat : O = Cardinality(OpenNodes(n))
  BY <1>0, NodeCounts
<1>6. PICK K \in Nat : K = Cardinality(Roots(n))
  BY <1>0, NodeCounts
<1>7. PICK Z \in Nat : Z = leaked[n]
  BY <1>0, NodeCounts
<1>8. refs[n] = W + L + P + C + O + K + Z
  BY <1>0, <1>1, <1>2, <1>3, <1>4, <1>5, <1>6, <1>7 DEF CountsExact, NodeRefs
<1>9. /\ Cardinality(Walkers(n)') = W + w
      /\ Cardinality(Loading(n, {"new", "newfs"})') = L + l
      /\ Cardinality(Places(node(n))') = P + p
  BY <1>1, <1>2, <1>3 DEF NodeMoved, Moved, Same, Gains, Loses
<1>10. /\ Cardinality(Children(n)') = C + c
       /\ Cardinality(OpenNodes(n)') = O + o
       /\ Cardinality(Roots(n)') = K + k
  BY <1>4, <1>5, <1>6 DEF NodeMoved, Moved, Same, Gains, Loses
<1>11. leaked'[n] = Z + z /\ refs'[n] = W + L + P + C + O + K + Z + w + l + p + c + o + k + z
  BY <1>7, <1>8 DEF NodeMoved
<1>12. NodeRefs(n)' = (W + w) + (L + l) + (P + p) + (C + c) + (O + o) + (K + k) + (Z + z)
  BY <1>9, <1>10, <1>11 DEF NodeRefs
<1> QED
  BY <1>11, <1>12

FsMoved(f, v, p, o, s) ==
  /\ Moved({f} \cap owned, ({f} \cap owned)', v)
  /\ Moved(Places(fsys(f)), Places(fsys(f))', p)
  /\ Moved(OpenFiles(f), OpenFiles(f)', o)
  /\ Moved(Nodes(f), Nodes(f)', s)
  /\ fsrefs'[f] = fsrefs[f] + v + p + o + s

\* The same, for file systems.
LEMMA FsBalance ==
  ASSUME IInv, NEW f \in Fs, NEW v \in Int, NEW p \in Int, NEW o \in Int, NEW s \in Int,
         FsMoved(f, v, p, o, s)
  PROVE  fsrefs'[f] = FsRefs(f)'
<1>0. TypeOK /\ StacksFinite /\ CountsExact
  BY DEF IInv
<1>1. IsFiniteSet(Places(fsys(f)))
  BY <1>0, ItemFacts DEF StacksFinite
<1>2. IsFiniteSet({f} \cap owned) /\ IsFiniteSet(OpenFiles(f)) /\ IsFiniteSet(Nodes(f))
  BY <1>0, HoldersFinite
<1>3. PICK V \in Nat : V = Cardinality({f} \cap owned)
  BY <1>2, FS_CardinalityType
<1>4. PICK P \in Nat : P = Cardinality(Places(fsys(f)))
  BY <1>1, FS_CardinalityType
<1>5. PICK O \in Nat : O = Cardinality(OpenFiles(f))
  BY <1>2, FS_CardinalityType
<1>6. PICK S \in Nat : S = Cardinality(Nodes(f))
  BY <1>2, FS_CardinalityType
<1>7. fsrefs[f] = V + P + O + S
  BY <1>0, <1>3, <1>4, <1>5, <1>6 DEF CountsExact, FsRefs
<1>8. /\ Cardinality(({f} \cap owned)') = V + v
      /\ Cardinality(Places(fsys(f))') = P + p
      /\ Cardinality(OpenFiles(f)') = O + o
      /\ Cardinality(Nodes(f)') = S + s
  BY <1>3, <1>4, <1>5, <1>6 DEF FsMoved, Moved, Same, Gains, Loses
<1>9. fsrefs'[f] = V + P + O + S + v + p + o + s
  BY <1>7 DEF FsMoved
<1>10. FsRefs(f)' = (V + v) + (P + p) + (O + o) + (S + s)
  BY <1>8 DEF FsRefs
<1> QED
  BY <1>9, <1>10

\* What is not touched.
LEMMA NodeStill ==
  ASSUME IInv, NEW t \in Threads, Acts(t), NEW n \in live, n \in live'
  PROVE  /\ handles' = handles => Moved(OpenNodes(n), OpenNodes(n)', 0)
         /\ fsrefs' = fsrefs /\ fsroot' = fsroot => Moved(Roots(n), Roots(n)', 0)
         /\ pc[t] # "newfs" =>
              Moved(Loading(n, {"new", "newfs"}), Loading(n, {"new", "newfs"})', 0)
         /\ pc[t] # "new" /\ ~ Unlink(t) => Moved(Children(n), Children(n)', 0)
         /\ todo' = todo => Moved(Places(node(n)), Places(node(n))', 0)
<1>0. n \in Slots
  BY DEF IInv, TypeOK
<1>1. handles' = handles => Moved(OpenNodes(n), OpenNodes(n)', 0)
  BY DEF OpenNodes, Moved, Same
<1>2. fsrefs' = fsrefs /\ fsroot' = fsroot => Moved(Roots(n), Roots(n)', 0)
  BY DEF Roots, Moved, Same
<1>3. pc[t] # "newfs" =>
        Moved(Loading(n, {"new", "newfs"}), Loading(n, {"new", "newfs"})', 0)
  <2>1. pc[t] # "newfs" => ~ NewFs(t)
    BY DEF NewFs, At
  <2>2. pc[t] # "newfs" => Same(Loading(n, {"new", "newfs"}), Loading(n, {"new", "newfs"})')
    BY <2>1, LoadingMove
  <2> QED
    BY <2>2 DEF Moved
<1>4. pc[t] # "new" /\ ~ Unlink(t) => Moved(Children(n), Children(n)', 0)
  <2>1. pc[t] # "new" => ~ NewParent(t)
    BY DEF NewParent, At
  <2>2. pc[t] # "new" /\ ~ Unlink(t) => Same(Children(n), Children(n)')
    BY <2>1, ChildrenMove
  <2> QED
    BY <2>2 DEF Moved
<1>5. todo' = todo => Moved(Places(node(n)), Places(node(n))', 0)
  BY <1>0, NodePlaces DEF Moved
<1> QED
  BY <1>1, <1>2, <1>3, <1>4, <1>5

\* The count of a node stays exact: the steps of a walk, ...
LEMMA NodeWalks ==
  ASSUME IInv, NEW t \in Threads, Acts(t), NEW n \in live, n \in live',
         \/ Begins(t) \/ Look(t) \/ Found(t) \/ Load(t) \/ NewParent(t) \/ NewFs(t)
         \/ DeleteLooked(t) \/ LockNode(t) \/ OpenOk(t)
  PROVE  refs'[n] = NodeRefs(n)'
<1>0. /\ TypeOK /\ n \in Slots /\ refs \in [Slots -> Nat] /\ refs[n] \in Nat
      /\ leaked[n] \in Int
  <2>1. n \in Slots /\ refs \in [Slots -> Nat] /\ leaked \in [Slots -> 0 .. MaxLeaks] /\ TypeOK
    BY DEF IInv, TypeOK
  <2>2. leaked[n] \in Int
    BY <2>1, VfsAssumption
  <2> QED
    BY <2>1, <2>2
<1>1. ASSUME Begins(t) PROVE refs'[n] = NodeRefs(n)'
  <2>1. PICK f \in owned : /\ refs' = [refs EXCEPT ![fsroot[f]] = @ + 1]
                           /\ todo' = todo /\ leaked' = leaked /\ handles' = handles
                           /\ fsrefs' = fsrefs /\ fsroot' = fsroot /\ pc[t] = "idle"
                           /\ fsroot[f] \in live /\ ~ Unlink(t)
                           /\ n = fsroot[f] => Gains(Walkers(n), Walkers(n)')
                           /\ n # fsroot[f] => Same(Walkers(n), Walkers(n)')
    BY <1>1, WalksMove
  <2>2. /\ Moved(Loading(n, {"new", "newfs"}), Loading(n, {"new", "newfs"})', 0)
        /\ Moved(Places(node(n)), Places(node(n))', 0)
        /\ Moved(Children(n), Children(n)', 0)
        /\ Moved(OpenNodes(n), OpenNodes(n)', 0)
        /\ Moved(Roots(n), Roots(n)', 0)
    BY <2>1, NodeStill
  <2>3. leaked'[n] = leaked[n] + 0
    BY <1>0, <2>1
  <2>4. CASE n = fsroot[f]
    <3>1. Moved(Walkers(n), Walkers(n)', 1)
      BY <2>1, <2>4 DEF Moved
    <3>2. refs'[n] = refs[n] + 1 + 0 + 0 + 0 + 0 + 0 + 0
      BY <1>0, <2>1, <2>4
    <3>3. NodeMoved(n, 1, 0, 0, 0, 0, 0, 0)
      BY <2>2, <2>3, <3>1, <3>2 DEF NodeMoved
    <3> QED
      BY <3>3, NodeBalance
  <2>5. CASE n # fsroot[f]
    <3>1. Moved(Walkers(n), Walkers(n)', 0)
      BY <2>1, <2>5 DEF Moved
    <3>2. refs'[n] = refs[n] + 0 + 0 + 0 + 0 + 0 + 0 + 0
      BY <1>0, <2>1, <2>5
    <3>3. NodeMoved(n, 0, 0, 0, 0, 0, 0, 0)
      BY <2>2, <2>3, <3>1, <3>2 DEF NodeMoved
    <3> QED
      BY <3>3, NodeBalance
  <2> QED
    BY <2>4, <2>5
<1>2. ASSUME Look(t) \/ Load(t) \/ DeleteLooked(t) \/ LockNode(t) \/ OpenOk(t)
      PROVE  refs'[n] = NodeRefs(n)'
  <2>1. /\ todo' = todo /\ leaked' = leaked /\ handles' = handles /\ fsrefs' = fsrefs /\ fsroot' = fsroot
        /\ pc[t] # "new" /\ pc[t] # "newfs" /\ todo[t] = <<>>
    BY <1>2 DEF Look, Load, DeleteLooked, LockNode, OpenOk, Driver, Arrived, At, fvars, hvars
  <2>2. ~ Unlink(t)
    BY <2>1 DEF Unlink, Doing
  <2>3. /\ Moved(Loading(n, {"new", "newfs"}), Loading(n, {"new", "newfs"})', 0)
        /\ Moved(Places(node(n)), Places(node(n))', 0)
        /\ Moved(Children(n), Children(n)', 0)
        /\ Moved(OpenNodes(n), OpenNodes(n)', 0)
        /\ Moved(Roots(n), Roots(n)', 0)
    BY <2>1, <2>2, NodeStill
  <2>4. Moved(Walkers(n), Walkers(n)', 0)
    BY <1>2, WalksMove DEF Moved
  <2>5. refs'[n] = refs[n]
    <3>1. CASE Load(t)
      <4>1. PICK m \in live : \E x \in STRING : \E s \in Slots \ live : Loads(t, m, x, s)
        BY <3>1, LoadFacts
      <4>2. PICK x \in STRING, s \in Slots \ live : Loads(t, m, x, s)
        BY <4>1
      <4>3. refs' = [refs EXCEPT ![s] = 1]
        BY <4>2 DEF Loads
      <4> QED
        BY <1>0, <4>3
    <3>2. CASE Look(t) \/ DeleteLooked(t) \/ LockNode(t) \/ OpenOk(t)
      BY <3>2 DEF Look, DeleteLooked, LockNode, OpenOk, nvars
    <3> QED
      BY <1>2, <3>1, <3>2
  <2>6. leaked'[n] = leaked[n] + 0 /\ refs'[n] = refs[n] + 0 + 0 + 0 + 0 + 0 + 0 + 0
    BY <1>0, <2>1, <2>5
  <2>7. NodeMoved(n, 0, 0, 0, 0, 0, 0, 0)
    BY <2>3, <2>4, <2>6 DEF NodeMoved
  <2> QED
    BY <2>7, NodeBalance
<1>3. ASSUME NewParent(t) PROVE refs'[n] = NodeRefs(n)'
  <2>1. /\ todo' = todo /\ leaked' = leaked /\ handles' = handles /\ fsrefs' = fsrefs /\ fsroot' = fsroot
        /\ pc[t] = "new" /\ todo[t] = <<>> /\ refs' = [refs EXCEPT ![cur(t)] = @ + 1]
    BY <1>3 DEF NewParent, At, fvars, hvars
  <2>2. ~ Unlink(t)
    BY <2>1 DEF Unlink, Doing
  <2>3. /\ Moved(Loading(n, {"new", "newfs"}), Loading(n, {"new", "newfs"})', 0)
        /\ Moved(Places(node(n)), Places(node(n))', 0)
        /\ Moved(OpenNodes(n), OpenNodes(n)', 0)
        /\ Moved(Roots(n), Roots(n)', 0)
    BY <2>1, NodeStill
  <2>4. Moved(Walkers(n), Walkers(n)', 0) /\ leaked'[n] = leaked[n] + 0
    BY <1>0, <1>3, <2>1, WalksMove DEF Moved
  <2>5. CASE n = cur(t)
    <3>1. Moved(Children(n), Children(n)', 1)
      BY <1>3, <2>5, ChildrenMove DEF Moved
    <3>2. refs'[n] = refs[n] + 0 + 0 + 0 + 1 + 0 + 0 + 0
      BY <1>0, <2>1, <2>5
    <3>3. NodeMoved(n, 0, 0, 0, 1, 0, 0, 0)
      BY <2>3, <2>4, <3>1, <3>2 DEF NodeMoved
    <3> QED
      BY <3>3, NodeBalance
  <2>6. CASE n # cur(t)
    <3>1. Moved(Children(n), Children(n)', 0)
      BY <2>2, <2>6, ChildrenMove DEF Moved
    <3>2. refs'[n] = refs[n] + 0 + 0 + 0 + 0 + 0 + 0 + 0
      BY <1>0, <2>1, <2>6
    <3>3. NodeMoved(n, 0, 0, 0, 0, 0, 0, 0)
      BY <2>3, <2>4, <3>1, <3>2 DEF NodeMoved
    <3> QED
      BY <3>3, NodeBalance
  <2> QED
    BY <2>5, <2>6
<1>4. ASSUME Found(t) \/ NewFs(t) PROVE refs'[n] = NodeRefs(n)'
  <2>1. /\ leaked' = leaked /\ handles' = handles /\ fsroot' = fsroot
        /\ pc[t] \in {"found", "newfs"} /\ todo[t] = <<>>
    BY <1>4 DEF Found, NewFs, At, fvars, hvars
  <2>2. ~ Unlink(t) /\ pc[t] # "new"
    BY <2>1 DEF Unlink, Doing
  <2>3. Moved(Children(n), Children(n)', 0) /\ Moved(OpenNodes(n), OpenNodes(n)', 0)
    BY <2>1, <2>2, NodeStill
  <2>4. Moved(Roots(n), Roots(n)', 0)
    <3>1. ~ fs_subfs(t) /\ ~ DropsRoot(t)
      BY <2>1 DEF fs_subfs, Arrived, At, DropsRoot, unref_fs, Doing
    <3> QED
      BY <3>1, RootsMove DEF Moved
  <2>5. leaked'[n] = leaked[n] + 0
    BY <1>0, <2>1
  <2>6. PICK m \in Slots : m = cur(t) /\ m # call[t].nxt
    BY <2>1, NextFacts, CallFacts
  <2>7. Puts(t, <<node(m)>>)
    BY <1>4, <2>6 DEF Found, NewFs, Step, Puts
  <2>8. (n = m => Moved(Places(node(n)), Places(node(n))', 1)) /\ (n # m => Moved(Places(node(n)), Places(node(n))', 0))
    BY <1>0, <2>1, <2>7, NodePlaces DEF Moved
  <2>9. /\ n = call[t].nxt => Moved(Walkers(n), Walkers(n)', 1)
        /\ n = m => Moved(Walkers(n), Walkers(n)', -1)
        /\ n # call[t].nxt /\ n # m => Moved(Walkers(n), Walkers(n)', 0)
    BY <1>4, <2>6, WalksMove DEF Moved
  <2>10. CASE n # call[t].nxt
    <3>1. refs'[n] = refs[n]
      BY <1>0, <1>4, <2>10 DEF Found, NewFs, nvars
    <3>2. Moved(Loading(n, {"new", "newfs"}), Loading(n, {"new", "newfs"})', 0)
      BY <2>10, LoadingMove DEF Moved
    <3>3. CASE n = m
      <4>1. refs'[n] = refs[n] + (-1) + 0 + 1 + 0 + 0 + 0 + 0
        BY <1>0, <3>1
      <4>2. NodeMoved(n, -1, 0, 1, 0, 0, 0, 0)
        BY <2>3, <2>4, <2>5, <2>8, <2>9, <3>2, <3>3, <4>1 DEF NodeMoved
      <4> QED
        BY <4>2, NodeBalance
    <3>4. CASE n # m
      <4>1. refs'[n] = refs[n] + 0 + 0 + 0 + 0 + 0 + 0 + 0
        BY <1>0, <3>1
      <4>2. NodeMoved(n, 0, 0, 0, 0, 0, 0, 0)
        BY <2>3, <2>4, <2>5, <2>8, <2>9, <2>10, <3>2, <3>4, <4>1 DEF NodeMoved
      <4> QED
        BY <4>2, NodeBalance
    <3> QED
      BY <3>3, <3>4
  <2>11. CASE n = call[t].nxt /\ Found(t)
    <3>1. refs' = [refs EXCEPT ![call[t].nxt] = @ + 1] /\ pc[t] = "found"
      BY <2>11 DEF Found, At
    <3>2. refs'[n] = refs[n] + 1 + 0 + 0 + 0 + 0 + 0 + 0
      BY <1>0, <2>11, <3>1
    <3>3. Moved(Loading(n, {"new", "newfs"}), Loading(n, {"new", "newfs"})', 0)
      BY <3>1, NodeStill
    <3>4. NodeMoved(n, 1, 0, 0, 0, 0, 0, 0)
      BY <2>3, <2>4, <2>5, <2>6, <2>8, <2>9, <2>11, <3>2, <3>3 DEF NodeMoved
    <3> QED
      BY <3>4, NodeBalance
  <2>12. CASE n = call[t].nxt /\ NewFs(t)
    <3>1. refs' = refs
      BY <2>12 DEF NewFs, nvars
    <3>2. refs'[n] = refs[n] + 1 + (-1) + 0 + 0 + 0 + 0 + 0
      BY <1>0, <3>1
    <3>3. Moved(Loading(n, {"new", "newfs"}), Loading(n, {"new", "newfs"})', -1)
      BY <2>12, LoadingMove DEF Moved
    <3>4. NodeMoved(n, 1, -1, 0, 0, 0, 0, 0)
      BY <2>3, <2>4, <2>5, <2>6, <2>8, <2>9, <2>12, <3>2, <3>3 DEF NodeMoved
    <3> QED
      BY <3>4, NodeBalance
  <2> QED
    BY <1>4, <2>10, <2>11, <2>12
<1> QED
  BY <1>1, <1>2, <1>3, <1>4

\* ... those that end a call, open or close files, ...
LEMMA NodeEnds ==
  ASSUME IInv, NEW t \in Threads, Acts(t), NEW n \in live, n \in live',
         Back(t) \/ Forget(t) \/ fs_open(t) \/ fs_subfs(t) \/ Closes(t) \/ Leaves(t)
  PROVE  refs'[n] = NodeRefs(n)'
<1>0. /\ TypeOK /\ n \in Slots /\ refs \in [Slots -> Nat] /\ refs[n] \in Nat
      /\ leaked \in [Slots -> 0 .. MaxLeaks] /\ leaked[n] \in Int
  <2>1. n \in Slots /\ refs \in [Slots -> Nat] /\ leaked \in [Slots -> 0 .. MaxLeaks] /\ TypeOK
    BY DEF IInv, TypeOK
  <2>2. leaked[n] \in Int
    BY <2>1, VfsAssumption
  <2> QED
    BY <2>1, <2>2
<1>1. /\ refs' = refs /\ todo[t] = <<>> /\ pc[t] # "new" /\ pc[t] # "newfs"
      /\ pc[t] # "idle" \/ Closes(t) \/ Leaves(t)
  BY DEF Back, Forget, fs_open, fs_subfs, Closes, Leaves, unref_file, rm_fs, Arrived, At, nvars
<1>2. ~ Unlink(t) /\ ~ unref_fs(t) /\ ~ DropsRoot(t)
  BY <1>1 DEF Unlink, unref_fs, Doing, DropsRoot
<1>3. /\ Moved(Loading(n, {"new", "newfs"}), Loading(n, {"new", "newfs"})', 0)
      /\ Moved(Children(n), Children(n)', 0)
  BY <1>1, <1>2, NodeStill
<1>4. refs'[n] = refs[n]
  BY <1>1
<1>5. ASSUME Back(t) PROVE refs'[n] = NodeRefs(n)'
  <2>1. /\ leaked' = leaked /\ handles' = handles /\ fsrefs' = fsrefs /\ fsroot' = fsroot
        /\ Return(t, cur(t)) /\ InCall(t)
    BY <1>5 DEF Back, fvars, InCall
  <2>2. PICK m \in Slots : m = cur(t)
    BY <2>1, CallFacts
  <2>3. Puts(t, <<node(m)>>)
    BY <2>1, <2>2 DEF Return, Puts
  <2>4. (n = m => Moved(Places(node(n)), Places(node(n))', 1)) /\ (n # m => Moved(Places(node(n)), Places(node(n))', 0))
    BY <1>0, <1>1, <2>3, NodePlaces DEF Moved
  <2>5. (n = m => Moved(Walkers(n), Walkers(n)', -1)) /\ (n # m => Moved(Walkers(n), Walkers(n)', 0))
    BY <1>5, <2>2, WalksMove DEF Moved
  <2>6. Moved(OpenNodes(n), OpenNodes(n)', 0) /\ Moved(Roots(n), Roots(n)', 0)
    BY <2>1, NodeStill
  <2>7. leaked'[n] = leaked[n] + 0
    BY <1>0, <2>1
  <2>8. CASE n = m
    <3>1. refs'[n] = refs[n] + (-1) + 0 + 1 + 0 + 0 + 0 + 0
      BY <1>0, <1>4
    <3>2. NodeMoved(n, -1, 0, 1, 0, 0, 0, 0)
      BY <1>3, <2>4, <2>5, <2>6, <2>7, <2>8, <3>1 DEF NodeMoved
    <3> QED
      BY <3>2, NodeBalance
  <2>9. CASE n # m
    <3>1. refs'[n] = refs[n] + 0 + 0 + 0 + 0 + 0 + 0 + 0
      BY <1>0, <1>4
    <3>2. NodeMoved(n, 0, 0, 0, 0, 0, 0, 0)
      BY <1>3, <2>4, <2>5, <2>6, <2>7, <2>9, <3>1 DEF NodeMoved
    <3> QED
      BY <3>2, NodeBalance
  <2> QED
    BY <2>8, <2>9
<1>6. ASSUME Forget(t) \/ fs_open(t) \/ fs_subfs(t) PROVE refs'[n] = NodeRefs(n)'
  <2>1. todo' = todo /\ pc[t] # "idle"
    BY <1>6 DEF Forget, fs_open, fs_subfs, Arrived, At
  <2>2. Moved(Places(node(n)), Places(node(n))', 0)
    BY <2>1, NodeStill
  <2>3. (n = cur(t) => Moved(Walkers(n), Walkers(n)', -1)) /\ (n # cur(t) => Moved(Walkers(n), Walkers(n)', 0))
    BY <1>6, WalksMove DEF Moved
  <2>4. ~ Closes(t)
    BY <2>1 DEF Closes, unref_file, At
  <2>5. ASSUME Forget(t)
        PROVE  /\ leaked' = [leaked EXCEPT ![cur(t)] = @ + 1]
               /\ Moved(OpenNodes(n), OpenNodes(n)', 0) /\ Moved(Roots(n), Roots(n)', 0)
    BY <2>5, NodeStill DEF Forget, Lose, fvars
  <2>6. ASSUME fs_open(t)
        PROVE  /\ leaked' = leaked /\ Moved(Roots(n), Roots(n)', 0)
               /\ n = cur(t) => Moved(OpenNodes(n), OpenNodes(n)', 1)
               /\ n # cur(t) => Moved(OpenNodes(n), OpenNodes(n)', 0)
    <3>1. leaked' = leaked /\ pc[t] = "opened"
      BY <2>6 DEF fs_open, hvars, At
    <3>2. ~ fs_subfs(t)
      BY <3>1 DEF fs_subfs, Arrived, At
    <3>3. Moved(Roots(n), Roots(n)', 0)
      BY <1>2, <3>2, RootsMove DEF Moved
    <3>4. /\ n = cur(t) => Moved(OpenNodes(n), OpenNodes(n)', 1)
          /\ n # cur(t) => Moved(OpenNodes(n), OpenNodes(n)', 0)
      BY <2>6, OpenMove DEF Moved
    <3> QED
      BY <3>1, <3>3, <3>4
  <2>7. ASSUME fs_subfs(t)
        PROVE  /\ leaked' = leaked /\ Moved(OpenNodes(n), OpenNodes(n)', 0)
               /\ n = cur(t) => Moved(Roots(n), Roots(n)', 1)
               /\ n # cur(t) => Moved(Roots(n), Roots(n)', 0)
    <3>1. leaked' = leaked /\ handles' = handles
      BY <2>7 DEF fs_subfs, hvars
    <3>2. Moved(OpenNodes(n), OpenNodes(n)', 0)
      BY <3>1, NodeStill
    <3>3. /\ n = cur(t) => Moved(Roots(n), Roots(n)', 1)
          /\ n # cur(t) => Moved(Roots(n), Roots(n)', 0)
      BY <1>2, <2>7, RootsMove DEF Moved
    <3> QED
      BY <3>1, <3>2, <3>3
  <2>8. CASE n # cur(t)
    <3>1. refs'[n] = refs[n] + 0 + 0 + 0 + 0 + 0 + 0 + 0
      BY <1>0, <1>4
    <3>2. leaked'[n] = leaked[n] + 0
      BY <1>0, <1>6, <2>5, <2>6, <2>7, <2>8
    <3>3. Moved(OpenNodes(n), OpenNodes(n)', 0) /\ Moved(Roots(n), Roots(n)', 0)
      BY <1>6, <2>5, <2>6, <2>7, <2>8
    <3>4. NodeMoved(n, 0, 0, 0, 0, 0, 0, 0)
      BY <1>3, <2>2, <2>3, <2>8, <3>1, <3>2, <3>3 DEF NodeMoved
    <3> QED
      BY <3>4, NodeBalance
  <2>9. CASE n = cur(t) /\ Forget(t)
    <3>1. refs'[n] = refs[n] + (-1) + 0 + 0 + 0 + 0 + 0 + 1
      BY <1>0, <1>4
    <3>2. leaked'[n] = leaked[n] + 1
      BY <1>0, <2>5, <2>9
    <3>3. NodeMoved(n, -1, 0, 0, 0, 0, 0, 1)
      BY <1>3, <2>2, <2>3, <2>5, <2>9, <3>1, <3>2 DEF NodeMoved
    <3> QED
      BY <3>3, NodeBalance
  <2>10. CASE n = cur(t) /\ fs_open(t)
    <3>1. refs'[n] = refs[n] + (-1) + 0 + 0 + 0 + 1 + 0 + 0
      BY <1>0, <1>4
    <3>2. leaked'[n] = leaked[n] + 0
      BY <1>0, <2>6, <2>10
    <3>3. NodeMoved(n, -1, 0, 0, 0, 1, 0, 0)
      BY <1>3, <2>2, <2>3, <2>6, <2>10, <3>1, <3>2 DEF NodeMoved
    <3> QED
      BY <3>3, NodeBalance
  <2>11. CASE n = cur(t) /\ fs_subfs(t)
    <3>1. refs'[n] = refs[n] + (-1) + 0 + 0 + 0 + 0 + 1 + 0
      BY <1>0, <1>4
    <3>2. leaked'[n] = leaked[n] + 0
      BY <1>0, <2>7, <2>11
    <3>3. NodeMoved(n, -1, 0, 0, 0, 0, 1, 0)
      BY <1>3, <2>2, <2>3, <2>7, <2>11, <3>1, <3>2 DEF NodeMoved
    <3> QED
      BY <3>3, NodeBalance
  <2> QED
    BY <1>6, <2>8, <2>9, <2>10, <2>11
<1>7. PICK d \in Int : d = -1
  OBVIOUS
<1>8. ASSUME NEW u \in Threads, NEW h \in handles[u], unref_file(t, u, h)
      PROVE  NodeMoved(n, 0, 0, 1, 0, d, 0, 0) \/ NodeMoved(n, 0, 0, 0, 0, 0, 0, 0)
  <2>1. /\ leaked' = leaked /\ fsrefs' = fsrefs /\ fsroot' = fsroot
        /\ todo' = [todo EXCEPT ![t] = <<node(h[2]), fsys(h[1])>>]
    BY <1>8 DEF unref_file, hvars
  <2>2. handles[u] \in SUBSET (Fs \X Slots)
    BY DEF IInv, TypeOK
  <2>3. PICK m \in Slots : m = h[2]
    BY <2>2
  <2>4. PICK f \in Fs : f = h[1]
    BY <2>2
  <2>5. Puts(t, <<node(m), fsys(f)>>)
    BY <2>1, <2>3, <2>4 DEF Puts
  <2>6. (n = m => Moved(Places(node(n)), Places(node(n))', 1)) /\ (n # m => Moved(Places(node(n)), Places(node(n))', 0))
    BY <1>0, <1>1, <2>5, NodePlaces DEF Moved
  <2>7. (n = m => Moved(OpenNodes(n), OpenNodes(n)', -1)) /\ (n # m => Moved(OpenNodes(n), OpenNodes(n)', 0))
    BY <1>8, <2>3, OpenMove DEF Moved
  <2>8. Moved(Walkers(n), Walkers(n)', 0) /\ Moved(Roots(n), Roots(n)', 0)
    <3>1. Closes(t)
      BY <1>8 DEF Closes
    <3>2. Same(Walkers(n), Walkers(n)')
      BY <3>1, WalksMove
    <3> QED
      BY <2>1, <3>2, NodeStill DEF Moved
  <2>9. leaked'[n] = leaked[n] + 0
    BY <1>0, <2>1
  <2>10. CASE n = m
    <3>1. refs'[n] = refs[n] + 0 + 0 + 1 + 0 + d + 0 + 0
      BY <1>0, <1>4, <1>7
    <3>2. Moved(OpenNodes(n), OpenNodes(n)', d)
      BY <1>7, <2>7, <2>10
    <3> QED
      BY <1>3, <2>6, <2>8, <2>9, <2>10, <3>1, <3>2 DEF NodeMoved
  <2>11. CASE n # m
    <3>1. refs'[n] = refs[n] + 0 + 0 + 0 + 0 + 0 + 0 + 0
      BY <1>0, <1>4
    <3> QED
      BY <1>3, <2>6, <2>7, <2>8, <2>9, <2>11, <3>1 DEF NodeMoved
  <2> QED
    BY <2>10, <2>11
<1>9. ASSUME Closes(t) PROVE refs'[n] = NodeRefs(n)'
  <2>1. NodeMoved(n, 0, 0, 1, 0, d, 0, 0) \/ NodeMoved(n, 0, 0, 0, 0, 0, 0, 0)
    BY <1>8, <1>9 DEF Closes
  <2> QED
    BY <2>1, NodeBalance
<1>10. ASSUME NEW f \in Fs, rm_fs(t, f) PROVE refs'[n] = NodeRefs(n)'
  <2>1. /\ leaked' = leaked /\ handles' = handles /\ fsrefs' = fsrefs /\ fsroot' = fsroot
        /\ todo' = [todo EXCEPT ![t] = <<fsys(f)>>]
    BY <1>10 DEF rm_fs, hvars
  <2>2. Puts(t, <<fsys(f)>>) /\ Leaves(t)
    BY <1>10, <2>1 DEF Puts, Leaves
  <2>3. Moved(Places(node(n)), Places(node(n))', 0)
    BY <1>0, <1>1, <2>2, NodePlaces DEF Moved
  <2>4. /\ Moved(OpenNodes(n), OpenNodes(n)', 0) /\ Moved(Roots(n), Roots(n)', 0)
        /\ Moved(Walkers(n), Walkers(n)', 0)
    <3>1. Same(Walkers(n), Walkers(n)')
      BY <2>2, WalksMove
    <3> QED
      BY <2>1, <3>1, NodeStill DEF Moved
  <2>5. leaked'[n] = leaked[n] + 0 /\ refs'[n] = refs[n] + 0 + 0 + 0 + 0 + 0 + 0 + 0
    BY <1>0, <1>4, <2>1
  <2>6. NodeMoved(n, 0, 0, 0, 0, 0, 0, 0)
    BY <1>3, <2>3, <2>4, <2>5 DEF NodeMoved
  <2> QED
    BY <2>6, NodeBalance
<1> QED
  BY <1>5, <1>6, <1>9, <1>10 DEF Leaves

\* ... and those that drop references.
LEMMA NodeDrops ==
  ASSUME IInv, NEW t \in Threads, Acts(t), NEW n \in live, n \in live',
         UnrefNode(t) \/ LastRef(t) \/ Unlink(t) \/ FreeNode(t) \/ unref_fs(t)
  PROVE  refs'[n] = NodeRefs(n)'
<1>0. /\ TypeOK /\ n \in Slots /\ refs \in [Slots -> Nat] /\ refs[n] \in Nat
      /\ leaked[n] \in Int
  <2>1. n \in Slots /\ refs \in [Slots -> Nat] /\ leaked \in [Slots -> 0 .. MaxLeaks] /\ TypeOK
    BY DEF IInv, TypeOK
  <2>2. leaked[n] \in Int
    BY <2>1, VfsAssumption
  <2> QED
    BY <2>1, <2>2
<1>1. handles' = handles /\ leaked' = leaked /\ todo[t] # <<>>
  BY DEF UnrefNode, LastRef, Unlink, FreeNode, unref_fs, fvars, hvars, Doing
<1>2. pc[t] # "new" /\ pc[t] # "newfs"
  BY <1>1, HeadItem
<1>3. /\ Moved(OpenNodes(n), OpenNodes(n)', 0)
      /\ Moved(Loading(n, {"new", "newfs"}), Loading(n, {"new", "newfs"})', 0)
  BY <1>1, <1>2, NodeStill
<1>4. Moved(Walkers(n), Walkers(n)', 0)
  <2>1. Same(Walkers(n), Walkers(n)')
    BY WalksMove
  <2> QED
    BY <2>1 DEF Moved
<1>5. leaked'[n] = leaked[n] + 0
  BY <1>0, <1>1
<1>6. PICK d \in Int : d = -1
  OBVIOUS
<1>7. ASSUME UnrefNode(t) \/ LastRef(t) PROVE refs'[n] = NodeRefs(n)'
  <2>1. fsrefs' = fsrefs /\ fsroot' = fsroot /\ Head(todo[t]).do = "node"
        /\ refs' = [refs EXCEPT ![Head(todo[t]).n] = @ - 1]
    BY <1>7 DEF UnrefNode, LastRef, fvars, Doing
  <2>2. ~ Unlink(t)
    BY <2>1 DEF Unlink, Doing
  <2>3. Moved(Roots(n), Roots(n)', 0) /\ Moved(Children(n), Children(n)', 0)
    BY <1>2, <2>1, <2>2, NodeStill
  <2>4. CASE n = Head(todo[t]).n
    <3>1. Loses(Places(node(n)), Places(node(n))')
      BY <1>0, <1>7, <2>4, NodePlaces
    <3>2. Moved(Places(node(n)), Places(node(n))', d)
      BY <1>6, <3>1 DEF Moved
    <3>3. refs'[n] = refs[n] + 0 + 0 + d + 0 + 0 + 0 + 0
      BY <1>0, <1>6, <2>1, <2>4
    <3>4. NodeMoved(n, 0, 0, d, 0, 0, 0, 0)
      BY <1>3, <1>4, <1>5, <2>3, <3>2, <3>3 DEF NodeMoved
    <3> QED
      BY <3>4, NodeBalance
  <2>5. CASE n # Head(todo[t]).n
    <3>1. Same(Places(node(n)), Places(node(n))')
      BY <1>0, <1>7, <2>5, NodePlaces
    <3>2. Moved(Places(node(n)), Places(node(n))', 0)
      BY <3>1 DEF Moved
    <3>3. refs'[n] = refs[n] + 0 + 0 + 0 + 0 + 0 + 0 + 0
      BY <1>0, <2>1, <2>5
    <3>4. NodeMoved(n, 0, 0, 0, 0, 0, 0, 0)
      BY <1>3, <1>4, <1>5, <2>3, <3>2, <3>3 DEF NodeMoved
    <3> QED
      BY <3>4, NodeBalance
  <2> QED
    BY <2>4, <2>5
<1>8. ASSUME Unlink(t) PROVE refs'[n] = NodeRefs(n)'
  <2>1. fsrefs' = fsrefs /\ fsroot' = fsroot /\ refs' = refs
    BY <1>8 DEF Unlink, fvars
  <2>2. Moved(Roots(n), Roots(n)', 0)
    BY <2>1, NodeStill
  <2>3. ~ NewParent(t)
    BY <1>1 DEF NewParent, At
  <2>4. CASE n = parent[Head(todo[t]).n]
    <3>1. Gains(Places(node(n)), Places(node(n))')
      BY <1>0, <1>8, <2>4, NodePlaces
    <3>2. Loses(Children(n), Children(n)')
      BY <1>8, <2>4, ChildrenMove
    <3>3. Moved(Places(node(n)), Places(node(n))', 1) /\ Moved(Children(n), Children(n)', d)
      BY <1>6, <3>1, <3>2 DEF Moved
    <3>4. refs'[n] = refs[n] + 0 + 0 + 1 + d + 0 + 0 + 0
      BY <1>0, <1>6, <2>1
    <3>5. NodeMoved(n, 0, 0, 1, d, 0, 0, 0)
      BY <1>3, <1>4, <1>5, <2>2, <3>3, <3>4 DEF NodeMoved
    <3> QED
      BY <3>5, NodeBalance
  <2>5. CASE n # parent[Head(todo[t]).n]
    <3>1. Same(Places(node(n)), Places(node(n))')
      BY <1>0, <1>8, <2>5, NodePlaces
    <3>2. Same(Children(n), Children(n)')
      BY <2>3, <2>5, ChildrenMove
    <3>3. Moved(Places(node(n)), Places(node(n))', 0) /\ Moved(Children(n), Children(n)', 0)
      BY <3>1, <3>2 DEF Moved
    <3>4. refs'[n] = refs[n] + 0 + 0 + 0 + 0 + 0 + 0 + 0
      BY <1>0, <2>1
    <3>5. NodeMoved(n, 0, 0, 0, 0, 0, 0, 0)
      BY <1>3, <1>4, <1>5, <2>2, <3>3, <3>4 DEF NodeMoved
    <3> QED
      BY <3>5, NodeBalance
  <2> QED
    BY <2>4, <2>5
<1>9. ASSUME FreeNode(t) PROVE refs'[n] = NodeRefs(n)'
  <2>1. fsrefs' = fsrefs /\ fsroot' = fsroot /\ refs' = refs /\ Head(todo[t]).do = "free"
    BY <1>9 DEF FreeNode, fvars, Doing
  <2>2. ~ Unlink(t)
    BY <2>1 DEF Unlink, Doing
  <2>3. Moved(Roots(n), Roots(n)', 0) /\ Moved(Children(n), Children(n)', 0)
    BY <1>2, <2>1, <2>2, NodeStill
  <2>4. Same(Places(node(n)), Places(node(n))')
    BY <1>0, <1>9, NodePlaces
  <2>5. Moved(Places(node(n)), Places(node(n))', 0)
    BY <2>4 DEF Moved
  <2>6. refs'[n] = refs[n] + 0 + 0 + 0 + 0 + 0 + 0 + 0
    BY <1>0, <2>1
  <2>7. NodeMoved(n, 0, 0, 0, 0, 0, 0, 0)
    BY <1>3, <1>4, <1>5, <2>3, <2>5, <2>6 DEF NodeMoved
  <2> QED
    BY <2>7, NodeBalance
<1>10. ASSUME unref_fs(t) PROVE refs'[n] = NodeRefs(n)'
  <2>1. refs' = refs /\ Head(todo[t]).do = "fs"
    BY <1>10 DEF unref_fs, Doing
  <2>2. ~ Unlink(t) /\ ~ fs_subfs(t)
    BY <1>1, <2>1 DEF Unlink, Doing, fs_subfs, Arrived, At
  <2>3. Moved(Children(n), Children(n)', 0)
    BY <1>2, <2>2, NodeStill
  <2>4. CASE DropsRoot(t) /\ n = fsroot["sub"]
    <3>1. Gains(Places(node(n)), Places(node(n))')
      BY <1>0, <1>10, <2>4, NodePlaces
    <3>2. Loses(Roots(n), Roots(n)')
      BY <2>4, RootsMove
    <3>3. Moved(Places(node(n)), Places(node(n))', 1) /\ Moved(Roots(n), Roots(n)', d)
      BY <1>6, <3>1, <3>2 DEF Moved
    <3>4. refs'[n] = refs[n] + 0 + 0 + 1 + 0 + 0 + d + 0
      BY <1>0, <1>6, <2>1
    <3>5. NodeMoved(n, 0, 0, 1, 0, 0, d, 0)
      BY <1>3, <1>4, <1>5, <2>3, <3>3, <3>4 DEF NodeMoved
    <3> QED
      BY <3>5, NodeBalance
  <2>5. CASE ~ (DropsRoot(t) /\ n = fsroot["sub"])
    <3>1. Same(Places(node(n)), Places(node(n))')
      BY <1>0, <1>10, <2>5, NodePlaces
    <3>2. Same(Roots(n), Roots(n)')
      BY <2>2, <2>5, RootsMove
    <3>3. Moved(Places(node(n)), Places(node(n))', 0) /\ Moved(Roots(n), Roots(n)', 0)
      BY <3>1, <3>2 DEF Moved
    <3>4. refs'[n] = refs[n] + 0 + 0 + 0 + 0 + 0 + 0 + 0
      BY <1>0, <2>1
    <3>5. NodeMoved(n, 0, 0, 0, 0, 0, 0, 0)
      BY <1>3, <1>4, <1>5, <2>3, <3>3, <3>4 DEF NodeMoved
    <3> QED
      BY <3>5, NodeBalance
  <2> QED
    BY <2>4, <2>5
<1> QED
  BY <1>7, <1>8, <1>9, <1>10

\* A node that has been loaded has one reference, that of the thread that did.
LEMMA NodeNew ==
  ASSUME IInv, NEW t \in Threads, Acts(t), NEW s \in live', s \notin live
  PROVE  refs'[s] = NodeRefs(s)'
<1>0. /\ TypeOK /\ pc \in [Threads -> PCs] /\ call \in [Threads -> Calls]
      /\ live \subseteq Slots /\ leaked \in [Slots -> 0 .. MaxLeaks]
  BY DEF IInv, TypeOK
<1>1. Load(t) /\ refs'[s] = 1
  BY Steady
<1>2. PICK n \in live : \E x \in STRING : \E m \in Slots \ live : Loads(t, n, x, m)
  BY <1>1, LoadFacts
<1>3. PICK x \in STRING, m \in Slots \ live : Loads(t, n, x, m)
  BY <1>2
<1>4. live' = live \cup {m}
  BY <1>3 DEF Loads
<1>5. s = m /\ s \in Slots
  BY <1>4
<1>6. /\ pc' = [pc EXCEPT ![t] = "new"] /\ call' = [call EXCEPT ![t].nxt = s] /\ todo' = todo
      /\ n = cur(t) /\ InCall(t)
  BY <1>3, <1>5 DEF Loads
<1>7. /\ handles' = handles /\ fsrefs' = fsrefs /\ fsroot' = fsroot /\ leaked' = leaked
  BY <1>1 DEF Load, fvars
<1>8. \A u \in Threads : u # t => pc'[u] = pc[u] /\ call'[u] = call[u]
  BY <1>0, OthersUnmoved
<1>9. PICK d : d = [call[t] EXCEPT !.nxt = s]
  OBVIOUS
<1>10. pc'[t] = "new" /\ call'[t] = d
  BY <1>0, <1>6, <1>9
<1>11. d.nxt = s /\ d.cur = n
  <2>1. call[t] \in Calls
    BY <1>0
  <2> QED
    BY <1>6, <1>9, <2>1, CallFields DEF cur
<1>12. Walkers(s)' = {}
  <2>1. ASSUME NEW u \in Threads, pc'[u] # "idle", call'[u].cur = s PROVE FALSE
    <3>1. u # t
      BY <1>10, <1>11, <2>1
    <3>2. InCall(u) /\ cur(u) = s
      BY <1>8, <2>1, <3>1 DEF InCall, cur
    <3>3. cur(u) \in live
      BY <3>2, CallFacts
    <3> QED
      BY <3>2, <3>3
  <2> QED
    BY <2>1 DEF Walkers, InCall, cur
<1>13. Loading(s, {"new", "newfs"})' = {t}
  <2>1. ASSUME NEW u \in Threads, pc'[u] \in {"new", "newfs"}, call'[u].nxt = s PROVE u = t
    <3>1. SUFFICES ASSUME u # t PROVE FALSE
      OBVIOUS
    <3>2. pc[u] \in {"new", "newfs"} /\ call[u].nxt = s
      BY <1>8, <2>1, <3>1
    <3>3. call[u].nxt \in live
      BY <3>2, NextFacts
    <3> QED
      BY <3>2, <3>3
  <2>2. pc'[t] \in {"new", "newfs"} /\ call'[t].nxt = s
    BY <1>10, <1>11
  <2> QED
    BY <2>1, <2>2 DEF Loading
<1>14. Places(node(s))' = {}
  <2>1. ASSUME NEW u \in Threads, NEW i \in DOMAIN todo[u], todo[u][i] = node(s) PROVE FALSE
    <3>1. todo[u][i].do = "node" /\ todo[u][i].n = s
      BY <2>1, ItemFacts
    <3>2. todo[u][i].n \in live
      BY <3>1, ItemOf
    <3> QED
      BY <3>1, <3>2
  <2>2. \A u \in Threads : {i \in DOMAIN todo'[u] : todo'[u][i] = node(s)} = {}
    BY <1>6, <2>1
  <2> QED
    BY <2>2 DEF Places
<1>15. Children(s)' = {}
  <2>1. ~ NewParent(t) /\ ~ NewFs(t) /\ ~ Unlink(t)
    BY <1>1 DEF Load, NewParent, NewFs, Unlink, At, Doing
  <2>2. ASSUME NEW c, HoldsParent(c)', parent'[c] = s PROVE FALSE
    <3>1. HoldsParent(c)
      BY <2>1, <2>2, HoldersMove
    <3>2. Linked(c) /\ c \in live /\ c \in Slots
      BY <1>0, <3>1 DEF HoldsParent, Linked
    <3>3. c \in live' /\ parent[c] \in live /\ parent'[c] = parent[c]
      BY <3>2, InUseStays, Steady, ParentUsed
    <3> QED
      BY <2>2, <3>3
  <2> QED
    BY <2>2 DEF Children
<1>16. OpenNodes(s)' = {}
  <2>1. \A u \in Threads : \A h \in handles[u] : h[2] \in live
    BY DEF IInv, HandlesPlaced
  <2>2. ASSUME NEW u \in Threads, NEW f \in Fs, <<f, s>> \in handles[u] PROVE FALSE
    <3>1. <<f, s>>[2] \in live
      BY <2>1, <2>2
    <3> QED
      BY <3>1
  <2> QED
    BY <1>7, <2>2 DEF OpenNodes
<1>17. Roots(s)' = {}
  <2>1. ASSUME NEW f \in Fs, fsrefs[f] > 0, fsroot[f] = s PROVE FALSE
    <3>1. fsrefs[f] >= 1
      BY <1>0, <2>1 DEF TypeOK
    <3>2. fsroot[f] \in live
      BY <3>1, RootFacts
    <3> QED
      BY <2>1, <3>2
  <2> QED
    BY <1>7, <2>1 DEF Roots
<1>18. leaked'[s] = 0
  <2>1. fsrefs["main"] >= 1
    BY <1>6, MainThere
  <2>2. Root \in live
    BY <2>1, RootFacts DEF Fs
  <2>3. ~ (leaked[s] > 0)
    BY <1>5, <2>2 DEF IInv, FsPlaced
  <2>4. leaked[s] \in Nat
    BY <1>0, <1>5, VfsAssumption
  <2> QED
    BY <1>7, <2>3, <2>4
<1>19. Cardinality({}) = 0 /\ Cardinality({t}) = 1
  BY FS_EmptySet, FS_Singleton
<1>20. NodeRefs(s)' = 0 + 1 + 0 + 0 + 0 + 0 + 0
  BY <1>12, <1>13, <1>14, <1>15, <1>16, <1>17, <1>18, <1>19 DEF NodeRefs
<1> QED
  BY <1>1, <1>20

\* The count of a file system stays exact.
LEMMA FsStill ==
  ASSUME IInv, NEW t \in Threads, Acts(t), NEW f \in Fs
  PROVE  /\ owned' = owned => Moved({f} \cap owned, ({f} \cap owned)', 0)
         /\ handles' = handles => Moved(OpenFiles(f), OpenFiles(f)', 0)
         /\ todo' = todo => Moved(Places(fsys(f)), Places(fsys(f))', 0)
         /\ f = "sub" \/ (~ NewFs(t) /\ ~ Unlink(t)) => Moved(Nodes(f), Nodes(f)', 0)
<1>1. owned' = owned => Moved({f} \cap owned, ({f} \cap owned)', 0)
  BY DEF Moved, Same
<1>2. handles' = handles => Moved(OpenFiles(f), OpenFiles(f)', 0)
  BY DEF OpenFiles, Moved, Same
<1>3. todo' = todo => Moved(Places(fsys(f)), Places(fsys(f))', 0)
  BY FsPlaces DEF Moved
<1>4. f = "sub" => Moved(Nodes(f), Nodes(f)', 0)
  BY NodesMove DEF Moved, Same
<1>5. f = "main" /\ ~ NewFs(t) /\ ~ Unlink(t) => Moved(Nodes(f), Nodes(f)', 0)
  BY NodesMove DEF Moved
<1>6. f \in {"main", "sub"}
  BY DEF Fs
<1> QED
  BY <1>1, <1>2, <1>3, <1>4, <1>5, <1>6

\* Every step keeps the counts of file systems exact.
LEMMA FsCounts ==
  ASSUME IInv, NEW t \in Threads, Acts(t), NEW f \in Fs
  PROVE  fsrefs'[f] = FsRefs(f)'
<1>0. /\ TypeOK /\ fsrefs \in [Fs -> Nat] /\ fsrefs[f] \in Nat
      /\ "main" \in Fs /\ "sub" \in Fs /\ f \in {"main", "sub"}
  BY DEF IInv, TypeOK, Fs
<1>1. PICK d \in Int : d = -1
  OBVIOUS
<1>2. ASSUME \/ Begins(t) \/ Look(t) \/ Load(t) \/ NewParent(t) \/ DeleteLooked(t) \/ LockNode(t)
             \/ OpenOk(t) \/ Forget(t)
             \/ UnrefNode(t) \/ LastRef(t) \/ FreeNode(t)
      PROVE  fsrefs'[f] = FsRefs(f)'
  <2>1. handles' = handles /\ owned' = owned /\ fsrefs' = fsrefs
    BY <1>2 DEF Begins, Begin, Look, Load, NewParent, DeleteLooked, LockNode, OpenOk, Forget,
                UnrefNode, LastRef, FreeNode, fvars
  <2>2. ~ NewFs(t) /\ ~ Unlink(t) /\ Moved(Places(fsys(f)), Places(fsys(f))', 0)
    <3>1. CASE Begins(t) \/ Look(t) \/ Load(t) \/ NewParent(t) \/ DeleteLooked(t) \/ LockNode(t)
               \/ OpenOk(t) \/ Forget(t)
      <4>1. todo' = todo /\ pc[t] # "newfs" /\ todo[t] = <<>>
        BY <3>1 DEF Begins, Begin, Look, Load, NewParent, DeleteLooked, LockNode, OpenOk, Forget,
                    Arrived, Driver, At
      <4>2. ~ NewFs(t) /\ ~ Unlink(t)
        BY <4>1 DEF NewFs, Unlink, At, Doing
      <4> QED
        BY <4>1, <4>2, FsStill
    <3>2. CASE UnrefNode(t) \/ LastRef(t) \/ FreeNode(t)
      <4>1. todo[t] # <<>> /\ Head(todo[t]).do \in {"node", "free"}
        BY <3>2 DEF UnrefNode, LastRef, FreeNode, Doing
      <4>2. ~ NewFs(t) /\ ~ Unlink(t)
        BY <4>1 DEF NewFs, Unlink, At, Doing
      <4>3. Same(Places(fsys(f)), Places(fsys(f))')
        BY <3>2, FsPlaces
      <4> QED
        BY <4>2, <4>3 DEF Moved
    <3> QED
      BY <1>2, <3>1, <3>2
  <2>3. /\ Moved({f} \cap owned, ({f} \cap owned)', 0) /\ Moved(OpenFiles(f), OpenFiles(f)', 0)
        /\ Moved(Nodes(f), Nodes(f)', 0)
    BY <2>1, <2>2, FsStill
  <2>4. fsrefs'[f] = fsrefs[f] + 0 + 0 + 0 + 0
    BY <1>0, <2>1
  <2>5. FsMoved(f, 0, 0, 0, 0)
    BY <2>2, <2>3, <2>4 DEF FsMoved
  <2> QED
    BY <2>5, FsBalance
<1>3. ASSUME Found(t) \/ Back(t) \/ NewFs(t) PROVE fsrefs'[f] = FsRefs(f)'
  <2>1. /\ handles' = handles /\ owned' = owned /\ InCall(t) /\ todo[t] = <<>>
        /\ todo' = [todo EXCEPT ![t] = <<node(cur(t))>>]
    BY <1>3 DEF Found, Back, NewFs, Step, Return, At, InCall, fvars
  <2>2. PICK m \in Slots : m = cur(t)
    BY <2>1, CallFacts
  <2>3. Puts(t, <<node(m)>>)
    BY <2>1, <2>2 DEF Puts
  <2>4. Same(Places(fsys(f)), Places(fsys(f))')
    BY <2>1, <2>3, FsPlaces
  <2>5. Moved(Places(fsys(f)), Places(fsys(f))', 0)
    BY <2>4 DEF Moved
  <2>6. Moved({f} \cap owned, ({f} \cap owned)', 0) /\ Moved(OpenFiles(f), OpenFiles(f)', 0)
    BY <2>1, FsStill
  <2>7. ~ Unlink(t)
    BY <2>1 DEF Unlink, Doing
  <2>8. CASE NewFs(t) /\ f = "main"
    <3>1. Gains(Nodes(f), Nodes(f)')
      BY <2>8, NodesMove
    <3>2. Moved(Nodes(f), Nodes(f)', 1)
      BY <3>1 DEF Moved
    <3>3. fsrefs' = [fsrefs EXCEPT !["main"] = @ + 1]
      BY <2>8 DEF NewFs
    <3>4. fsrefs'[f] = fsrefs[f] + 0 + 0 + 0 + 1
      BY <1>0, <2>8, <3>3
    <3>5. FsMoved(f, 0, 0, 0, 1)
      BY <2>5, <2>6, <3>2, <3>4 DEF FsMoved
    <3> QED
      BY <3>5, FsBalance
  <2>9. CASE ~ (NewFs(t) /\ f = "main")
    <3>1. Moved(Nodes(f), Nodes(f)', 0)
      BY <1>0, <2>7, <2>9, FsStill
    <3>2. fsrefs'[f] = fsrefs[f]
      <4>1. CASE NewFs(t)
        <5>1. fsrefs' = [fsrefs EXCEPT !["main"] = @ + 1]
          BY <4>1 DEF NewFs
        <5> QED
          BY <1>0, <2>9, <4>1, <5>1
      <4>2. CASE Found(t) \/ Back(t)
        BY <4>2 DEF Found, Back, fvars
      <4> QED
        BY <1>3, <4>1, <4>2
    <3>3. fsrefs'[f] = fsrefs[f] + 0 + 0 + 0 + 0
      BY <1>0, <3>2
    <3>4. FsMoved(f, 0, 0, 0, 0)
      BY <2>5, <2>6, <3>1, <3>3 DEF FsMoved
    <3> QED
      BY <3>4, FsBalance
  <2> QED
    BY <2>8, <2>9
<1>4. ASSUME fs_open(t) PROVE fsrefs'[f] = FsRefs(f)'
  <2>1. /\ owned' = owned /\ todo' = todo /\ pc[t] = "opened" /\ todo[t] = <<>> /\ InCall(t)
        /\ fsrefs' = [fsrefs EXCEPT ![call[t].fs] = @ + 1]
    BY <1>4 DEF fs_open, At, InCall
  <2>2. ~ NewFs(t) /\ ~ Unlink(t)
    BY <2>1 DEF NewFs, Unlink, At, Doing
  <2>3. PICK g \in Fs : g = call[t].fs
    BY <2>1, CallFacts
  <2>4. /\ Moved({f} \cap owned, ({f} \cap owned)', 0) /\ Moved(Nodes(f), Nodes(f)', 0)
        /\ Moved(Places(fsys(f)), Places(fsys(f))', 0)
    BY <2>1, <2>2, FsStill
  <2>5. (f = g => Gains(OpenFiles(f), OpenFiles(f)')) /\ (f # g => Same(OpenFiles(f), OpenFiles(f)'))
    BY <1>4, <2>3, OpenMove
  <2>6. CASE f = g
    <3>1. Moved(OpenFiles(f), OpenFiles(f)', 1)
      BY <2>5, <2>6 DEF Moved
    <3>2. fsrefs'[f] = fsrefs[f] + 0 + 0 + 1 + 0
      BY <1>0, <2>1, <2>3, <2>6
    <3>3. FsMoved(f, 0, 0, 1, 0)
      BY <2>4, <3>1, <3>2 DEF FsMoved
    <3> QED
      BY <3>3, FsBalance
  <2>7. CASE f # g
    <3>1. Moved(OpenFiles(f), OpenFiles(f)', 0)
      BY <2>5, <2>7 DEF Moved
    <3>2. fsrefs'[f] = fsrefs[f] + 0 + 0 + 0 + 0
      BY <1>0, <2>1, <2>3, <2>7
    <3>3. FsMoved(f, 0, 0, 0, 0)
      BY <2>4, <3>1, <3>2 DEF FsMoved
    <3> QED
      BY <3>3, FsBalance
  <2> QED
    BY <2>6, <2>7
<1>5. ASSUME fs_subfs(t) PROVE fsrefs'[f] = FsRefs(f)'
  <2>1. /\ handles' = handles /\ todo' = todo /\ pc[t] = "walk" /\ todo[t] = <<>>
        /\ fsrefs' = [fsrefs EXCEPT !["sub"] = 1] /\ fsrefs["sub"] = 0
    BY <1>5 DEF fs_subfs, Arrived, At
  <2>2. ~ NewFs(t) /\ ~ Unlink(t) /\ ~ Leaves(t)
    BY <2>1 DEF NewFs, Unlink, Leaves, rm_fs, At, Doing
  <2>3. /\ Moved(OpenFiles(f), OpenFiles(f)', 0) /\ Moved(Nodes(f), Nodes(f)', 0)
        /\ Moved(Places(fsys(f)), Places(fsys(f))', 0)
    BY <2>1, <2>2, FsStill
  <2>4. CASE f = "sub"
    <3>1. Gains({f} \cap owned, ({f} \cap owned)')
      BY <1>5, <2>4, OwnedMove
    <3>2. Moved({f} \cap owned, ({f} \cap owned)', 1)
      BY <3>1 DEF Moved
    <3>3. fsrefs'[f] = fsrefs[f] + 1 + 0 + 0 + 0
      BY <1>0, <2>1, <2>4
    <3>4. FsMoved(f, 1, 0, 0, 0)
      BY <2>3, <3>2, <3>3 DEF FsMoved
    <3> QED
      BY <3>4, FsBalance
  <2>5. CASE f # "sub"
    <3>1. Same({f} \cap owned, ({f} \cap owned)')
      BY <2>2, <2>5, OwnedMove
    <3>2. Moved({f} \cap owned, ({f} \cap owned)', 0)
      BY <3>1 DEF Moved
    <3>3. fsrefs'[f] = fsrefs[f] + 0 + 0 + 0 + 0
      BY <1>0, <2>1, <2>5
    <3>4. FsMoved(f, 0, 0, 0, 0)
      BY <2>3, <3>2, <3>3 DEF FsMoved
    <3> QED
      BY <3>4, FsBalance
  <2> QED
    BY <2>4, <2>5
<1>6. ASSUME NEW u \in Threads, NEW h \in handles[u], unref_file(t, u, h)
      PROVE  FsMoved(f, 0, 1, d, 0) \/ FsMoved(f, 0, 0, 0, 0)
  <2>1. /\ owned' = owned /\ fsrefs' = fsrefs /\ todo[t] = <<>> /\ pc[t] = "idle"
        /\ todo' = [todo EXCEPT ![t] = <<node(h[2]), fsys(h[1])>>]
    BY <1>6 DEF unref_file, At
  <2>2. handles[u] \in SUBSET (Fs \X Slots)
    BY <1>0 DEF TypeOK
  <2>3. PICK m \in Slots : m = h[2]
    BY <2>2
  <2>4. PICK g \in Fs : g = h[1]
    BY <2>2
  <2>5. Puts(t, <<node(m), fsys(g)>>)
    BY <2>1, <2>3, <2>4 DEF Puts
  <2>6. /\ f = g => Gains(Places(fsys(f)), Places(fsys(f))')
        /\ f # g => Same(Places(fsys(f)), Places(fsys(f))')
    BY <2>1, <2>5, FsPlaces
  <2>7. (f = g => Loses(OpenFiles(f), OpenFiles(f)')) /\ (f # g => Same(OpenFiles(f), OpenFiles(f)'))
    BY <1>6, <2>4, OpenMove
  <2>8. ~ NewFs(t) /\ ~ Unlink(t)
    BY <2>1 DEF NewFs, Unlink, At, Doing
  <2>9. Moved({f} \cap owned, ({f} \cap owned)', 0) /\ Moved(Nodes(f), Nodes(f)', 0)
    BY <2>1, <2>8, FsStill
  <2>10. CASE f = g
    <3>1. Moved(Places(fsys(f)), Places(fsys(f))', 1) /\ Moved(OpenFiles(f), OpenFiles(f)', d)
      BY <1>1, <2>6, <2>7, <2>10 DEF Moved
    <3>2. fsrefs'[f] = fsrefs[f] + 0 + 1 + d + 0
      BY <1>0, <1>1, <2>1
    <3> QED
      BY <2>9, <3>1, <3>2 DEF FsMoved
  <2>11. CASE f # g
    <3>1. Moved(Places(fsys(f)), Places(fsys(f))', 0) /\ Moved(OpenFiles(f), OpenFiles(f)', 0)
      BY <2>6, <2>7, <2>11 DEF Moved
    <3>2. fsrefs'[f] = fsrefs[f] + 0 + 0 + 0 + 0
      BY <1>0, <2>1
    <3> QED
      BY <2>9, <3>1, <3>2 DEF FsMoved
  <2> QED
    BY <2>10, <2>11
<1>7. ASSUME Closes(t) PROVE fsrefs'[f] = FsRefs(f)'
  <2>1. FsMoved(f, 0, 1, d, 0) \/ FsMoved(f, 0, 0, 0, 0)
    BY <1>6, <1>7 DEF Closes
  <2> QED
    BY <2>1, FsBalance
<1>8. ASSUME NEW g \in Fs, rm_fs(t, g) PROVE fsrefs'[f] = FsRefs(f)'
  <2>1. /\ handles' = handles /\ fsrefs' = fsrefs /\ todo[t] = <<>> /\ pc[t] = "idle"
        /\ todo' = [todo EXCEPT ![t] = <<fsys(g)>>]
    BY <1>8 DEF rm_fs, At
  <2>2. Puts(t, <<fsys(g)>>)
    BY <2>1 DEF Puts
  <2>3. /\ f = g => Gains(Places(fsys(f)), Places(fsys(f))')
        /\ f # g => Same(Places(fsys(f)), Places(fsys(f))')
    BY <2>1, <2>2, FsPlaces
  <2>4. /\ f = g => Loses({f} \cap owned, ({f} \cap owned)')
        /\ f # g => Same({f} \cap owned, ({f} \cap owned)')
    BY <1>8, OwnedMove
  <2>5. ~ NewFs(t) /\ ~ Unlink(t)
    BY <2>1 DEF NewFs, Unlink, At, Doing
  <2>6. Moved(OpenFiles(f), OpenFiles(f)', 0) /\ Moved(Nodes(f), Nodes(f)', 0)
    BY <2>1, <2>5, FsStill
  <2>7. CASE f = g
    <3>1. Moved(Places(fsys(f)), Places(fsys(f))', 1) /\ Moved({f} \cap owned, ({f} \cap owned)', d)
      BY <1>1, <2>3, <2>4, <2>7 DEF Moved
    <3>2. fsrefs'[f] = fsrefs[f] + d + 1 + 0 + 0
      BY <1>0, <1>1, <2>1
    <3>3. FsMoved(f, d, 1, 0, 0)
      BY <2>6, <3>1, <3>2 DEF FsMoved
    <3> QED
      BY <3>3, FsBalance
  <2>8. CASE f # g
    <3>1. Moved(Places(fsys(f)), Places(fsys(f))', 0) /\ Moved({f} \cap owned, ({f} \cap owned)', 0)
      BY <2>3, <2>4, <2>8 DEF Moved
    <3>2. fsrefs'[f] = fsrefs[f] + 0 + 0 + 0 + 0
      BY <1>0, <2>1
    <3>3. FsMoved(f, 0, 0, 0, 0)
      BY <2>6, <3>1, <3>2 DEF FsMoved
    <3> QED
      BY <3>3, FsBalance
  <2> QED
    BY <2>7, <2>8
<1>9. ASSUME Unlink(t) PROVE fsrefs'[f] = FsRefs(f)'
  <2>1. handles' = handles /\ owned' = owned /\ fsrefs' = fsrefs
    BY <1>9 DEF Unlink, fvars
  <2>2. Moved({f} \cap owned, ({f} \cap owned)', 0) /\ Moved(OpenFiles(f), OpenFiles(f)', 0)
    BY <2>1, FsStill
  <2>3. CASE f = "main"
    <3>1. Gains(Places(fsys(f)), Places(fsys(f))')
      BY <1>9, <2>3, FsPlaces
    <3>2. Loses(Nodes(f), Nodes(f)')
      BY <1>9, <2>3, NodesMove
    <3>3. Moved(Places(fsys(f)), Places(fsys(f))', 1) /\ Moved(Nodes(f), Nodes(f)', d)
      BY <1>1, <3>1, <3>2 DEF Moved
    <3>4. fsrefs'[f] = fsrefs[f] + 0 + 1 + 0 + d
      BY <1>0, <1>1, <2>1
    <3>5. FsMoved(f, 0, 1, 0, d)
      BY <2>2, <3>3, <3>4 DEF FsMoved
    <3> QED
      BY <3>5, FsBalance
  <2>4. CASE f = "sub"
    <3>1. Same(Places(fsys(f)), Places(fsys(f))')
      BY <1>9, <2>4, FsPlaces
    <3>2. Moved(Places(fsys(f)), Places(fsys(f))', 0) /\ Moved(Nodes(f), Nodes(f)', 0)
      BY <2>4, <3>1, FsStill DEF Moved
    <3>3. fsrefs'[f] = fsrefs[f] + 0 + 0 + 0 + 0
      BY <1>0, <2>1
    <3>4. FsMoved(f, 0, 0, 0, 0)
      BY <2>2, <3>2, <3>3 DEF FsMoved
    <3> QED
      BY <3>4, FsBalance
  <2> QED
    BY <1>0, <2>3, <2>4
<1>10. ASSUME unref_fs(t) PROVE fsrefs'[f] = FsRefs(f)'
  <2>1. /\ handles' = handles /\ owned' = owned /\ todo[t] # <<>> /\ Head(todo[t]).do = "fs"
        /\ fsrefs' = [fsrefs EXCEPT ![Head(todo[t]).fs] = @ - 1]
    BY <1>10 DEF unref_fs, Doing
  <2>2. PICK g \in Fs : g = Head(todo[t]).fs
    BY <2>1, HeadItem
  <2>3. ~ NewFs(t) /\ ~ Unlink(t)
    BY <2>1 DEF NewFs, Unlink, At, Doing
  <2>4. /\ Moved({f} \cap owned, ({f} \cap owned)', 0) /\ Moved(OpenFiles(f), OpenFiles(f)', 0)
        /\ Moved(Nodes(f), Nodes(f)', 0)
    BY <2>1, <2>3, FsStill
  <2>5. /\ f = g => Loses(Places(fsys(f)), Places(fsys(f))')
        /\ f # g => Same(Places(fsys(f)), Places(fsys(f))')
    BY <1>10, <2>2, FsPlaces
  <2>6. CASE f = g
    <3>1. Moved(Places(fsys(f)), Places(fsys(f))', d)
      BY <1>1, <2>5, <2>6 DEF Moved
    <3>2. fsrefs'[f] = fsrefs[f] + 0 + d + 0 + 0
      BY <1>0, <1>1, <2>1, <2>2, <2>6
    <3>3. FsMoved(f, 0, d, 0, 0)
      BY <2>4, <3>1, <3>2 DEF FsMoved
    <3> QED
      BY <3>3, FsBalance
  <2>7. CASE f # g
    <3>1. Moved(Places(fsys(f)), Places(fsys(f))', 0)
      BY <2>5, <2>7 DEF Moved
    <3>2. fsrefs'[f] = fsrefs[f] + 0 + 0 + 0 + 0
      BY <1>0, <2>1, <2>2, <2>7
    <3>3. FsMoved(f, 0, 0, 0, 0)
      BY <2>4, <3>1, <3>2 DEF FsMoved
    <3> QED
      BY <3>3, FsBalance
  <2> QED
    BY <2>6, <2>7
<1> QED
  BY <1>2, <1>3, <1>4, <1>5, <1>7, <1>8, <1>9, <1>10 DEF Acts, Begins, Closes

\* Every count stays exact.
LEMMA CountsKept ==
  ASSUME IInv, NEW t \in Threads, Acts(t)
  PROVE  CountsExact'
<1>1. ASSUME NEW n \in live' PROVE refs'[n] = NodeRefs(n)'
  <2>1. CASE n \notin live
    BY <2>1, NodeNew
  <2>2. CASE n \in live
    <3>1. \/ Begins(t) \/ Look(t) \/ Found(t) \/ Load(t) \/ NewParent(t) \/ NewFs(t)
          \/ DeleteLooked(t) \/ LockNode(t) \/ OpenOk(t)
          \/ Back(t) \/ Forget(t) \/ fs_open(t) \/ fs_subfs(t) \/ Closes(t) \/ Leaves(t)
          \/ UnrefNode(t) \/ LastRef(t) \/ Unlink(t) \/ FreeNode(t) \/ unref_fs(t)
      BY DEF Acts, Begins, Closes, Leaves
    <3> QED
      BY <2>2, <3>1, NodeWalks, NodeEnds, NodeDrops
  <2> QED
    BY <2>1, <2>2
<1>2. \A f \in Fs : fsrefs'[f] = FsRefs(f)'
  BY FsCounts
<1> QED
  BY <1>1, <1>2 DEF CountsExact

-----------------------------------------------------------------------------
(***************************************************************************)
(* The invariant.                                                          *)
(***************************************************************************)

\* The invariant holds at first: the types,
LEMMA InitTypes ==
  ASSUME Init
  PROVE  TypeOK
<1>1. Root \in Slots /\ <<>> \in Seq(Items)
  BY VfsAssumption
<1>2. live \subseteq Slots /\ owned \subseteq Fs
  BY <1>1 DEF Init, Fs
<1>3. refs \in [Slots -> Nat] /\ lock \in [Slots -> Threads \cup {NoThread}]
  BY DEF Init
<1>4. parent \in [Slots -> Slots \cup {NoSlot}] /\ at \in [Slots -> Paths \cup {<<>>}]
  BY DEF Init
<1>5. kids \in [Slots -> SUBSET (STRING \X Slots)]
  BY DEF Init
<1>6. fsrefs \in [Fs -> Nat] /\ fsroot \in [Fs -> Slots \cup {NoSlot}]
  BY <1>1 DEF Init
<1>7. handles \in [Threads -> SUBSET (Fs \X Slots)]
  BY DEF Init
<1>8. /\ disk \subseteq Paths /\ stuck \subseteq Dirs /\ pc \in [Threads -> PCs]
      /\ former \subseteq Slots /\ freed \subseteq Slots
  BY DEF Init, PCs
<1>8a. listed \in [Dirs -> Int]
  BY VfsAssumption DEF Init
<1>9. call \in [Threads -> Calls]
  BY CallTypes DEF Init
<1>10. todo \in [Threads -> Seq(Items)]
  BY <1>1 DEF Init
<1>11. leaked \in [Slots -> 0 .. MaxLeaks] /\ seen \in [Threads -> SUBSET Slots]
  <2>1. 0 \in 0 .. MaxLeaks
    BY VfsAssumption
  <2> QED
    BY <2>1 DEF Init
<1> QED
  BY <1>2, <1>3, <1>4, <1>5, <1>6, <1>7, <1>8, <1>8a, <1>9, <1>10, <1>11 DEF TypeOK

\* and the counts.
LEMMA InitCounts ==
  ASSUME Init
  PROVE  StacksFinite /\ CountsExact
<1>1. \A x : Places(x) = {}
  <2>1. \A t \in Threads : todo[t] = <<>>
    BY DEF Init
  <2>2. \A x : \A t \in Threads : {i \in DOMAIN todo[t] : todo[t][i] = x} = {}
    BY <2>1
  <2> QED
    BY <2>2 DEF Places
<1>2. StacksFinite
  BY <1>1, FS_EmptySet DEF StacksFinite
<1>3. Cardinality({}) = 0 /\ Cardinality({"main"}) = 1
  BY FS_EmptySet, FS_Singleton
<1>4. \A n : /\ Walkers(n) = {} /\ Loading(n, {"new", "newfs"}) = {}
             /\ OpenNodes(n) = {} /\ Children(n) = {}
  <2>1. \A t \in Threads : pc[t] = "idle" /\ handles[t] = {}
    BY DEF Init
  <2>2. \A n : Walkers(n) = {} /\ Loading(n, {"new", "newfs"}) = {}
    BY <2>1 DEF Walkers, Loading, InCall
  <2>3. \A n : OpenNodes(n) = {}
    BY <2>1 DEF OpenNodes
  <2>4. \A n : Children(n) = {}
    <3>1. live \ {Root} = {}
      BY DEF Init
    <3> QED
      BY <3>1 DEF Children, HoldsParent
  <2> QED
    BY <2>2, <2>3, <2>4
<1>5. Roots(Root) = {"main"}
  <2>1. /\ "main" \in Fs /\ fsrefs["main"] = 1 /\ fsroot["main"] = Root
        /\ \A f \in Fs : f # "main" => fsrefs[f] = 0
    BY DEF Init, Fs
  <2> QED
    BY <2>1 DEF Roots
<1>6. \A n \in live : refs[n] = NodeRefs(n)
  <2>1. Root \in Slots
    BY VfsAssumption
  <2>2. refs[Root] = 1 /\ leaked[Root] = 0 /\ live = {Root}
    BY <2>1 DEF Init
  <2>3. NodeRefs(Root) = 0 + 0 + 0 + 0 + 0 + 1 + 0
    BY <1>1, <1>3, <1>4, <1>5, <2>2 DEF NodeRefs
  <2> QED
    BY <2>2, <2>3
<1>7. \A f \in Fs : fsrefs[f] = FsRefs(f)
  <2>1. \A f \in Fs : OpenFiles(f) = {} /\ Nodes(f) = {}
    <3>1. \A t \in Threads : handles[t] = {}
      BY DEF Init
    <3>2. live \ {Root} = {}
      BY DEF Init
    <3> QED
      BY <3>1, <3>2 DEF OpenFiles, Nodes, HoldsFs
  <2>2. {"main"} \cap owned = {"main"} /\ {"sub"} \cap owned = {}
    BY DEF Init
  <2>3. fsrefs["main"] = 1 /\ fsrefs["sub"] = 0
    BY DEF Init, Fs
  <2>4. FsRefs("main") = 1 + 0 + 0 + 0
    BY <1>1, <1>3, <2>1, <2>2 DEF FsRefs, Fs
  <2>5. FsRefs("sub") = 0 + 0 + 0 + 0
    BY <1>1, <1>3, <2>1, <2>2 DEF FsRefs, Fs
  <2> QED
    BY <2>3, <2>4, <2>5 DEF Fs
<1> QED
  BY <1>2, <1>6, <1>7 DEF CountsExact

\* The invariant holds at the start, ...
LEMMA InitIInv ==
  ASSUME Init
  PROVE  IInv
<1>1. TypeOK /\ StacksFinite /\ CountsExact
  BY InitTypes, InitCounts
<1>2. /\ Root \in Slots /\ live = {Root} /\ fsroot["main"] = Root /\ fsrefs["main"] = 1
      /\ fsrefs["sub"] = 0 /\ disk = {}
  BY VfsAssumption DEF Init, Fs
<1>3. \A t \in Threads : /\ pc[t] = "idle" /\ todo[t] = <<>> /\ handles[t] = {}
                         /\ DOMAIN todo[t] = {}
  BY DEF Init
<1>4. \A n \in Slots : /\ lock[n] = NoThread /\ at[n] = <<>> /\ kids[n] = {} /\ leaked[n] = 0
  BY DEF Init
<1>5. refs[Root] = 1
  BY <1>2 DEF Init
<1>6. Stacks
  BY <1>3 DEF Stacks, StackOk
<1>7. Tree
  <2>1. \A s : ~ Linked(s)
    BY <1>2 DEF Linked
  <2> QED
    BY <1>2, <1>4, <2>1 DEF Tree
<1>8. Locks
  <2>1. \A n \in Slots : \A t \in Threads : lock[n] # t /\ ~ InDriver(t, n) /\ ~ Removes(t, n)
    BY <1>3, <1>4, VfsAssumption DEF InDriver, Removes
  <2> QED
    BY <1>2, <1>5, <2>1 DEF Locks
<1>9. CallsInStep
  BY <1>3 DEF CallsInStep, CallInStep, InCall
<1>10. LoadedByOne /\ HandlesPlaced /\ RootKept
  BY <1>3 DEF LoadedByOne, HandlesPlaced, RootKept
<1>11. FsPlaced
  BY <1>2, <1>4 DEF FsPlaced
<1>12. OncePerItem /\ LookedUp
  BY <1>2, <1>3 DEF OncePerItem, LookedUp, Deleting
<1> QED
  BY <1>1, <1>6, <1>7, <1>8, <1>9, <1>10, <1>11, <1>12 DEF IInv

\* ... each step of a thread keeps it, ...
LEMMA ActsIInv ==
  ASSUME IInv, NEW t \in Threads, Acts(t)
  PROVE  IInv'
<1>1. Acts(t)
  OBVIOUS
<1>2. TypeOK'
  BY <1>1, TypesKept
<1>3. StacksFinite' /\ CountsExact'
  BY <1>1, StacksFiniteKept, CountsKept
<1>4. Stacks' /\ Locks'
  BY <1>1, StacksKept, LocksKept
<1>5. Tree'
  BY <1>1, <1>2, TreeKept
<1>6. CallsInStep' /\ LoadedByOne'
  BY <1>1, CallsKept, LoadedByOneKept
<1>7. HandlesPlaced' /\ RootKept'
  BY <1>1, HandlesKept, RootKeptThen
<1>8. FsPlaced'
  BY <1>1, <1>2, FsKept
<1>9. OncePerItem'
  BY <1>1, <1>2, OncePerItemKept
<1>10. LookedUp'
  BY <1>1, <1>2, LookedUpKept
<1> QED
  BY <1>2, <1>3, <1>4, <1>5, <1>6, <1>7, <1>8, <1>9, <1>10 DEF IInv

\* ... and so does one that changes nothing or only what the driver holds.
LEMMA DriverIInv ==
  ASSUME IInv, DriverOnly
  PROVE  IInv'
<1>0. UNCHANGED <<nvars, fvars, tvars, hvars>> /\ DriverOk'
  BY DEF DriverOnly
<1> USE <1>0 DEF nvars, fvars, tvars, hvars
<1>1. TypeOK' /\ RootKept'
  BY DEF IInv, TypeOK, RootKept, DriverOk
<1>2. StacksFinite'
  BY DEF IInv, StacksFinite, Places
<1>3. CountsExact'
  <2>1. \A s : Unlinked(s)' <=> Unlinked(s)
    BY DEF Unlinked
  <2>2. \A s, pcs : Loading(s, pcs)' = Loading(s, pcs)
    BY DEF Loading
  <2>3. \A s : (HoldsParent(s)' <=> HoldsParent(s)) /\ (HoldsFs(s)' <=> HoldsFs(s))
    BY <2>1, <2>2 DEF HoldsParent, HoldsFs
  <2>4. \A x : Places(x)' = Places(x)
    BY DEF Places
  <2>5. \A n : Walkers(n)' = Walkers(n) /\ OpenNodes(n)' = OpenNodes(n) /\ Roots(n)' = Roots(n)
    BY DEF Walkers, InCall, cur, OpenNodes, Roots
  <2>6. \A n : Children(n)' = Children(n)
    BY <2>3 DEF Children
  <2>7. \A f : OpenFiles(f)' = OpenFiles(f) /\ Nodes(f)' = Nodes(f)
    BY <2>3 DEF OpenFiles, Nodes
  <2>8. \A n : NodeRefs(n)' = NodeRefs(n)
    BY <2>2, <2>4, <2>5, <2>6 DEF NodeRefs
  <2>9. \A f : FsRefs(f)' = FsRefs(f)
    BY <2>4, <2>7 DEF FsRefs
  <2> QED
    BY <2>8, <2>9 DEF IInv, CountsExact
<1>4. Stacks'
  BY DEF IInv, Stacks, StackOk
<1>5. Tree'
  BY DEF IInv, Tree, Linked, Unlinked
<1>6. Locks'
  BY DEF IInv, Locks, InDriver, Removes, Free, cur
<1>7. CallsInStep' /\ LoadedByOne'
  BY DEF IInv, CallsInStep, CallInStep, LoadedByOne, InCall, Child, Depth
<1>8. FsPlaced'
  BY DEF IInv, FsPlaced, Depth, DriverOk
<1>9. OncePerItem'
  BY DEF IInv, OncePerItem
<1>10. LookedUp'
  BY DEF IInv, LookedUp, Deleting, Item, cur
<1>11. HandlesPlaced'
  BY DEF IInv, HandlesPlaced, Depth
<1> QED
  BY <1>1, <1>2, <1>3, <1>4, <1>5, <1>6, <1>7, <1>8, <1>9, <1>10, <1>11 DEF IInv

\* The invariant holds in every state.
THEOREM Invariant == Spec => []IInv
<1>1. IInv /\ UNCHANGED vars => DriverOnly
  BY DriverStays DEF DriverOnly, vars
<1>2. IInv /\ [Next]_vars => IInv'
  BY <1>1, NextIsActs, ActsIInv, DriverIInv
<1> QED
  BY <1>2, InitIInv, PTL DEF Spec

-----------------------------------------------------------------------------
(***************************************************************************)
(* What follows from it.                                                   *)
(***************************************************************************)

\* Every reference is counted, and nothing that was freed is reached.
LEMMA NothingDangles ==
  ASSUME IInv
  PROVE  RefsExact
<1>0. TypeOK /\ StacksFinite /\ CountsExact
  BY DEF IInv
<1>1. ASSUME NEW t \in Threads, InCall(t) PROVE fsrefs[call[t].fs] > 0 /\ cur(t) \in live
  <2>1. /\ cur(t) \in live /\ call[t].fs \in Fs /\ fsrefs[call[t].fs] >= 1
    BY <1>1, CallFacts
  <2>2. fsrefs[call[t].fs] \in Nat
    BY <1>0, <2>1 DEF TypeOK
  <2> QED
    BY <2>1, <2>2
<1>2. ASSUME NEW t \in Threads, pc[t] \in {"found", "new", "newfs"} PROVE call[t].nxt \in live
  BY <1>2, NextFacts
<1>3. ASSUME NEW t \in Threads, NEW i \in DOMAIN todo[t]
      PROVE  IF todo[t][i].do = "fs" THEN fsrefs[todo[t][i].fs] > 0 ELSE todo[t][i].n \in live
  <2>1. CASE todo[t][i].do = "fs"
    <3>1. todo[t][i].fs \in Fs /\ fsrefs[todo[t][i].fs] >= 1
      BY <2>1, ItemOf
    <3>2. fsrefs[todo[t][i].fs] \in Nat
      BY <1>0, <3>1 DEF TypeOK
    <3> QED
      BY <2>1, <3>1, <3>2
  <2>2. CASE todo[t][i].do # "fs"
    BY <2>2, ItemOf
  <2> QED
    BY <2>1, <2>2
<1>4. ASSUME NEW t \in Threads, NEW h \in handles[t] PROVE fsrefs[h[1]] > 0 /\ h[2] \in live
  <2>1. handles[t] \in SUBSET (Fs \X Slots)
    BY <1>0 DEF TypeOK
  <2>2. h[1] \in Fs /\ h[2] \in Slots /\ h = <<h[1], h[2]>>
    BY <2>1
  <2>3. PICK f \in Fs : f = h[1]
    BY <2>2
  <2>4. PICK n \in Slots : n = h[2]
    BY <2>2
  <2>5. <<f, n>> \in handles[t]
    BY <2>2, <2>3, <2>4
  <2>6. fsrefs[f] >= 1
    BY <1>0, <2>5, Positive
  <2>7. fsrefs[f] \in Nat
    BY <1>0 DEF TypeOK
  <2>8. h[2] \in live
    BY DEF IInv, HandlesPlaced
  <2> QED
    BY <2>3, <2>6, <2>7, <2>8
<1>5. ASSUME NEW f \in Fs, fsrefs[f] > 0 PROVE fsroot[f] \in live
  <2>1. fsrefs[f] \in Nat
    BY <1>0 DEF TypeOK
  <2>2. fsrefs[f] >= 1
    BY <1>5, <2>1
  <2> QED
    BY <2>2, RootFacts
<1>6. ASSUME NEW n \in live, NEW k \in kids[n] PROVE k[2] \in live
  BY <1>6, KidFacts DEF Linked
<1>7. ASSUME NEW s \in live, HoldsParent(s) PROVE parent[s] \in live
  <2>1. s \in Slots /\ Linked(s)
    BY <1>0, <1>7 DEF TypeOK, HoldsParent, Linked
  <2> QED
    BY <2>1, ParentUsed
<1>8. NoDangling
  BY <1>1, <1>2, <1>3, <1>4, <1>5, <1>6, <1>7 DEF NoDangling
<1> QED
  BY <1>0, <1>8 DEF RefsExact

\* References are what keeps nodes and file systems alive: in every state each
\* count is the number of references, and nothing freed is reached, whatever
\* the walks, errors, deletes and releases that interleave.
THEOREM RefsAreExact == Spec => []RefsExact
<1>1. IInv => RefsExact
  BY NothingDangles
<1> QED
  BY <1>1, Invariant, PTL

\* OncePerItem and Tree are what OnceInMemory says.
LEMMA OneNodeEach ==
  ASSUME IInv
  PROVE  OnceInMemory
<1>1. \A m, n \in live : refs[m] > 0 /\ refs[n] > 0 /\ at[m] = at[n] => m = n
  BY DEF IInv, OncePerItem
<1>2. ASSUME NEW n \in live, NEW s \in Slots
      PROVE  (\E k \in kids[n] : k[2] = s)
               <=> s \in live \ {Root} /\ ~ Unlinked(s) /\ parent[s] = n
  <2>1. (\E k \in kids[n] : k[2] = s) => Linked(s) /\ parent[s] = n
    BY DEF IInv, Tree
  <2>2. Linked(s) /\ parent[s] = n => \E k \in kids[n] : k[2] = s
    BY DEF IInv, Tree
  <2> QED
    BY <2>1, <2>2 DEF Linked
<1> QED
  BY <1>1, <1>2 DEF OnceInMemory

\* A node is in memory only once: the table of its parent holds it from the
\* moment it is loaded until it is unlinked, and no other node in use stands
\* for its item.
THEOREM NodesAreOnce == Spec => []OnceInMemory
<1>1. IInv => OnceInMemory
  BY OneNodeEach
<1> QED
  BY <1>1, Invariant, PTL

\* When the file system itself goes, its root has its reference, and those that
\* were lost.
LEMMA LastOfRoot ==
  ASSUME IInv, NEW t \in Threads, todo[t] # <<>>, Head(todo[t]) = fsys("main"),
         fsrefs["main"] = 1
  PROVE  refs[Root] = 1 + leaked[Root]
<1>1. /\ \A u \in Threads : ~ InCall(u) /\ handles[u] = {}
      /\ \A s \in Slots : ~ Linked(s)
      /\ \A u \in Threads : \A i \in DOMAIN todo[u] : todo[u][i] # node(Root)
      /\ fsrefs["sub"] = 0 /\ Root \in live
  BY MainGoes
<1>2. /\ TypeOK /\ CountsExact /\ fsroot["main"] = Root /\ leaked[Root] \in Int
      /\ live \subseteq Slots
  <2>1. leaked \in [Slots -> 0 .. MaxLeaks] /\ Root \in Slots
    BY VfsAssumption DEF IInv, TypeOK
  <2>2. leaked[Root] \in Int
    BY <2>1, VfsAssumption
  <2> QED
    BY <2>2, RootFacts DEF IInv, TypeOK
<1>3. Walkers(Root) = {} /\ Loading(Root, {"new", "newfs"}) = {} /\ OpenNodes(Root) = {}
  BY <1>1 DEF Walkers, Loading, OpenNodes, InCall
<1>4. Places(node(Root)) = {}
  <2>1. \A u \in Threads : {i \in DOMAIN todo[u] : todo[u][i] = node(Root)} = {}
    BY <1>1
  <2> QED
    BY <2>1 DEF Places
<1>5. Children(Root) = {}
  BY <1>1, <1>2 DEF Children, HoldsParent, Linked
<1>6. Roots(Root) = {"main"}
  BY <1>1, <1>2 DEF Roots, Fs
<1>7. Cardinality({}) = 0 /\ Cardinality({"main"}) = 1
  BY FS_EmptySet, FS_Singleton
<1>8. NodeRefs(Root) = 0 + 0 + 0 + 0 + 0 + 1 + leaked[Root]
  BY <1>3, <1>4, <1>5, <1>6, <1>7 DEF NodeRefs
<1>9. refs[Root] = NodeRefs(Root)
  BY <1>1, <1>2 DEF CountsExact
<1> QED
  BY <1>2, <1>8, <1>9

\* The assertions follow from the invariant.
LEMMA Asserted ==
  ASSUME IInv
  PROVE  AssertsHold
<1>1. ASSUME NEW t \in Threads, todo[t] # <<>>
      PROVE  LET x == Head(todo[t]) IN
             /\ x.do = "parent" => x.n # Root /\ parent[x.n] # NoSlot
             /\ x.do = "free" => kids[x.n] = {}
             /\ x = fsys("main") /\ fsrefs["main"] = 1 => refs[Root] = 1 + leaked[Root]
  <2>1. Head(todo[t]).do = "parent" => Head(todo[t]).n # Root /\ parent[Head(todo[t]).n] # NoSlot
    BY <1>1, HeadItem, VfsAssumption
  <2>2. Head(todo[t]).do = "free" => kids[Head(todo[t]).n] = {}
    BY <1>1, HeadItem, NoKids
  <2>3. Head(todo[t]) = fsys("main") /\ fsrefs["main"] = 1 => refs[Root] = 1 + leaked[Root]
    BY <1>1, LastOfRoot
  <2> QED
    BY <2>1, <2>2, <2>3
<1> QED
  BY <1>1 DEF AssertsHold

\* The assertions of unref_fs_node() and unref_fs() hold.
THEOREM AssertsAlwaysHold == Spec => []AssertsHold
<1>1. IInv => AssertsHold
  BY Asserted
<1> QED
  BY <1>1, Invariant, PTL

\* What a thread that waits for u waits for.
LEMMA Waiting ==
  ASSUME IInv, NEW t \in Threads, NEW u \in Threads, WaitsFor(t, u)
  PROVE  /\ Wants(t) \in Slots /\ (InDriver(u, Wants(t)) \/ Removes(u, Wants(t)))
         /\ \/ pc[t] = "found" /\ todo[t] = <<>> /\ Wants(t) = call[t].nxt
            \/ ~ InDriver(t, cur(t)) /\ ~ Removes(u, Wants(t))
         /\ pc[t] = "found" => todo[t] = <<>> /\ Wants(t) = call[t].nxt
<1>0. TypeOK /\ lock[Wants(t)] = u /\ Wants(t) # NoSlot
  BY DEF IInv, WaitsFor
<1>1. ASSUME todo[t] # <<>>
      PROVE  Wants(t) \in live /\ refs[Wants(t)] >= 1 /\ pc[t] \in {"idle", "walk"}
  <2>1. CASE Head(todo[t]).do = "node"
    <3>1. Wants(t) = Head(todo[t]).n
      BY <1>1, <2>1 DEF Wants
    <3> QED
      BY <1>1, <2>1, <3>1, HeadItem
  <2>2. CASE Head(todo[t]).do = "parent"
    <3>1. Wants(t) = parent[Head(todo[t]).n]
      BY <1>1, <2>2 DEF Wants
    <3> QED
      BY <1>1, <2>2, <3>1, HeadItem, ParentUsed
  <2>3. CASE Head(todo[t]).do \notin {"node", "parent"}
    <3>1. Wants(t) = NoSlot
      BY <1>1, <2>3 DEF Wants
    <3> QED
      BY <1>0, <3>1
  <2> QED
    BY <2>1, <2>2, <2>3
<1>2. ASSUME todo[t] = <<>>, pc[t] # "found"
      PROVE  Wants(t) \in live /\ refs[Wants(t)] >= 1 /\ pc[t] \in {"walk", "new", "at"}
  <2>1. CASE pc[t] \in {"walk", "new", "at"}
    <3>1. Wants(t) = cur(t)
      BY <1>2, <2>1 DEF Wants
    <3>2. InCall(t)
      BY <2>1 DEF InCall
    <3> QED
      BY <2>1, <3>1, <3>2, CallFacts
  <2>2. CASE pc[t] \notin {"walk", "new", "at"}
    <3>1. Wants(t) = NoSlot
      BY <1>2, <2>2 DEF Wants
    <3> QED
      BY <1>0, <3>1
  <2> QED
    BY <2>1, <2>2
<1>3. ASSUME pc[t] = "found"
      PROVE  todo[t] = <<>> /\ Wants(t) = call[t].nxt /\ Wants(t) \in live
  <2>1. todo[t] = <<>>
    BY <1>1, <1>3
  <2>2. Wants(t) = call[t].nxt
    BY <1>3, <2>1 DEF Wants
  <2> QED
    BY <1>3, <2>1, <2>2, NextFacts
<1>4. Wants(t) \in live /\ Wants(t) \in Slots
  BY <1>0, <1>1, <1>2, <1>3 DEF TypeOK
<1>5. PICK n \in Slots : n = Wants(t)
  BY <1>4
<1>6. InDriver(u, n) \/ Removes(u, n)
  BY <1>0, <1>5 DEF IInv, Locks
<1>7. refs[n] >= 1 => ~ Removes(u, n)
  BY BeingRemoved
<1>8. pc[t] # "found" => ~ InDriver(t, cur(t)) /\ ~ Removes(u, n)
  BY <1>1, <1>2, <1>5, <1>7 DEF InDriver
<1> QED
  BY <1>3, <1>5, <1>6, <1>8

\* Locks are taken downwards, but by unref_fs_node().
LEMMA OneWayDeadlocks ==
  ASSUME IInv
  PROVE  OnlyUnrefDeadlocks
<1>1. ASSUME NEW t \in Threads, NEW u \in Threads, WaitsFor(t, u), WaitsFor(u, t),
             Removes(u, Wants(t))
      PROVE  /\ t # u /\ Doing(u, "parent") /\ pc[t] = "found"
             /\ call[t].nxt = Head(todo[u]).n
  <2>1. pc[t] = "found" /\ todo[t] = <<>> /\ Wants(t) = call[t].nxt
    BY <1>1, Waiting
  <2>2. PICK i \in DOMAIN todo[u] : todo[u][i] \in Removed(call[t].nxt)
    BY <1>1, <2>1 DEF Removes
  <2>3. Linked(call[t].nxt)
    BY <2>1, NextFacts
  <2>4. todo[u][i] # free(call[t].nxt)
    BY <2>3, BeingRemoved DEF Linked
  <2>5. todo[u][i] = par(call[t].nxt)
    BY <2>2, <2>4 DEF Removed
  <2>6. todo[u][i].do = "parent" /\ todo[u][i].n = call[t].nxt
    BY <2>5, ItemFacts
  <2>7. i = 1
    BY <2>6, ItemOf
  <2>8. todo[u] # <<>>
    BY <2>2
  <2>9. Head(todo[u]) = todo[u][1]
    BY <2>8, HeadItem
  <2> QED
    BY <2>1, <2>6, <2>7, <2>8, <2>9 DEF Doing
<1>2. ASSUME NEW t \in Threads, NEW u \in Threads, WaitsFor(t, u), WaitsFor(u, t),
             InDriver(u, Wants(t)), InDriver(t, Wants(u))
      PROVE  FALSE
  <2>1. cur(u) = Wants(t) /\ cur(t) = Wants(u)
    BY <1>2 DEF InDriver
  <2>2. InDriver(u, cur(u)) /\ InDriver(t, cur(t))
    BY <1>2, <2>1
  <2>3. /\ pc[t] = "found" /\ Wants(t) = call[t].nxt
        /\ pc[u] = "found" /\ Wants(u) = call[u].nxt
    BY <1>2, <2>2, Waiting
  <2>4. /\ Len(at[cur(t)]) \in Nat /\ Len(at[call[t].nxt]) = Len(at[cur(t)]) + 1
        /\ Len(at[cur(u)]) \in Nat /\ Len(at[call[u].nxt]) = Len(at[cur(u)]) + 1
    BY <2>3, NextFacts
  <2> QED
    BY <2>1, <2>3, <2>4
<1>3. ASSUME NEW t \in Threads, NEW u \in Threads, WaitsFor(t, u), WaitsFor(u, t)
      PROVE  \E a \in {t, u} : \E b \in {t, u} \ {a} :
               /\ Doing(a, "parent")
               /\ pc[b] = "found"
               /\ call[b].nxt = Head(todo[a]).n
  <2>1. InDriver(u, Wants(t)) \/ Removes(u, Wants(t))
    BY <1>3, Waiting
  <2>2. InDriver(t, Wants(u)) \/ Removes(t, Wants(u))
    BY <1>3, Waiting
  <2>3. CASE Removes(u, Wants(t))
    BY <1>1, <1>3, <2>3
  <2>4. CASE Removes(t, Wants(u))
    BY <1>1, <1>3, <2>4
  <2> QED
    BY <1>2, <1>3, <2>1, <2>2, <2>3, <2>4
<1> QED
  BY <1>3 DEF OnlyUnrefDeadlocks

\* Two threads block one another only when one walks to the node that the other
\* is removing.
THEOREM OtherLocksInOrder == Spec => []OnlyUnrefDeadlocks
<1>1. IInv => OnlyUnrefDeadlocks
  BY OneWayDeadlocks
<1> QED
  BY <1>1, Invariant, PTL

\* delete() is called for a node in use only when the node came into use after
\* fs_delete() had looked.
THEOREM OnlyLateUsers ==
  Spec => [][\A t \in Threads : fs_delete(t) \/ fs_delete_astray(t) =>
              \A n \in live :
                at[n] = Item(cur(t), call[t].last) /\ refs[n] > 0 => n \in seen[t]]_vars
<1>1. ASSUME IInv, NEW t \in Threads, fs_delete(t) \/ fs_delete_astray(t)
      PROVE  \A n \in live :
               at[n] = Item(cur(t), call[t].last) /\ refs[n] > 0 => n \in seen[t]
  <2>1. Deleting(t)
    BY <1>1 DEF fs_delete, fs_delete_astray, Driver, At, Deleting
  <2> QED
    BY <1>1, <2>1 DEF IInv, LookedUp
<1>2. IInv => [\A t \in Threads : fs_delete(t) \/ fs_delete_astray(t) =>
                 \A n \in live :
                   at[n] = Item(cur(t), call[t].last) /\ refs[n] > 0 => n \in seen[t]]_vars
  BY <1>1
<1> QED
  BY <1>2, Invariant, PTL

================================================================================
