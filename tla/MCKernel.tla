------------------------------ MODULE MCKernel ------------------------------
(***************************************************************************)
(* The kernel's parts and those of the libraries and programs above it     *)
(* that need no company, side by side: the frame allocator, the devices,   *)
(* the heap, the handles and the files, the timers, the data structures,   *)
(* the directories of discs, the C library's output and strings, the       *)
(* drawing library, the terminal's screen and the window manager, each on  *)
(* its own small instance.  The variables x1 to x15 are those of the part  *)
(* that which names, unless its variables have names of their own.         *)
(***************************************************************************)
EXTENDS Frames, Devices, Objects, Timers, TLC

CONSTANTS s1, s2, s3, t1, t2, t3, t4, c1, c2, v1, v2, d1, d2

VARIABLES x1, x2, x3, x4, x5, x6, x7, x8, x9, x10, x11, x12, x13, x14, x15

(***************************************************************************)
(* Values of constants that a configuration file cannot write.  Two drives *)
(* share the line of the PCI controller.  A framebuffer is made of one     *)
(* page by one mode, of three by the other.  Of the movements one is read  *)
(* as it is, one is read as a negative one, and one overflows.             *)
(* Files are written at the beginning, across the end of the first page    *)
(* and behind a hole.                                                      *)
(***************************************************************************)
SharedLine == [d \in {d1, d2} |-> "pciirq"]
ModeSizes == <<1, 3>>
ModePages == <<10, 20>>
SomeMoves == {-3, 2, 4}
ObjectsPerCache == <<3, 2>>
SomeRequests == {<<0, 1>>, <<1, 2>>, <<3, 1>>}

\* Those who read, call the BIOS, map the framebuffer or sleep: two may be exchanged.
Actors == Permutations({s1, s2})

Queue == INSTANCE RunQueueList WITH Threads <- {t1, t2, t3, t4}, NoThread <- Null,
  list <- x1

\* Keys that meet in one slot of the small table and part in the large one.
Table == INSTANCE Hashtbl WITH
  Keys <- {1, 2, 3, 5}, Vals <- {v1, v2}, InitSize <- 2,
  ht <- x1, contents <- x2

Tree == INSTANCE Btree WITH
  Keys <- 1 .. 2, Vals <- 1 .. 5, Nil <- Null,
  tree <- x1, contents <- x2

Output == INSTANCE Stdio WITH BUFSIZ <- 2, Bytes <- {1, 2}, NL <- 0, MaxText <- 4,
  type <- x1, st_size <- x2, stream <- x3, text <- x4, place <- x5, lost <- x6

\* Regions at the edges of the screen, within it and beyond it.
Picture == INSTANCE Draw WITH
  Width <- 5, Height <- 3, SrcWidth <- 2, SrcHeight <- 4, CharW <- 2, CharH <- 2,
  Regions <- {[x |-> 1, y |-> 1, w |-> 3, h |-> 2], [x |-> 3, y |-> 1, w |-> 4, h |-> 4],
              [x |-> 0, y |-> 0, w |-> 2, h |-> 3]}, Coords <- -2 .. 5, Lengths <- 0 .. 6,
  call <- x1, painted <- x2

Console == INSTANCE Terminal WITH
  Sizes <- {<<2, 3>>, <<3, 2>>}, Letters <- {"a"}, Tab <- 2, EscSize <- 4,
  term <- x1, esc <- x2, overrun <- x3

\* The first block of a directory is full after one or two records, or has a gap.
Disc == INSTANCE Iso9660 WITH
  Block <- 6, Header <- 2, Blocks <- 2, Lens <- {2, 3}, Letters <- {"A", "B"},
  Place <- 1, NotFound <- Null,
  records <- x1, last <- x2, use_lowercase <- x3, file <- x4, bad <- x5

\* Strings and formats of a few characters: 32 is a space, 61 is '='.
Upto(A, n) == UNION {[1 .. k -> A] : k \in 0 .. n}
Letters == INSTANCE Text WITH
  Size <- 8, Nibbles <- 2, NULL <- Null,
  Strings <- Upto({1, 2}, 3), Lines <- Upto({32, 61, 97}, 6),
  Formats <- Upto({"a", "%", "d", "ud", "c", "s", "x", "llx", "p", "y", "end"}, 2),
  Args <- {<<[i |-> n, s |-> s], [i |-> 7, s |-> <<98>>]>> :
             n \in {-32768, -10, 0, 105, 300}, s \in {<<>>, <<98, 98, 98>>}},
  call <- x1, result <- x2

\* Two windows that overlap, or a box at the edge of the screen, whose content is
\* larger than it: with three by three of it to be seen it can be dragged.
Desktop == INSTANCE Windows WITH
  Width <- 3, Height <- 4, CursorW <- 2, CursorH <- 1, Border <- 0, Title <- 1, Control <- 1,
  Wins <- {c1, c2, d1}, Programs <- {{c1, c2}, {d1}}, Removable <- {c1}, Boxes <- {d1},
  InitGeom <- (c1 :> [x |-> 0, y |-> 0, w |-> 1, h |-> 1])
              @@ (c2 :> [x |-> 1, y |-> 0, w |-> 2, h |-> 2])
              @@ (d1 :> [x |-> 0, y |-> 0, w |-> 3, h |-> 3]),
  InnerW <- 4, InnerH <- 4, CenterContent <- TRUE,
  Moves <- {<<1, 0>>, <<-1, 0>>, <<0, 1>>, <<0, -1>>},
  Limits <- (c1 :> [x |-> 0 .. 1, y |-> {0}, w |-> {1}, h |-> {1}])
            @@ (c2 :> [x |-> 0 .. 1, y |-> {0}, w |-> {2}, h |-> {2}])
            @@ (d1 :> [x |-> 0 .. 1, y |-> {0}, w |-> 2 .. 4, h |-> 2 .. 4]),
  None <- Null,
  windows <- x1, geom <- x2, status <- x3, moving <- x4, drag <- x5, mouse <- x6,
  buttons <- x7, mouse_win <- x8, valid <- x9, surface <- x10, backup <- x11,
  both <- x12, press <- x13, unsure <- x14, stray <- x15

\* The variables from the n-th one are not in use, or are left alone.
None15 == x15 = Null
None14 == x14 = Null /\ None15
None13 == x13 = Null /\ None14
None12 == x12 = Null /\ None13
None11 == x11 = Null /\ None12
None10 == x10 = Null /\ None11
None9 == x9 = Null /\ None10
None8 == x8 = Null /\ None9
None7 == x7 = Null /\ None8
None6 == x6 = Null /\ None7
None5 == x5 = Null /\ None6
None4 == x4 = Null /\ None5
None3 == x3 = Null /\ None4
None2 == x2 = Null /\ None3
None1 == x1 = Null /\ None2

Keep15 == UNCHANGED x15
Keep14 == UNCHANGED x14 /\ Keep15
Keep13 == UNCHANGED x13 /\ Keep14
Keep12 == UNCHANGED x12 /\ Keep13
Keep11 == UNCHANGED x11 /\ Keep12
Keep10 == UNCHANGED x10 /\ Keep11
Keep9 == UNCHANGED x9 /\ Keep10
Keep8 == UNCHANGED x8 /\ Keep9
Keep7 == UNCHANGED x7 /\ Keep8
Keep6 == UNCHANGED x6 /\ Keep7
Keep5 == UNCHANGED x5 /\ Keep6
Keep4 == UNCHANGED x4 /\ Keep5
Keep3 == UNCHANGED x3 /\ Keep4
Keep2 == UNCHANGED x2 /\ Keep3
Keep1 == UNCHANGED x1 /\ Keep2

\* The parts whose variables have names, and those that have x1 to x15.
NoParts == NoDevices /\ NoObjects /\ NoTimers
part_vars == <<device_vars, object_vars, timer_vars>>

OthersInit ==
  \/ which = "queue" /\ Queue!Init /\ None2
  \/ which = "table" /\ Table!Init /\ None3
  \/ which = "tree" /\ Tree!Init /\ None3
  \/ which = "stdio" /\ Output!Init /\ None7
  \/ which = "draw" /\ Picture!Init /\ None3
  \/ which = "terminal" /\ Console!Init /\ None4
  \/ which = "disc" /\ Disc!Init /\ None6
  \/ which = "text" /\ Letters!Init /\ None3
  \/ which = "windows" /\ Desktop!Init

OthersNext ==
  \/ which = "queue" /\ Queue!Next /\ Keep2
  \/ which = "table" /\ Table!Next /\ Keep3
  \/ which = "tree" /\ Tree!Next /\ Keep3
  \/ which = "stdio" /\ Output!Next /\ Keep7
  \/ which = "draw" /\ Picture!Next /\ Keep3
  \/ which = "terminal" /\ Console!Next /\ Keep4
  \/ which = "disc" /\ Disc!Next /\ Keep6
  \/ which = "text" /\ Letters!Next /\ Keep3
  \/ which = "windows" /\ Desktop!Next

MCInit ==
  /\ Init
  /\ \/ which = "frames" /\ NoParts /\ None1
     \/ OthersInit /\ NoParts
     \/ DevicesInit /\ NoObjects /\ NoTimers /\ None1
     \/ ObjectsInit /\ NoDevices /\ NoTimers /\ None1
     \/ TimersInit /\ NoDevices /\ NoObjects /\ None1

MCNext ==
  \/ which = "frames" /\ Next /\ UNCHANGED <<which, part_vars>> /\ Keep1
  \/ OthersNext /\ UNCHANGED <<which, vars, part_vars>>
  \/ DevicesNext /\ UNCHANGED <<vars, object_vars, timer_vars>> /\ Keep1
  \/ ObjectsNext /\ UNCHANGED <<vars, device_vars, timer_vars>> /\ Keep1
  \/ TimersNext /\ UNCHANGED <<vars, device_vars, object_vars>> /\ Keep1

MCSpec ==
  MCInit /\ [][MCNext]_<<which, vars, part_vars, x1, x2, x3, x4, x5, x6, x7, x8, x9, x10,
                         x11, x12, x13, x14, x15>>

\* The linked list behaves like the sequence of the scheduler's model.
ImplementsQueue ==
  /\ which = "queue" => Queue!Abstract!Init
  /\ [][which = "queue" => Queue!Abstract!Next \/ UNCHANGED Queue!AbsQueue]_x1

\* The hash table is the map it stands for, however often it is rehashed;
\* rotations keep the tree's items and their order, and its searches find them;
\* the files of a disc are found by their names and read as they are.
ContainersExact ==
  /\ which = "table" => Table!HashtblIsMap
  /\ which = "tree" => Tree!BtreeKeepsItems /\ Tree!BtreeSearches
  /\ which = "disc" => Disc!DirectoryExact /\ Disc!ReadExact

\* A file and its buffer hold together what the program has written, a call of
\* the drawing library paints what it asks for, and the terminal's picture is
\* that of its characters; strings and numbers are compared, found and written as
\* they are, and the window manager's picture is that of its windows, whose buttons
\* and movements go to the one they began on.
ProgramsExact ==
  /\ which = "stdio" => Output!StdioExact
  /\ which = "draw" => Picture!DrawExact
  /\ which = "terminal" => Console!TerminalExact
  /\ which = "text" => Letters!TextExact
  /\ which = "windows" => Desktop!WindowsExact
=============================================================================
