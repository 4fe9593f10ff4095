------------------------------- MODULE Iso9660 -------------------------------
(***************************************************************************)
(* What fs/iso9660.c finds on a disc: the records of a directory, that     *)
(* iso9660_dir_walk() and iso9660_dir_readdir() go through, and the blocks *)
(* of a file, that iso9660_node_read() reads.                              *)
(*                                                                         *)
(* Abstractions.  A directory is the set of its records with their places; *)
(* what is between them is zero.  A name is a letter, with an extension or *)
(* without one, and the number of digits of its version: a file without an *)
(* extension is written with a dot at the end.  Lengths have a unit that   *)
(* is half of sizeof(iso9660_dr_t), and no record is longer than 256 bytes.*)
(* The disc does not change once it has been written, so that the page     *)
(* cache in front of these functions changes nothing.                      *)
(***************************************************************************)
EXTENDS Integers, Sequences, FiniteSets

CONSTANTS
  Block,        \* the length of a block, 2048
  Header,       \* sizeof(iso9660_dr_t)
  Blocks,       \* bound: the blocks of a directory
  Lens,         \* lengths of records
  Letters,      \* names
  Place,        \* lba_loc of a file
  NotFound

VARIABLES
  records,       \* the records of a directory: where, what name and what kind
  last,          \* where the next one may be
  use_lowercase,
  file,          \* the size of a file
  bad            \* the blocks of the disc that cannot be read

vars == <<records, last, use_lowercase, file, bad>>

\* The names of files and directories, and the two that begin every directory
Named == [letter : Letters, ext : BOOLEAN, version : {1, 2}, dir : {FALSE}]
           \cup [letter : Letters, ext : {FALSE}, version : {0}, dir : {TRUE}]
Self == [letter |-> ".", ext |-> FALSE, version |-> 0, dir |-> TRUE]
Up == [Self EXCEPT !.letter = ".."]

Init ==
  /\ records = {[at |-> 0, len |-> Header, is |-> Self],
                [at |-> Header, len |-> Header, is |-> Up]}
  /\ last = 2 * Header
  /\ use_lowercase \in BOOLEAN
  /\ file = 0
  /\ bad = {}

\* The disc is written: a record does not go across the end of a block.
Fit(at, len) == IF (at % Block) + len > Block THEN (at \div Block + 1) * Block ELSE at
Record(n, len) ==
  LET at == Fit(last, len) IN
  /\ \A r \in records : r.is.letter # n.letter \/ r.is.ext # n.ext
  /\ at + len <= Blocks * Block
  /\ records' = records \cup {[at |-> at, len |-> len, is |-> n]}
  /\ last' = at + len
  /\ UNCHANGED <<use_lowercase, file, bad>>
Write ==
  /\ file < Blocks * Block
  /\ file' = file + 1
  /\ UNCHANGED <<records, last, use_lowercase, bad>>
Damage(b) ==
  /\ bad' = bad \cup {b}
  /\ UNCHANGED <<records, last, use_lowercase, file>>

Next ==
  \/ file = 0 /\ \E n \in Named, len \in Lens : Record(n, len)
  \/ last = 2 * Header /\ (Write \/ \E b \in Place .. Place + Blocks - 1 : Damage(b))

Spec == Init /\ [][Next]_vars

-----------------------------------------------------------------------------
\* node->dr.size
dr_size == ((last + Block - 1) \div Block) * Block

\* The record at a position, when its first byte is not zero
Here(pos) == {r \in records : r.at = pos}

\* A file has a version, of which two characters are taken off.  The mutation
\* takes every file.
Counts_All(n) == TRUE
Counts(n) == n.dir \/ n.version = 1

\* The name that is compared, and the name that is looked for
Shown(n) == [letter |-> n.letter, ext |-> n.ext, lower |-> use_lowercase /\ n.letter \in Letters]
Searched == [letter : Letters, ext : BOOLEAN, lower : BOOLEAN]

\* for (pos = 0; pos < size; pos += dr_len): the records that are passed
Passed ==
  LET from[pos \in 0 .. dr_size] ==
        IF pos >= dr_size \/ dr_size - pos < Header \/ Here(pos) = {} THEN <<>>
        ELSE LET dr == CHOOSE r \in Here(pos) : TRUE IN <<dr>> \o from[pos + dr.len]
  IN SelectSeq(from[0], LAMBDA r : Counts(r.is))

iso9660_dir_walk(search_for) ==
  LET passed == Passed
      found == {i \in 1 .. Len(passed) : Shown(passed[i].is) = search_for}
  IN IF found = {} THEN NotFound ELSE passed[CHOOSE i \in found : \A j \in found : i <= j]

\* idx - 2 is compared: the first two are passed over.  The mutation has the
\* entries from the first one on.
Skip_None == 0
Skip == 2
iso9660_dir_readdir(ent_no) ==
  LET passed == Passed
  IN IF ent_no + Skip < Len(passed) THEN passed[ent_no + Skip + 1] ELSE NotFound

\* The bytes of the disc that are read, by their positions.  The mutation does
\* not stop at the file's size.
Limit_Asked(offset, len) == len
Limit(offset, len) ==
  IF offset >= file THEN 0 ELSE IF offset + len > file THEN file - offset ELSE len
iso9660_node_read(offset, len) ==
  LET end == offset + Limit(offset, len)
      blocks[i \in {j \in offset .. end + Block : j % Block = offset % Block}] ==
        IF i >= end \/ Place + i \div Block \in bad THEN <<>>
        ELSE [j \in 1 .. (IF i + Block > end THEN end - i ELSE Block) |->
                Place * Block + i + j - 1] \o blocks[i + Block]
  IN blocks[offset]

-----------------------------------------------------------------------------
\* A record is out of reach when there are zeros before it: both functions take
\* them for the end of the directory, but they fill up a block when the next
\* record does not fit in it.
Beyond(r) == \E pos \in 0 .. r.at - 1 :
               \A s \in records : pos \notin s.at .. s.at + s.len - 1

\* Every file and directory that has a name and is in reach is found by it, and
\* nothing else is found; each of them is listed once, in the order of the disc.
DirectoryExact ==
  LET named == {r \in records : (r.is.dir \/ r.is.version = 1) /\ ~ Beyond(r)
                                /\ r.is.letter \in Letters}
  IN
  /\ \A s \in Searched :
       IF \E r \in named : Shown(r.is) = s
         THEN iso9660_dir_walk(s) \in named /\ Shown(iso9660_dir_walk(s).is) = s
         ELSE iso9660_dir_walk(s) = NotFound
  /\ \A i \in 0 .. Cardinality(records) :
       IF i < Cardinality(named)
         THEN /\ iso9660_dir_readdir(i) \in named
              /\ i > 0 => iso9660_dir_readdir(i - 1).at < iso9660_dir_readdir(i).at
         ELSE iso9660_dir_readdir(i) = NotFound

\* A read gives the file's own bytes from the offset on, and stops early only at
\* its end or at a block that cannot be read.
ReadExact ==
  \A b \in 0 .. Blocks - 1, len \in 0 .. 2 * Block :
    LET offset == b * Block
        got == iso9660_node_read(offset, len)
    IN
    /\ \A j \in 1 .. Len(got) :
         /\ got[j] = Place * Block + offset + j - 1
         /\ got[j] \div Block \notin bad
         /\ offset + j <= file
    /\ Len(got) <= len
    /\ Len(got) < len =>
         offset + Len(got) >= file \/ Place + (offset + Len(got)) \div Block \in bad
=============================================================================
