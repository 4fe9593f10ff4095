------------------------------- MODULE Hashtbl -------------------------------
(***************************************************************************)
(* The hash table of common/libkogata/hashtbl.c: chains of items that are  *)
(* rehashed into a table twice or half as large.                           *)
(***************************************************************************)
EXTENDS Integers, Sequences, SequencesExt

CONSTANTS
  Keys,      \* the values of the hash function, natural numbers, one per key
  Vals,
  InitSize   \* DEFAULT_HT_INIT_SIZE, 16 in the code

VARIABLES
  ht,        \* [size, nitems, items]: items[s] is the chain of slot s
  contents   \* history: the pairs a program put there and did not remove

SLOT_OF_HASH(k, size) == (k * 21179) % size

Init ==
  /\ ht = [size |-> InitSize, nitems |-> 0,
           items |-> [s \in 0 .. InitSize - 1 |-> <<>>]]
  /\ contents = {}

Chain(t, k) == t.items[SLOT_OF_HASH(k, t.size)]
Has(t, k) == \E n \in DOMAIN Chain(t, k) : Chain(t, k)[n].key = k

\* The new size: twice or half, but not below the first one; 0 for no change.
NewSize(t) ==
  LET n == IF 4 * t.nitems > 3 * t.size THEN t.size * 2
           ELSE IF 4 * t.nitems < t.size THEN t.size \div 2 ELSE 0
  IN IF n < InitSize THEN 0 ELSE n

(***************************************************************************)
(* The items go one by one to the front of their new chain, slot after     *)
(* slot; a mutation keeps the slot they had.                               *)
(***************************************************************************)
Place_Kept(k, t, n) == SLOT_OF_HASH(k, t.size) % n
Place(k, t, n) == SLOT_OF_HASH(k, n)

Rehashed(t, n) ==
  LET all == FlattenSeq([s \in 1 .. t.size |-> t.items[s - 1]]) IN
  [t EXCEPT !.size = n,
            !.items = [s \in 0 .. n - 1 |->
               Reverse(SelectSeq(all, LAMBDA i : Place(i.key, t, n) = s))]]

\* hashtbl_check_size(); without memory for the new table it stays as it is.
CheckedSize(t) == {t} \cup (IF NewSize(t) = 0 THEN {} ELSE {Rehashed(t, NewSize(t))})

Without(t, k) ==
  [t EXCEPT !.nitems = IF Has(t, k) THEN @ - 1 ELSE @,
            !.items[SLOT_OF_HASH(k, t.size)] = SelectSeq(@, LAMBDA i : i.key # k)]

\* hashtbl_remove() of a key whose chain is empty does not check the size.
Removed(t, k) == IF Chain(t, k) = <<>> THEN {t} ELSE CheckedSize(Without(t, k))

With(t, i) ==
  [t EXCEPT !.nitems = @ + 1, !.items[SLOT_OF_HASH(i.key, t.size)] = <<i>> \o @]

Without_Key(c, k) == {x \in c : x.key # k}

\* hashtbl_add(): the key may be there already, so its item is removed first.
hashtbl_add(k, v) ==
  LET i == [key |-> k, val |-> v] IN
  /\ \E t \in Removed(ht, k) : ht' \in CheckedSize(With(t, i))
  /\ contents' = Without_Key(contents, k) \cup {i}

hashtbl_remove(k) ==
  /\ ht' \in Removed(ht, k)
  /\ contents' = Without_Key(contents, k)

\* hashtbl_change(): the value of a key that is there.
hashtbl_change(k, v) ==
  LET i == [key |-> k, val |-> v] IN
  /\ Has(ht, k)
  /\ ht' = [ht EXCEPT !.items[SLOT_OF_HASH(k, ht.size)] =
              [n \in DOMAIN @ |-> IF @[n].key = k THEN i ELSE @[n]]]
  /\ contents' = Without_Key(contents, k) \cup {i}

Next == \E k \in Keys :
  hashtbl_remove(k) \/ \E v \in Vals : hashtbl_add(k, v) \/ hashtbl_change(k, v)

\* hashtbl_find(): the first item of the chain with the key.
hashtbl_find(k) == SelectInSeq(Chain(ht, k), LAMBDA i : i.key = k)

(***************************************************************************)
(* The table is the map it stands for, however often it was rehashed or    *)
(* could not be: every pair is found through its slot and met once, and    *)
(* nitems, which decides the next rehash, counts them.                     *)
(***************************************************************************)
HashtblIsMap ==
  /\ \A k \in Keys :
       IF hashtbl_find(k) = 0 THEN Without_Key(contents, k) = contents
       ELSE Chain(ht, k)[hashtbl_find(k)] \in contents
  /\ LET all == FlattenSeq([s \in 1 .. ht.size |-> ht.items[s - 1]]) IN
     /\ IsInjective(all) /\ Range(all) = contents
     /\ ht.nitems = Len(all)
=============================================================================
