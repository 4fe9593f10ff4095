-------------------------------- MODULE Btree --------------------------------
(***************************************************************************)
(* The balanced tree of common/libkogata/btree.c, that indexes regions by  *)
(* address and delayed tasks by time: several items may have one key.      *)
(***************************************************************************)
EXTENDS Integers, Sequences, SequencesExt, FiniteSetsExt

CONSTANTS Keys, Vals,   \* sets of natural numbers
          Nil

VARIABLES
  tree,      \* t->root: Nil or [key, val, height, left, right]
  contents   \* history: the items that were added and not removed

Init == tree = Nil /\ contents = {}

height(i) == IF i = Nil THEN 0 ELSE i.height
Higher(i) == LET l == height(i.left)  r == height(i.right) IN
             1 + (IF l > r THEN l ELSE r)
btree_recalc_height(i) == [i EXCEPT !.height = Higher(i)]

\* I(X(a, b), Y) -> X(a, I(b, Y)); the mutation loses b.
btree_rotate_left_Loses(i) ==
  btree_recalc_height([i.left EXCEPT !.right = btree_recalc_height([i EXCEPT !.left = Nil])])
btree_rotate_left(i) ==
  btree_recalc_height(
    [i.left EXCEPT !.right = btree_recalc_height([i EXCEPT !.left = i.left.right])])

\* I(X, Y(a, b)) -> Y(I(X, a), b)
btree_rotate_right(i) ==
  btree_recalc_height(
    [i.right EXCEPT !.left = btree_recalc_height([i EXCEPT !.right = i.right.left])])

RECURSIVE TurnedLeft(_), TurnedRight(_)
TurnedLeft(i) == IF height(i.left) - height(i.right) < 2 THEN i
                 ELSE TurnedLeft(btree_rotate_left(i))
TurnedRight(i) == IF height(i.right) - height(i.left) < 2 THEN i
                  ELSE TurnedRight(btree_rotate_right(i))
btree_equilibrate(i) == IF i = Nil THEN Nil ELSE TurnedRight(TurnedLeft(i))

RECURSIVE _btree_insert(_, _)
_btree_insert(root, i) ==
  IF root = Nil THEN i
  ELSE btree_equilibrate(btree_recalc_height(
         IF i.key <= root.key
         THEN [root EXCEPT !.left = _btree_insert(@, i)]
         ELSE [root EXCEPT !.right = _btree_insert(@, i)]))

\* The tree without its smallest item, and that item.
RECURSIVE _btree_extract_smallest(_)
_btree_extract_smallest(i) ==
  IF i.left = Nil THEN [rest |-> i.right, item |-> i]
  ELSE LET x == _btree_extract_smallest(i.left) IN
       [x EXCEPT !.rest =
          btree_equilibrate(btree_recalc_height([i EXCEPT !.left = x.rest]))]

\* What takes the place of an item that is removed.
Joined(i) ==
  IF i.left = Nil THEN i.right ELSE IF i.right = Nil THEN i.left
  ELSE LET x == _btree_extract_smallest(i.right) IN
       btree_equilibrate(btree_recalc_height(
         [x.item EXCEPT !.left = i.left, !.right = x.rest]))

(***************************************************************************)
(* _btree_remove_aux_v(), and with all values _btree_remove_aux().  On the *)
(* way to the key the heights are not computed again; an item with the key *)
(* but another value may have others on both sides.                        *)
(***************************************************************************)
RECURSIVE _btree_remove_aux_v(_, _, _)
_btree_remove_aux_v(i, key, vals) ==
  LET remove(j) == _btree_remove_aux_v(j, key, vals) IN
  IF i = Nil THEN Nil
  ELSE IF key < i.key THEN btree_equilibrate([i EXCEPT !.left = remove(@)])
  ELSE IF key > i.key THEN btree_equilibrate([i EXCEPT !.right = remove(@)])
  ELSE IF i.val \in vals THEN remove(Joined(i))
  ELSE btree_equilibrate(btree_recalc_height(
         [i EXCEPT !.left = remove(@), !.right = remove(@)]))

\* The pointers programs store are different; which one comes next makes no
\* difference.
btree_add(k) == LET v == Min(Vals \ {x.val : x \in contents}) IN
  /\ Cardinality(contents) < Cardinality(Vals)
  /\ tree' = _btree_insert(tree, [key |-> k, val |-> v, height |-> 1,
                                  left |-> Nil, right |-> Nil])
  /\ contents' = contents \cup {[key |-> k, val |-> v]}

Dropped(k, vals) == {x \in contents : ~(x.key = k /\ x.val \in vals)}

btree_remove(k) ==
  /\ tree' = _btree_remove_aux_v(tree, k, Vals)
  /\ contents' = Dropped(k, Vals)

btree_remove_v(k, v) ==
  /\ tree' = _btree_remove_aux_v(tree, k, {v})
  /\ contents' = Dropped(k, {v})

Next == \E k \in Keys :
  btree_add(k) \/ btree_remove(k) \/ \E v \in Vals : btree_remove_v(k, v)

\* btree_iter() and btree_iter_on().
RECURSIVE btree_iter(_), btree_iter_on(_, _)
Item(i) == [key |-> i.key, val |-> i.val]
btree_iter(i) ==
  IF i = Nil THEN <<>> ELSE btree_iter(i.left) \o <<Item(i)>> \o btree_iter(i.right)
btree_iter_on(i, key) ==
  IF i = Nil THEN <<>>
  ELSE IF key < i.key THEN btree_iter_on(i.left, key)
  ELSE IF key > i.key THEN btree_iter_on(i.right, key)
  ELSE btree_iter_on(i.left, key) \o <<Item(i)>> \o btree_iter_on(i.right, key)

\* btree_find(), btree_lower() and btree_upper(): an item, or none.
RECURSIVE btree_find(_, _), btree_lower(_, _), btree_upper(_, _)
btree_find(i, key) ==
  IF i = Nil THEN {} ELSE IF key = i.key THEN {Item(i)}
  ELSE btree_find(IF key < i.key THEN i.left ELSE i.right, key)

Or(found, i) == IF found = {} THEN {Item(i)} ELSE found
btree_lower(i, key) ==
  IF i = Nil THEN {} ELSE IF key = i.key THEN {Item(i)}
  ELSE IF key < i.key THEN btree_lower(i.left, key)
  ELSE Or(btree_lower(i.right, key), i)
btree_upper(i, key) ==
  IF i = Nil THEN {} ELSE IF key = i.key THEN {Item(i)}
  ELSE IF key > i.key THEN btree_upper(i.right, key)
  ELSE Or(btree_upper(i.left, key), i)

(***************************************************************************)
(* Whatever was added, removed and rotated, iterating meets every item     *)
(* once and in order, equal keys included: no subtree is lost.             *)
(***************************************************************************)
BtreeKeepsItems ==
  LET all == btree_iter(tree) IN
  /\ IsInjective(all) /\ Range(all) = contents
  /\ \A m, n \in DOMAIN all : m < n => all[m].key <= all[n].key

(***************************************************************************)
(* The searches agree with their meaning on the items: the region that     *)
(* begins at or below an address, the first task that is due, all tasks    *)
(* with a time.                                                            *)
(***************************************************************************)
BtreeSearches == \A key \in Keys :
  LET below == {x \in contents : x.key <= key}
      above == {x \in contents : x.key >= key}
      same == below \cap above
      Agrees(found, S, best) == IF S = {} THEN found = {} ELSE
        \E x \in best : found = {x} /\ x \in S
  IN
  /\ Agrees(btree_find(tree, key), same, same)
  /\ Agrees(btree_lower(tree, key), below,
            {x \in below : \A y \in below : y.key <= x.key})
  /\ Agrees(btree_upper(tree, key), above,
            {x \in above : \A y \in above : y.key >= x.key})
  /\ Range(btree_iter_on(tree, key)) = same
=============================================================================
