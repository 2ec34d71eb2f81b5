------------------------------- MODULE RbTree -------------------------------
(***************************************************************************)
(* The red-black tree of bench/embench-iot/src/sglib-combined/sglib.h.     *)
(* An element is its address, a number; Key is what the comparator sees of *)
(* it, and elements of one key are kept in the order of their addresses.   *)
(* The macros are written once for both sides: kids[1] is left, kids[2]    *)
(* right, and Other swaps them.                                            *)
(***************************************************************************)
EXTENDS Integers, Sequences, FiniteSets

CONSTANTS Elems, Key

VARIABLES
  tree,        \* the_tree
  aborted,     \* an assertion of the code has failed
  members      \* history: what was added and not deleted

vars == <<tree, aborted, members>>

NIL == [red |-> FALSE]          \* wherever NULL is tested it counts as black
Node(e, red, kids) == [elem |-> e, red |-> red, kids |-> kids]
Other(d) == 3 - d
Black(t) == [t EXCEPT !.red = FALSE]
Painted(t, red) == [t EXCEPT !.red = red]
WithKid(t, d, kid) == [t EXCEPT !.kids[d] = kid]

Before(e, t) == Key[e] < Key[t.elem] \/ (Key[e] = Key[t.elem] /\ e < t.elem)

-----------------------------------------------------------------------------
(* t is black and an element was added on side d: two reds in a row there   *)
(* are resolved, or handed to the parent by painting t red.                 *)
FIX_INSERTION_DISCREPANCY(t, d) ==
  LET o == Other(d)
      b == t.kids[d]
      outer == b.kids[d]
      c == b.kids[o]
  IN  IF ~b.red \/ ~(outer.red \/ c.red) THEN t
      ELSE IF t.kids[o].red
      THEN [t EXCEPT !.red = TRUE, !.kids = [k \in 1..2 |-> Black(@[k])]]
      ELSE IF outer.red
      THEN Black(WithKid(b, o, Painted(WithKid(t, d, c), TRUE)))
      ELSE Black(WithKid(WithKid(c, d, WithKid(b, o, c.kids[d])), o, Painted(WithKid(t, d, c.kids[o]), TRUE)))

(* The side other than s has lost a black; less says that all of it has.    *)
FIX_DELETION_DISCREPANCY(a, s) ==
  LET o == Other(s)
      b == a.kids[s]
      bl == b.kids[s]
      c == b.kids[o]
      cl == c.kids[s]
      cr == c.kids[o]
      Done(t) == [tree |-> t, less |-> FALSE, ok |-> TRUE]
      under == WithKid(a, s, cr)
  IN  CASE b = NIL -> [Done(Black(a)) EXCEPT !.ok = a.red]
        [] b # NIL /\ b.red /\ c = NIL -> Done(Black(WithKid(b, o, WithKid(a, s, c))))
        [] b # NIL /\ b.red /\ c # NIL ->
             [(IF ~cl.red /\ ~cr.red
               THEN Done(Black(WithKid(b, o, WithKid(a, s, Painted(c, TRUE)))))
               ELSE IF cr.red
               THEN Done(Black(WithKid(WithKid(cr, s, WithKid(b, o, WithKid(c, o, cr.kids[s]))),
                                     o, WithKid(a, s, cr.kids[o]))))
               ELSE Done(WithKid(WithKid(c, s, WithKid(b, o, Black(cl))), o, under)))
              EXCEPT !.ok = ~c.red]
        [] b # NIL /\ ~b.red /\ ~bl.red /\ ~c.red ->
             [tree |-> Black(WithKid(a, s, Painted(b, TRUE))), less |-> ~a.red, ok |-> TRUE]
        [] b # NIL /\ ~b.red /\ bl.red /\ ~c.red ->
             Done(Painted(WithKid(WithKid(b, s, Black(bl)), o, Black(WithKid(a, s, c))), a.red))
        [] OTHER ->
             Done(Painted(WithKid(WithKid(c, s, WithKid(b, o, cl)), o, Black(under)), a.red))

fix_left_deletion_discrepancy(t) == FIX_DELETION_DISCREPANCY(t, 2)
fix_right_deletion_discrepancy(t) == FIX_DELETION_DISCREPANCY(t, 1)

RECURSIVE add_recursive(_, _)
add_recursive(t, e) ==
  LET d == IF Before(e, t) THEN 1 ELSE 2
      below == WithKid(t, d, add_recursive(t.kids[d], e))
  IN  IF t = NIL THEN Node(e, TRUE, <<NIL, NIL>>)
      ELSE IF t.red THEN below ELSE FIX_INSERTION_DISCREPANCY(below, d)

(* A subtree whose side d has become r.tree, fixed when that lost a black.  *)
Rejoined(t, d, r) ==
  LET joined == WithKid(t, d, r.tree)
      fixed == IF d = 1 THEN fix_left_deletion_discrepancy(joined)
               ELSE fix_right_deletion_discrepancy(joined)
  IN  IF r.less THEN [fixed EXCEPT !.ok = @ /\ r.ok]
      ELSE [tree |-> joined, less |-> FALSE, ok |-> r.ok]

(* t is replaced by its only child, which becomes black.                    *)
(* Mutant: the red child that turned black is forgotten. *)
SplicedShort(t, kid) ==
  [tree |-> IF kid = NIL THEN NIL ELSE Black(kid), less |-> ~t.red, ok |-> TRUE]
Spliced(t, kid) ==
  [tree |-> IF kid = NIL THEN NIL ELSE Black(kid), less |-> ~t.red /\ ~kid.red, ok |-> TRUE]

RECURSIVE delete_rightmost_leaf(_)
delete_rightmost_leaf(t) ==
  IF t.kids[2] = NIL THEN [theLeaf |-> t.elem, r |-> Spliced(t, t.kids[1])]
  ELSE LET sub == delete_rightmost_leaf(t.kids[2])
       IN  [sub EXCEPT !.r = Rejoined(t, 2, sub.r)]

RECURSIVE delete_recursive(_, _)
delete_recursive(t, e) ==
  IF t = NIL THEN [tree |-> NIL, less |-> FALSE, ok |-> FALSE]
  ELSE IF e # t.elem
  THEN LET d == IF Before(e, t) THEN 1 ELSE 2 IN Rejoined(t, d, delete_recursive(t.kids[d], e))
  ELSE IF t.kids[1] = NIL THEN Spliced(t, t.kids[2])
  ELSE LET sub == delete_rightmost_leaf(t.kids[1])
       IN  Rejoined([t EXCEPT !.elem = sub.theLeaf], 1, sub.r)

-----------------------------------------------------------------------------
(* By the key alone; the first element met, from the root.                  *)
RECURSIVE BIN_TREE_FIND_MEMBER(_, _)
BIN_TREE_FIND_MEMBER(t, k) ==
  IF t = NIL \/ k = Key[t.elem] THEN t
  ELSE BIN_TREE_FIND_MEMBER(t.kids[IF k < Key[t.elem] THEN 1 ELSE 2], k)

RECURSIVE is_member(_, _)
is_member(t, e) ==
  IF t = NIL THEN FALSE ELSE e = t.elem \/ is_member(t.kids[IF Before(e, t) THEN 1 ELSE 2], e)

(* An iterator walks with a path and a count of passes for each node on it; *)
(* a node is the current one when its count is the order (0, 1, 2: pre-, in-*)
(* and postorder).  equalto holds a key, or none for all of the tree.       *)
Restricted(t, equalto) ==
  IF equalto = {} THEN t ELSE BIN_TREE_FIND_MEMBER(t, CHOOSE k \in equalto : TRUE)

RECURSIVE it_compute_current_elem(_, _, _)
it_compute_current_elem(it, order, equalto) ==
  LET i == Len(it.path)
      s == Restricted(it.path[i].kids[it.pass[i] + 1], equalto)
      passed == [it EXCEPT !.pass[i] = @ + 1]
      after == IF it.pass[i] >= 2
               THEN [path |-> SubSeq(it.path, 1, i - 1), pass |-> SubSeq(it.pass, 1, i - 1)]
               ELSE IF s = NIL THEN passed
               ELSE [path |-> Append(passed.path, s), pass |-> Append(passed.pass, 0)]
      n == Len(after.path)
  IN  IF i = 0 \/ n = 0 THEN [it EXCEPT !.path = << >>, !.pass = << >>]
      ELSE IF after.pass[n] = order THEN after
      ELSE it_compute_current_elem(after, order, equalto)

it_init(t, order, equalto) ==
  LET root == Restricted(t, equalto)
      it == [path |-> <<root>>, pass |-> <<0>>]
  IN  IF root = NIL THEN [path |-> << >>, pass |-> << >>]
      ELSE IF order = 0 THEN it ELSE it_compute_current_elem(it, order, equalto)

(* The elements from it_init() on to the NULL of it_next().                 *)
Iterated(t, order, equalto) ==
  LET RECURSIVE From(_)
      From(it) == IF it.path = << >> THEN << >>
                  ELSE <<it.path[Len(it.path)].elem>> \o From(it_compute_current_elem(it, order, equalto))
  IN  From(it_init(t, order, equalto))

RECURSIVE BIN_TREE_MAP_ON_ELEMENTS(_, _)
BIN_TREE_MAP_ON_ELEMENTS(t, order) ==
  IF t = NIL THEN << >>
  ELSE LET left == BIN_TREE_MAP_ON_ELEMENTS(t.kids[1], order)
           right == BIN_TREE_MAP_ON_ELEMENTS(t.kids[2], order)
       IN  CASE order = 0 -> <<t.elem>> \o left \o right
             [] order = 1 -> left \o <<t.elem>> \o right
             [] order = 2 -> left \o right \o <<t.elem>>

len(t) == Len(BIN_TREE_MAP_ON_ELEMENTS(t, 1))

-----------------------------------------------------------------------------
Init == tree = NIL /\ aborted = FALSE /\ members = {}

Added(e) == tree' = Black(add_recursive(tree, e)) /\ UNCHANGED aborted

sglib_rbtree_add(e) ==
  /\ ~aborted /\ e \notin members
  /\ Added(e)
  /\ members' = members \cup {e}

Deleted(e) ==
  LET r == delete_recursive(tree, e)
  IN  tree' = (IF r.tree = NIL THEN NIL ELSE Black(r.tree)) /\ aborted' = ~r.ok

sglib_rbtree_delete(e) ==
  /\ ~aborted /\ e \in members
  /\ Deleted(e)
  /\ members' = members \ {e}

sglib_rbtree_add_if_not_member(e) ==
  /\ ~aborted /\ e \notin members
  /\ IF BIN_TREE_FIND_MEMBER(tree, Key[e]) = NIL
     THEN Added(e) /\ members' = members \cup {e}
     ELSE UNCHANGED vars

sglib_rbtree_delete_if_member(k) ==
  LET memb == BIN_TREE_FIND_MEMBER(tree, k)
  IN  /\ ~aborted
      /\ IF memb = NIL THEN UNCHANGED vars
         ELSE Deleted(memb.elem) /\ members' = members \ {memb.elem}

Next ==
  \/ \E e \in Elems : sglib_rbtree_add(e)
  \/ \E e \in Elems : sglib_rbtree_delete(e)
  \/ \E e \in Elems : sglib_rbtree_add_if_not_member(e)
  \/ \E e \in Elems : sglib_rbtree_delete_if_member(Key[e])

Spec == Init /\ [][Next]_vars

-----------------------------------------------------------------------------
RECURSIVE BlackPaths(_)
BlackPaths(t) ==
  IF t = NIL THEN {0}
  ELSE {n + (IF t.red THEN 0 ELSE 1) : n \in BlackPaths(t.kids[1]) \cup BlackPaths(t.kids[2])}

RECURSIVE NoRedUnderRed(_)
NoRedUnderRed(t) ==
  t # NIL => \A d \in 1..2 : ~(t.red /\ t.kids[d].red) /\ NoRedUnderRed(t.kids[d])

(* No assertion of the code fails, no red node has a red child, every path  *)
(* down has as many black nodes, and in order the tree is exactly what was  *)
(* added and not deleted (sglib___rbtree_consistency_check).                *)
RedBlack ==
  LET inOrder == BIN_TREE_MAP_ON_ELEMENTS(tree, 1)
  IN  /\ ~aborted
      /\ ~tree.red /\ NoRedUnderRed(tree) /\ Cardinality(BlackPaths(tree)) = 1
      /\ {inOrder[i] : i \in DOMAIN inOrder} = members /\ Len(inOrder) = Cardinality(members)
      /\ \A i, j \in DOMAIN inOrder :
           i < j => \/ Key[inOrder[i]] < Key[inOrder[j]]
                    \/ Key[inOrder[i]] = Key[inOrder[j]] /\ inOrder[i] < inOrder[j]

(* A member is found by its key and by itself; the iterators walk in the    *)
(* three orders, and one restricted to a key meets all members of that key. *)
WalksAreComplete ==
  /\ \A order \in 0..2 : Iterated(tree, order, {}) = BIN_TREE_MAP_ON_ELEMENTS(tree, order)
  /\ \A e \in Elems : is_member(tree, e) <=> e \in members
  /\ \A k \in {Key[e] : e \in Elems} :
       LET of == {e \in members : Key[e] = k}
           met == Iterated(tree, 1, {k})
       IN  /\ {met[i] : i \in DOMAIN met} = of /\ Len(met) = Cardinality(of)
           /\ (BIN_TREE_FIND_MEMBER(tree, k) = NIL) <=> (of = {})
=============================================================================
