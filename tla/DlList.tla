------------------------------- MODULE DlList -------------------------------
(***************************************************************************)
(* The doubly linked list of bench/embench-iot/src/sglib-combined/sglib.h. *)
(* Elements are numbers, 0 is NULL; the_list may point anywhere into the   *)
(* list.  Key is what the comparator sees of an element.                   *)
(***************************************************************************)
EXTENDS Integers, Sequences, FiniteSets

CONSTANTS Elems, Key,
  Seconds,            \* How long a list is that is appended to another.
  SortedList(_)       \* SGLIB_LIST_SORT of the elements of a list (Benchmarks)

NULL == 0

ASSUME ListAssumption ==
  /\ IsFiniteSet(Elems) /\ NULL \notin Elems /\ Seconds \subseteq Nat \ {0}
  /\ \A n \in 0..Cardinality(Elems) : \A s \in [1..n -> Elems] :
       (\A i, j \in 1..n : s[i] = s[j] => i = j) =>
         /\ SortedList(s) \in [1..n -> Elems]
         /\ \A i, j \in 1..n : SortedList(s)[i] = SortedList(s)[j] => i = j
         /\ {SortedList(s)[i] : i \in 1..n} = {s[i] : i \in 1..n}

VARIABLES
  next, previous,     \* ptr_to_next, ptr_to_previous of every element
  the_list,
  members             \* history: what was added and not deleted

listVars == <<next, previous, the_list, members>>

links == [next |-> next, previous |-> previous, list |-> the_list]

-----------------------------------------------------------------------------
(* The elements from p on, along the pointers to one side.  There are no    *)
(* more of them than there are elements.                                    *)
Along(ptr, p) ==
  LET at[n \in 1..Cardinality(Elems)] ==
        IF n = 1 THEN p ELSE IF at[n - 1] = NULL THEN NULL ELSE ptr[at[n - 1]]
  IN  [n \in 1..Cardinality({m \in DOMAIN at : at[m] # NULL}) |-> at[n]]

LastOf(s) == IF s = << >> THEN NULL ELSE s[Len(s)]

DL_LIST_GET_FIRST(l) == LastOf(Along(l.previous, l.list))
DL_LIST_GET_LAST(l) == LastOf(Along(l.next, l.list))
DL_LIST_LEN(l) ==
  IF l.list = NULL THEN 0 ELSE Len(Along(l.previous, l.list)) + Len(Along(l.next, l.next[l.list]))

(* First along previous, from the_list on, then along next behind it.       *)
Searched(l) == IF l.list = NULL THEN << >> ELSE Along(l.previous, l.list) \o Along(l.next, l.next[l.list])

DL_LIST_IS_MEMBER(l, e) == \E i \in DOMAIN Searched(l) : Searched(l)[i] = e

(* sglib_dllist_it_init() and it_next() meet all of it in that order, or    *)
(* those of one key: these are their places.                                *)
Iterated(l, k) == {i \in DOMAIN Searched(l) : Key[Searched(l)[i]] = k}
DL_LIST_FIND_MEMBER(l, k) ==
  LET found == Iterated(l, k)
  IN  IF found = {} THEN NULL ELSE Searched(l)[CHOOSE i \in found : \A j \in found : i <= j]

Set(f, p, v) == IF p = NULL THEN f ELSE [f EXCEPT ![p] = v]

CREATE_SINGLETON(l, e) ==
  [next |-> [l.next EXCEPT ![e] = NULL], previous |-> [l.previous EXCEPT ![e] = NULL], list |-> e]

DL_LIST_ADD_AFTER(l, place, e) ==
  LET after == l.next[place]
  IN  [l EXCEPT !.next = [@ EXCEPT ![e] = after, ![place] = e],
                !.previous = Set([@ EXCEPT ![e] = place], after, e)]

DL_LIST_ADD_BEFORE(l, place, e) ==
  LET before == l.previous[place]
  IN  [l EXCEPT !.previous = [@ EXCEPT ![e] = before, ![place] = e],
                !.next = Set([@ EXCEPT ![e] = place], before, e)]

(* Into an empty list, or to one side of the_list, which stays where it is. *)
Added(l, e, before) ==
  IF l.list = NULL THEN CREATE_SINGLETON(l, e)
  ELSE IF before THEN DL_LIST_ADD_BEFORE(l, l.list, e) ELSE DL_LIST_ADD_AFTER(l, l.list, e)

(* Only the element `second` is linked in, its own neighbours are not.      *)
DL_LIST_CONCAT(l, second) ==
  IF l.list = NULL THEN [l EXCEPT !.list = second]
  ELSE IF second = NULL THEN l ELSE DL_LIST_ADD_AFTER(l, DL_LIST_GET_LAST(l), second)

(* Mutant: the element behind the deleted one still points back to it. *)
DL_LIST_DELETEOneWay(l, e) ==
  LET before == l.previous[e]
      after == l.next[e]
  IN  [next |-> Set(l.next, before, after), previous |-> l.previous,
       list |-> IF l.list # e THEN l.list ELSE IF before # NULL THEN before ELSE after]
DL_LIST_DELETE(l, e) ==
  LET before == l.previous[e]
      after == l.next[e]
  IN  [next |-> Set(l.next, before, after),
       previous |-> Set(l.previous, after, before),
       list |-> IF l.list # e THEN l.list ELSE IF before # NULL THEN before ELSE after]

-----------------------------------------------------------------------------
(* The pointers of a list whose elements are s, the_list being its first.   *)
CREATE_FROM_LIST(l, s) ==
  LET At(i) == IF i \in DOMAIN s THEN s[i] ELSE NULL
      Place(e) == CHOOSE i \in DOMAIN s : s[i] = e
      listed == {s[i] : i \in DOMAIN s}
  IN  [next |-> [e \in DOMAIN l.next |-> IF e \in listed THEN At(Place(e) + 1) ELSE l.next[e]],
       previous |-> [e \in DOMAIN l.previous |-> IF e \in listed THEN At(Place(e) - 1) ELSE l.previous[e]],
       list |-> At(1)]

DL_LIST_SORT(l) ==
  IF l.list = NULL THEN l ELSE CREATE_FROM_LIST(l, SortedList(Along(l.next, DL_LIST_GET_FIRST(l))))

(* The two pointers of every element are swapped; the_list stays.           *)
DL_LIST_REVERSE(l) ==
  LET swapped == {Searched(l)[i] : i \in DOMAIN Searched(l)}
  IN  [l EXCEPT !.next = [e \in DOMAIN @ |-> IF e \in swapped THEN l.previous[e] ELSE @[e]],
                !.previous = [e \in DOMAIN @ |-> IF e \in swapped THEN l.next[e] ELSE @[e]]]

-----------------------------------------------------------------------------
(* An element that is in no list holds whatever it held.                    *)
ListInit ==
  /\ next = [e \in Elems |-> NULL] /\ previous = [e \in Elems |-> NULL]
  /\ the_list = NULL /\ members = {}

Becomes(l) == next' = l.next /\ previous' = l.previous /\ the_list' = l.list

sglib_dllist_add_before(e) ==
  e \notin members /\ Becomes(Added(links, e, TRUE)) /\ members' = members \cup {e}

sglib_dllist_add_after(e) ==
  e \notin members /\ Becomes(Added(links, e, FALSE)) /\ members' = members \cup {e}

sglib_dllist_add(e) == sglib_dllist_add_before(e)

sglib_dllist_add_if_not_member(e) ==
  IF DL_LIST_FIND_MEMBER(links, Key[e]) = NULL THEN sglib_dllist_add(e)
  ELSE e \notin members /\ UNCHANGED listVars

(* A second list of elements that are in none, its pointer on any of them.  *)
(* Behind a list that is not empty this one alone is linked, the others of  *)
(* the second list are lost.                                                *)
sglib_dllist_concat(s, k) ==
  LET second == {s[i] : i \in DOMAIN s}
  IN  /\ second \cap members = {} /\ \A i, j \in DOMAIN s : s[i] = s[j] => i = j
      /\ Becomes(DL_LIST_CONCAT([CREATE_FROM_LIST(links, s) EXCEPT !.list = the_list], s[k]))
      /\ members' = members \cup (IF the_list = NULL THEN second ELSE {s[k]})

sglib_dllist_delete(e) ==
  e \in members /\ Becomes(DL_LIST_DELETE(links, e)) /\ members' = members \ {e}

sglib_dllist_delete_if_member(k) ==
  LET member == DL_LIST_FIND_MEMBER(links, k)
  IN  IF member = NULL THEN UNCHANGED listVars ELSE sglib_dllist_delete(member)

sglib_dllist_sort == Becomes(DL_LIST_SORT(links)) /\ UNCHANGED members
sglib_dllist_reverse == Becomes(DL_LIST_REVERSE(links)) /\ UNCHANGED members

ListNext ==
  \/ \E e \in Elems : sglib_dllist_add(e)
  \/ \E e \in Elems : sglib_dllist_add_after(e)
  \/ \E e \in Elems : sglib_dllist_add_if_not_member(e)
  \/ \E n \in Seconds : \E s \in [1..n -> Elems], k \in 1..n : sglib_dllist_concat(s, k)
  \/ \E e \in Elems : sglib_dllist_delete(e)
  \/ \E e \in Elems : sglib_dllist_delete_if_member(Key[e])
  \/ sglib_dllist_sort
  \/ sglib_dllist_reverse

ListSpec == ListInit /\ [][ListNext]_listVars

-----------------------------------------------------------------------------
Forward == Along(next, DL_LIST_GET_FIRST(links))
Backward == Along(previous, DL_LIST_GET_LAST(links))

(* From first to last and back the same elements are met, those that were   *)
(* added and not deleted, and the_list is one of them; so what is deleted   *)
(* is out of both chains and a search from the_list meets every member      *)
(* (the pointers of sglib.h:541-729).                                       *)
LinkedBothWays ==
  /\ Backward = [i \in 1..Len(Forward) |-> Forward[Len(Forward) + 1 - i]]
  /\ {Forward[i] : i \in DOMAIN Forward} = members
  /\ Len(Forward) = Cardinality(members) /\ DL_LIST_LEN(links) = Len(Forward)
  /\ (the_list = NULL) <=> (members = {})
  /\ \A e \in Elems : DL_LIST_IS_MEMBER(links, e) <=> e \in members
  /\ \A k \in {Key[e] : e \in Elems} :
       {Searched(links)[i] : i \in Iterated(links, k)} = {e \in members : Key[e] = k}

(* A sorted list rises from its first element, whatever the_list was.       *)
SortRises ==
  sglib_dllist_sort =>
    LET sorted == Forward'
    IN  \A i, j \in DOMAIN sorted : i < j => Key[sorted[i]] <= Key[sorted[j]]
=============================================================================
