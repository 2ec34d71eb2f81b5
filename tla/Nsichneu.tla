----------------------------- MODULE Nsichneu -----------------------------
(***************************************************************************)
(* model/bench/embench/libnsichneu.c: a Pr/T net with three places and two *)
(* transitions, unrolled.  benchmark_body() marks the places anew in every *)
(* pass and then tries, one block of code after the other, every order in  *)
(* which the members of a place can be taken for a transition's variables. *)
(* One step is one block, or the marking of a new pass.                    *)
(***************************************************************************)
EXTENDS Integers, Sequences, FiniteSets

CONSTANTS
  Values,        \* what the members of P1 and P2 may be
  Rpt,           \* passes of the loop: benchmark_body(rpt)
  Unrolled       \* the slots each block of a pass tries (Benchmarks)

(* Every order of three of the slots of P1, and of four of those of P2, has *)
(* a block.                                                                 *)
Order(n, slots) == {p \in [1..n -> slots] : \A i, j \in 1..n : p[i] = p[j] => i = j}

ASSUME NetAssumption ==
  /\ Values \subseteq Int /\ Rpt \in Nat
  /\ Unrolled \in Seq(Order(3, 0..2) \cup Order(4, 0..4))
  /\ \A p \in Order(3, 0..2) \cup Order(4, 0..4) : \E k \in DOMAIN Unrolled : Unrolled[k] = p

VARIABLES
  P1_member, P2_member, P3_member,     \* P*_marking_member_0
  P1_is_marked, P2_is_marked, P3_is_marked,
  block,         \* the next block of the pass, behind the last one: its end
  pass,          \* j
  marking        \* history: the members of P2 when the pass began

netVars == <<P1_member, P2_member, P3_member, P1_is_marked, P2_is_marked,
          P3_is_marked, block, pass, marking>>

-----------------------------------------------------------------------------
(* Marks an output place with one more triple.                              *)
Output(x, y, z) ==
  /\ P3_is_marked' = P3_is_marked + 3
  /\ P3_member' = [P3_member EXCEPT ![P3_is_marked] = x,
                                    ![P3_is_marked + 1] = y,
                                    ![P3_is_marked + 2] = z]

Room == P3_is_marked + 3 <= 6

(* Transition T1 with the members of P1 in the slots p.                     *)
T1Enabled(p) ==
  /\ P1_is_marked >= 3
  /\ Room
  /\ P1_member[p[2]] = P1_member[p[3]]
  /\ P1_member[p[1]] < P1_member[p[2]]

T1(p) ==
  LET x == P1_member[p[1]]
      y == P1_member[p[2]]
  IN  /\ T1Enabled(p)
      /\ P1_is_marked' = P1_is_marked - 3
      /\ Output(x, y, x - y)
      /\ UNCHANGED <<P1_member, P2_member, P2_is_marked>>

(* Transition T2 with the members of P2 in the slots p: a once, b thrice.   *)
(* When all five slots are considered, the member that stays behind moves   *)
(* to the front.                                                            *)
Slots(p) == {p[i] : i \in DOMAIN p}

T2Enabled(p) ==
  /\ P2_is_marked >= (IF 4 \in Slots(p) THEN 5 ELSE 4)
  /\ Room
  /\ P2_member[p[2]] = P2_member[p[3]]
  /\ P2_member[p[2]] = P2_member[p[4]]
  /\ P2_member[p[2]] > P2_member[p[1]]

(* Mutant: it stays where it is. *)
RemainingStays(p) == P2_member
Remaining(p) ==
  IF 4 \in Slots(p)
  THEN LET u == CHOOSE s \in 0..4 : s \notin Slots(p)
       IN  [P2_member EXCEPT ![0] = P2_member[u]]
  ELSE P2_member

T2(p) ==
  LET a == P2_member[p[1]]
      b == P2_member[p[2]]
  IN  /\ T2Enabled(p)
      /\ P2_is_marked' = P2_is_marked - 4
      /\ P2_member' = Remaining(p)
      /\ Output(a, b, a + b)
      /\ UNCHANGED <<P1_member, P1_is_marked>>

-----------------------------------------------------------------------------
NetInit ==
  /\ P1_member \in [0..2 -> Values]
  /\ P2_member \in [0..4 -> Values]
  /\ P3_member = [i \in 0..5 |-> 0]
  /\ P1_is_marked = 3 /\ P2_is_marked = 5 /\ P3_is_marked = 0
  /\ block = 1
  /\ pass = 1
  /\ marking = P2_member

AtEnd == block = Len(Unrolled) + 1

Fire ==
  /\ ~AtEnd
  /\ LET p == Unrolled[block]
     IN  IF Len(p) = 3 THEN T1(p) ELSE T2(p)
  /\ block' = block + 1
  /\ UNCHANGED <<pass, marking>>

Skip ==
  /\ ~AtEnd
  /\ LET p == Unrolled[block]
     IN  IF Len(p) = 3 THEN ~T1Enabled(p) ELSE ~T2Enabled(p)
  /\ block' = block + 1
  /\ UNCHANGED <<P1_member, P2_member, P3_member, P1_is_marked, P2_is_marked,
                 P3_is_marked, pass, marking>>

NextPass ==
  /\ AtEnd
  /\ pass < Rpt
  /\ pass' = pass + 1
  /\ block' = 1
  /\ P1_is_marked' = 3 /\ P2_is_marked' = 5 /\ P3_is_marked' = 0
  /\ marking' = P2_member
  /\ UNCHANGED <<P1_member, P2_member, P3_member>>

NetNext == Fire \/ Skip \/ NextPass

NetSpec == NetInit /\ [][NetNext]_netVars
-----------------------------------------------------------------------------
(* Properties.                                                              *)
Count(f, v) == Cardinality({i \in DOMAIN f : f[i] = v})

(* A pass leaves nothing undone: at its end a transition has fired exactly  *)
(* if the members the pass began with allow it in some order -- the         *)
(* unrolled permutations miss none and repeat none -- and P3 holds one      *)
(* triple for each transition that has.                                     *)
PassFiresWhatItCan ==
  AtEnd =>
    /\ P1_is_marked = 0 <=>
         \E x, y \in Values : x < y /\ Count(P1_member, x) = 1 /\ Count(P1_member, y) = 2
    /\ P2_is_marked = 1 <=>
         \E i, j \in 0..4 : marking[i] < marking[j] /\ Count(marking, marking[j]) >= 3
    /\ P3_is_marked = (3 - P1_is_marked) + 3 * ((5 - P2_is_marked) \div 4)

(* A firing of T2 loses and invents no member: what it takes, and what is   *)
(* left in the front slot -- or, if the block does not look at the last     *)
(* slot, what is left there -- are the members that were marked.            *)
FiringBalances ==
  P2_is_marked' < P2_is_marked /\ block' # 1 =>
    LET a == P3_member'[P3_is_marked]
        b == P3_member'[P3_is_marked + 1]
        kept == IF 4 \in Slots(Unrolled[block]) THEN P2_member'[0] ELSE P2_member'[4]
        Is(v, w) == IF v = w THEN 1 ELSE 0
    IN  /\ a < b
        /\ P3_member'[P3_is_marked + 2] = a + b
        /\ \A v \in {P2_member[i] : i \in 0..4} \cup {a, b, kept} :
             Count(P2_member, v) = Is(v, a) + 3 * Is(v, b) + Is(v, kept)

(* The unrolled permutations of the net leave no transition behind that     *)
(* could have fired, and a firing of T2 loses and invents no token          *)
(* (benchmark_body of libnsichneu.c).                                       *)
NetFiresWhatItCan == []PassFiresWhatItCan /\ [][FiringBalances]_netVars
=============================================================================
