-------------------------- MODULE XifResult_proofs -------------------------
(***************************************************************************)
(* Proofs about pg_xif_mac and pg_xif_tinyml, for every set of             *)
(* identifiers, instructions and operands: about the result registers for  *)
(* every width of the datapath, about the datapath for the code's.         *)
(***************************************************************************)
EXTENDS XifResult, TLAPS

(* The strengthening: the registers hold the result of the instruction in   *)
(* flight from the cycle after its issue on.  BusyIffInFlight alone is not  *)
(* inductive: that a kill of the instruction in flight also drops the       *)
(* waiting result needs the identifiers to agree.                           *)
HoldsFlight ==
  pending => /\ flight.op \in Supported
             /\ resId = flight.id
             /\ resData = ComputeResult(flight.op, flight.rs)

Inv == TypeOK /\ BusyIffInFlight /\ HoldsFlight

(* The reset establishes the invariant.                                     *)
LEMMA InitInv == Init => Inv
  BY DEF Init, Inv, CoreInit, TypeOK, CoreTypeOK, BusyIffInFlight, HoldsFlight

(* A kill that reaches the instruction in flight is a kill of the waiting   *)
(* result, and the other way round.                                         *)
LEMMA KillsAgree == Inv => (Killed <=> ResultKilled)
  BY DEF Inv, BusyIffInFlight, HoldsFlight, Killed, CommitsFlight, ResultKilled

(* The record that FlightEdge builds from an accepted offer. *)
LEMMA AcceptedInFlight ==
  ASSUME NEW o \in Offer
  PROVE  /\ [id |-> o.id, op |-> o.op, rs |-> o.rs, committed |-> FALSE] \in InFlight
         /\ [id |-> o.id, op |-> o.op, rs |-> o.rs, committed |-> FALSE] # None
<1>1. [id |-> o.id, op |-> o.op, rs |-> o.rs, committed |-> FALSE] \in InFlight
  BY DEF Offer, InFlight
<1>2. QED
  BY <1>1, NoneAssumption

(* The core's bookkeeping of the instruction in flight keeps its type.      *)
LEMMA FlightType ==
  ASSUME TypeOK, Decoded => offer # None,
         NEW retired \in BOOLEAN, FlightEdge(Decoded, retired)
  PROVE  flight' \in InFlight \cup {None}
<1>1. CASE Decoded
  BY <1>1, AcceptedInFlight DEF TypeOK, CoreTypeOK, FlightEdge
<1>2. CASE ~Decoded
  BY <1>2 DEF TypeOK, CoreTypeOK, FlightEdge, InFlight, CommitsFlight
<1>3. QED
  BY <1>1, <1>2

(* Every clock edge keeps the types.                                        *)
LEMMA StepTypeOK == Inv /\ Tick => TypeOK'
<1> SUFFICES ASSUME Inv, Tick PROVE TypeOK'
  OBVIOUS
<1>1. flight' \in InFlight \cup {None}
  BY FlightType DEF Inv, Tick, Decoded, ResultTaken, ResultValid, TypeOK, CoreTypeOK
<1>2. /\ offer' \in Offer \cup {None}
      /\ commit' \in Commit \cup {None}
      /\ resultReady' \in BOOLEAN
  BY DEF Tick, Drive
<1>3. pending' \in BOOLEAN /\ resId' \in Ids
  <2>1. CASE Capture
    BY <2>1 DEF Inv, TypeOK, CoreTypeOK, Capture, Decoded, Offer
  <2>2. CASE HandOver \/ DropKilled \/ Keep
    BY <2>2 DEF Inv, TypeOK, HandOver, DropKilled, Keep, resVars
  <2>3. QED
    BY <2>1, <2>2 DEF Tick, ResultEdge
<1>4. QED
  BY <1>1, <1>2, <1>3 DEF TypeOK, CoreTypeOK

(* One step per arm of the if/else chain. *)
LEMMA StepHolds == Inv /\ Tick => BusyIffInFlight' /\ HoldsFlight'
<1> SUFFICES ASSUME Inv, Tick PROVE BusyIffInFlight' /\ HoldsFlight'
  OBVIOUS
<1> USE DEF Tick, FlightEdge
<1>1. CASE Capture
  <2>1. flight' = [id |-> offer.id, op |-> offer.op, rs |-> offer.rs, committed |-> FALSE]
    BY <1>1 DEF Capture
  <2>2. flight' # None
    BY <1>1, <2>1, AcceptedInFlight DEF Inv, TypeOK, CoreTypeOK, Capture, Decoded
  <2>3. /\ pending' /\ resId' = offer.id
        /\ resData' = ComputeResult(offer.op, offer.rs)
        /\ offer.op \in Supported
    BY <1>1 DEF Capture, Decoded
  <2>4. /\ flight'.id = offer.id /\ flight'.op = offer.op /\ flight'.rs = offer.rs
    BY <2>1
  <2>5. QED
    BY <2>2, <2>3, <2>4 DEF BusyIffInFlight, HoldsFlight
<1>2. CASE HandOver
  BY <1>2 DEF HandOver, BusyIffInFlight, HoldsFlight
<1>3. CASE DropKilled
  BY <1>3, KillsAgree DEF DropKilled, BusyIffInFlight, HoldsFlight
<1>4. CASE Keep
  <2>1. flight' = IF CommitsFlight THEN [flight EXCEPT !.committed = TRUE] ELSE flight
    BY <1>4, KillsAgree DEF Keep
  <2>2. flight # None => /\ flight' # None
                         /\ flight'.id = flight.id
                         /\ flight'.op = flight.op
                         /\ flight'.rs = flight.rs
    BY <2>1, NoneAssumption DEF Inv, TypeOK, CoreTypeOK, InFlight
  <2>3. flight = None => flight' = None
    BY <2>1 DEF CommitsFlight
  <2>4. QED
    BY <1>4, <2>2, <2>3 DEF Inv, Keep, resVars, BusyIffInFlight, HoldsFlight
<1>5. QED
  BY <1>1, <1>2, <1>3, <1>4 DEF ResultEdge

(* A step that changes nothing keeps the invariant.                         *)
LEMMA StutterInv == Inv /\ UNCHANGED vars => Inv'
  BY DEF Inv, vars, coreVars, resVars, TypeOK, CoreTypeOK, BusyIffInFlight, HoldsFlight

(* The strengthened invariant holds in every state. *)
THEOREM Invariance == Spec => []Inv
<1>1. Inv /\ [Next]_vars => Inv'
  BY StepTypeOK, StepHolds, StutterInv DEF Next, Inv
<1>2. QED
  BY InitInv, <1>1, PTL DEF Spec

(* The registers and the core's bookkeeping stay within their types. *)
THEOREM TypeCorrect == Spec => []TypeOK
<1>1. Inv => TypeOK
  BY DEF Inv
<1>2. QED
  BY <1>1, Invariance, PTL

(* The coprocessor holds a result exactly while the core waits for one:     *)
(* none is lost, none outlives its kill.                                    *)
THEOREM BusyExactly == Spec => []BusyIffInFlight
<1>1. Inv => BusyIffInFlight
  BY DEF Inv
<1>2. QED
  BY <1>1, Invariance, PTL

(* The core only ever takes the result of the instruction it has in flight, *)
(* computed from the operands of its issue.                                 *)
THEOREM ResultCorrect == Spec => []TakesOwnResult
<1>1. Inv => TakesOwnResult
  BY DEF Inv, TakesOwnResult, ResultTaken, ResultValid, BusyIffInFlight, HoldsFlight
<1>2. QED
  BY <1>1, Invariance, PTL

(* A result on the interface is not withdrawn and does not change before    *)
(* it is taken or killed.                                                   *)
THEOREM ResultStable == Spec => ResultHeld
<1> DEFINE Held == ResultValid /\ ~ResultTaken /\ ~Killed
                     => pending' /\ UNCHANGED <<resId, resData>>
<1>1. Inv /\ Next => Held
  BY KillsAgree DEF Next, Tick, ResultEdge, Capture, HandOver, DropKilled, Keep, resVars,
                    Decoded, ResultValid
<1>2. Inv /\ [Next]_vars => [Held]_vars
  BY <1>1
<1>3. QED
  BY <1>2, Invariance, PTL DEF Spec, ResultHeld

-----------------------------------------------------------------------------
(* Arithmetic of the datapath. *)

(* A number has one remainder: what is left of a multiple of b and is below b. *)
LEMMA OnlyRemainder ==
  ASSUME NEW b \in Nat \ {0}, NEW q \in Int, NEW r \in 0 .. b - 1
  PROVE  (b * q + r) % b = r
<1> DEFINE c == b * q + r
<1>1. c \in Int /\ c \div b \in Int /\ c % b \in 0 .. b - 1 /\ c = b * (c \div b) + (c % b)
  BY SMT
<1> HIDE DEF c
<1> DEFINE d == q - c \div b
<1>2. d \in Int /\ q = c \div b + d
  BY <1>1
<1>3. b * q = b * (c \div b) + b * d
  BY <1>1, <1>2, SMT
<1>4. c % b = b * d + r
  BY <1>1, <1>3, SMT DEF c
<1> HIDE DEF d
<1>5. d >= 1 => b * d >= b
  BY <1>2, SMT
<1>6. d <= -1 => b * d <= -b
  BY <1>2, SMT
<1>7. d = 0
  BY <1>1, <1>2, <1>4, <1>5, <1>6, SMT
<1>8. b * d = 0
  BY <1>7, SMT
<1>9. c % b = r
  BY <1>1, <1>4, <1>8, SMT
<1>10. QED
  BY <1>9 DEF c

(* A multiple of the modulus does not change the remainder.                 *)
LEMMA ModAdd ==
  ASSUME NEW b \in Nat \ {0}, NEW a \in Int, NEW k \in Int
  PROVE  (a + k * b) % b = a % b
<1> DEFINE q == a \div b
           r == a % b
<1>1. q \in Int /\ r \in 0 .. b - 1 /\ a = b * q + r
  BY SMT
<1> HIDE DEF q, r
<1>2. a + k * b = b * (q + k) + r
  BY <1>1, SMT
<1>3. (b * (q + k) + r) % b = r
  BY <1>1, OnlyRemainder
<1>4. QED
  BY <1>2, <1>3 DEF r

(* A signed register gives back a number that fits into its w bits.         *)
LEMMA SignedFits ==
  ASSUME NEW w, NEW half \in Nat \ {0}, Bits(w - 1) = half, Bits(w) = 2 * half,
         NEW p \in -half .. half - 1
  PROVE  Signed(Truncate(p, w), w) = p
<1>1. CASE p >= 0
  <2>1. (2 * half * 0 + p) % (2 * half) = p
    BY <1>1, OnlyRemainder, 2 * half \in Nat \ {0}, p \in 0 .. 2 * half - 1, 0 \in Int
  <2>2. p % (2 * half) = p
    BY <2>1, SMT
  <2>3. QED
    BY <1>1, <2>2 DEF Signed, Truncate
<1>2. CASE p < 0
  <2> DEFINE b == 2 * half
  <2>1. b \in Nat \ {0} /\ p + b \in 0 .. b - 1
    BY <1>2, SMT
  <2> HIDE DEF b
  <2>2. (b * (-1) + (p + b)) % b = p + b
    BY <2>1, OnlyRemainder, -1 \in Int
  <2>3. b * (-1) + (p + b) = p
    BY <2>1, SMT
  <2>4. p % b = p + b
    BY <2>2, <2>3
  <2>5. QED
    BY <1>2, <2>4, SMT DEF Signed, Truncate, b
<1>3. QED
  BY <1>1, <1>2

(* The product of two lanes is largest for the two most negative ones.      *)
LEMMA ProductFits ==
  ASSUME NEW h \in Nat \ {0}, NEW x \in -h .. h - 1, NEW y \in -h .. h - 1
  PROVE  /\ x * y \in Int /\ h * h \in Nat \ {0}
         /\ -(h * h) <= x * y /\ x * y <= h * h
<1>1. x * y \in Int /\ h * h \in Nat \ {0}
  BY SMT
<1>2. CASE x >= 0 /\ y >= 0
  <2>1. x * y <= x * h
    BY <1>2, SMT
  <2>2. x * h <= h * h
    BY <1>2, SMT
  <2>3. x * y >= 0
    BY <1>2, SMT
  <2>4. QED
    BY <1>1, <2>1, <2>2, <2>3, SMT
<1>3. CASE x < 0 /\ y < 0
  <2> DEFINE a == -x
             c == -y
  <2>1. a \in 1 .. h /\ c \in 1 .. h /\ x * y = a * c
    BY <1>3, SMT
  <2> HIDE DEF a, c
  <2>2. a * c <= a * h /\ a * h <= h * h /\ a * c >= 0
    BY <2>1, SMT
  <2>3. QED
    BY <1>1, <2>1, <2>2, SMT
<1>4. CASE x >= 0 /\ y < 0
  <2> DEFINE c == -y
  <2>1. c \in 1 .. h /\ x * y = -(x * c)
    BY <1>4, SMT
  <2> HIDE DEF c
  <2>2. x * c <= x * h /\ x * h <= h * h /\ x * c >= 0
    BY <1>4, <2>1, SMT
  <2>3. QED
    BY <1>1, <2>1, <2>2, SMT
<1>5. CASE x < 0 /\ y >= 0
  <2> DEFINE a == -x
  <2>1. a \in 1 .. h /\ x * y = -(a * y)
    BY <1>5, SMT
  <2> HIDE DEF a
  <2>2. a * y <= a * h /\ a * h <= h * h /\ a * y >= 0
    BY <1>5, <2>1, SMT
  <2>3. QED
    BY <1>1, <2>1, <2>2, SMT
<1>6. QED
  BY <1>2, <1>3, <1>4, <1>5

-----------------------------------------------------------------------------
(* The sum of the reference definition is a fold that takes the lanes in an *)
(* order it does not tell.  Over at most four lanes the order is no matter. *)

(* One product of the dot product.                                          *)
Term(rs, w, k) == Lane(rs[1], k, w) * Lane(rs[2], k, w)

Pick(s) == CHOOSE x \in s : TRUE
Count(s) == (IF 0 \in s THEN 1 ELSE 0) + (IF 1 \in s THEN 1 ELSE 0)
          + (IF 2 \in s THEN 1 ELSE 0) + (IF 3 \in s THEN 1 ELSE 0)
Part(rs, w, k, s) == IF k \in s THEN Term(rs, w, k) ELSE 0
Parts(rs, w, s) == Part(rs, w, 0, s) + Part(rs, w, 1, s) + Part(rs, w, 2, s) + Part(rs, w, 3, s)

(* it is the sum over the subsets of S in the recursion of the fold.        *)
IsFold(it, rs, w, S) ==
  it = [s \in SUBSET S |-> IF s = {} THEN 0
                           ELSE Term(rs, w, Pick(s)) + it[s \ {Pick(s)}]]

(* The fold may take out any element first.                                 *)
LEMMA TakeOut ==
  ASSUME NEW rs, NEW w, NEW s \in SUBSET (0 .. 3), s # {},
         \A k \in s : Term(rs, w, k) \in Int
  PROVE  /\ Pick(s) \in s
         /\ Parts(rs, w, s) = Term(rs, w, Pick(s)) + Parts(rs, w, s \ {Pick(s)})
         /\ Count(s \ {Pick(s)}) = Count(s) - 1
<1>1. Pick(s) \in s
  BY DEF Pick
<1>2. PICK x \in s : x = Pick(s)
  BY <1>1
<1>3. x \in {0, 1, 2, 3}
  BY SMT
<1>4. \A k \in {0, 1, 2, 3} : k \in s \ {x} <=> k \in s /\ k # x
  OBVIOUS
<1>5. ASSUME NEW k \in {0, 1, 2, 3}
      PROVE  /\ Part(rs, w, k, s) \in Int
             /\ Part(rs, w, k, s \ {x}) = IF k = x THEN 0 ELSE Part(rs, w, k, s)
  BY <1>4 DEF Part
<1>6. Parts(rs, w, s) = Term(rs, w, x) + Parts(rs, w, s \ {x})
  <2>1. Term(rs, w, x) = Part(rs, w, x, s) /\ Term(rs, w, x) \in Int
    BY DEF Part
  <2>2. CASE x = 0
    BY <2>1, <2>2, <1>5, SMT DEF Parts
  <2>3. CASE x = 1
    BY <2>1, <2>3, <1>5, SMT DEF Parts
  <2>4. CASE x = 2
    BY <2>1, <2>4, <1>5, SMT DEF Parts
  <2>5. CASE x = 3
    BY <2>1, <2>5, <1>5, SMT DEF Parts
  <2>6. QED
    BY <1>3, <2>2, <2>3, <2>4, <2>5
<1>7. Count(s \ {x}) = Count(s) - 1
  BY <1>3, <1>4, SMT DEF Count
<1>8. QED
  BY <1>1, <1>2, <1>6, <1>7

(* The recursion of the fold has a solution, the sum of the terms.          *)
LEMMA FoldExists ==
  ASSUME NEW rs, NEW w, NEW S \in SUBSET (0 .. 3),
         \A k \in S : Term(rs, w, k) \in Int
  PROVE  \E it : IsFold(it, rs, w, S)
<1> DEFINE g == [s \in SUBSET S |-> Parts(rs, w, s)]
<1>1. ASSUME NEW s \in SUBSET S
      PROVE  g[s] = IF s = {} THEN 0 ELSE Term(rs, w, Pick(s)) + g[s \ {Pick(s)}]
  <2>1. CASE s = {}
    BY <2>1, Parts(rs, w, {}) = 0 DEF Parts, Part
  <2>2. CASE s # {}
    <3>1. s \in SUBSET (0 .. 3) /\ s \ {Pick(s)} \in SUBSET S
      OBVIOUS
    <3>2. Parts(rs, w, s) = Term(rs, w, Pick(s)) + Parts(rs, w, s \ {Pick(s)})
      BY <2>2, <3>1, TakeOut
    <3>3. QED
      BY <2>2, <3>1, <3>2
  <2>3. QED
    BY <2>1, <2>2
<1>2. IsFold(g, rs, w, S)
  <2> DEFINE f == [s \in SUBSET S |-> IF s = {} THEN 0
                           ELSE Term(rs, w, Pick(s)) + g[s \ {Pick(s)}]]
  <2>1. \A s \in SUBSET S : g[s] = f[s]
    BY <1>1
  <2>2. g = f
    BY <2>1
  <2>3. QED
    BY <2>2 DEF IsFold
<1>3. QED
  BY <1>2

(* It has no other solution: the sets are gone through by their size.       *)
LEMMA FoldIsSum ==
  ASSUME NEW rs, NEW w, NEW S \in SUBSET (0 .. 3),
         \A k \in S : Term(rs, w, k) \in Int,
         NEW it, IsFold(it, rs, w, S)
  PROVE  it[S] = Parts(rs, w, S)
<1> DEFINE P(m) == \A s \in SUBSET S : Count(s) <= m => it[s] = Parts(rs, w, s)
<1>1. \A s : Count(s) \in 0 .. 4
  BY DEF Count
<1>2. ASSUME NEW s \in SUBSET S
      PROVE  it[s] = IF s = {} THEN 0 ELSE Term(rs, w, Pick(s)) + it[s \ {Pick(s)}]
  BY DEF IsFold
<1>3. P(0)
  <2>1. ASSUME NEW s \in SUBSET S, Count(s) <= 0 PROVE s = {}
    <3>1. 0 \notin s /\ 1 \notin s /\ 2 \notin s /\ 3 \notin s
      BY <2>1 DEF Count
    <3>2. \A k \in s : k \in {0, 1, 2, 3}
      BY SMT
    <3>3. QED
      BY <3>1, <3>2
  <2>2. Parts(rs, w, {}) = 0
    BY DEF Parts, Part
  <2>3. QED
    BY <1>2, <2>1, <2>2
<1>4. ASSUME NEW m \in Nat, P(m)
      PROVE  P(m + 1)
  <2> SUFFICES ASSUME NEW s \in SUBSET S, Count(s) <= m + 1
               PROVE  it[s] = Parts(rs, w, s)
    OBVIOUS
  <2>1. CASE s = {}
    BY <1>2, <2>1, Parts(rs, w, {}) = 0 DEF Parts, Part
  <2>2. CASE s # {}
    <3>1. s \in SUBSET (0 .. 3) /\ s \ {Pick(s)} \in SUBSET S
      OBVIOUS
    <3>2. /\ Parts(rs, w, s) = Term(rs, w, Pick(s)) + Parts(rs, w, s \ {Pick(s)})
          /\ Count(s \ {Pick(s)}) = Count(s) - 1
      BY <2>2, <3>1, TakeOut
    <3>3. Count(s \ {Pick(s)}) <= m
      BY <1>1, <3>2
    <3>4. it[s \ {Pick(s)}] = Parts(rs, w, s \ {Pick(s)})
      BY <1>4, <3>1, <3>3
    <3>5. QED
      BY <1>2, <2>2, <3>2, <3>4
  <2>3. QED
    BY <2>1, <2>2
<1> HIDE DEF P
<1>5. P(0 + 1)
  BY <1>3, <1>4
<1>6. P(1 + 1)
  BY <1>4, <1>5
<1>7. P(2 + 1)
  BY <1>4, <1>6
<1>8. P(3 + 1)
  BY <1>4, <1>7
<1>9. QED
  BY <1>1, <1>8 DEF P

(* The sum that Promised speaks of, written out.                            *)
LEMMA SumOfTerms ==
  ASSUME NEW rs, NEW w, NEW n \in 0 .. 3,
         \A k \in 0 .. n : Term(rs, w, k) \in Int
  PROVE  MapThenSumSet(LAMBDA i : Lane(rs[1], i, w) * Lane(rs[2], i, w), 0 .. n)
           = Parts(rs, w, 0 .. n)
<1> DEFINE it == CHOOSE f : IsFold(f, rs, w, 0 .. n)
<1>1. 0 .. n \in SUBSET (0 .. 3)
  BY SMT
<1>2. IsFold(it, rs, w, 0 .. n)
  BY <1>1, FoldExists
<1>3. MapThenSumSet(LAMBDA i : Lane(rs[1], i, w) * Lane(rs[2], i, w), 0 .. n) = it[0 .. n]
  BY DEF MapThenSumSet, MapThenFoldSet, IsFold, Term, Pick
<1> HIDE DEF it
<1>4. it[0 .. n] = Parts(rs, w, 0 .. n)
  BY <1>1, <1>2, FoldIsSum
<1>5. QED
  BY <1>3, <1>4

-----------------------------------------------------------------------------
(* The registers of the datapath. *)

(* The powers of two that are widths of the RTL.                            *)
LEMMA Powers ==
  /\ Bits(0) = 1 /\ Bits(7) = 128 /\ Bits(8) = 256 /\ Bits(15) = 32768 /\ Bits(16) = 65536
  /\ Bits(24) = 16777216 /\ Bits(31) = 2147483648 /\ Bits(32) = 4294967296
  BY SMT DEF Bits

(* A lane is a signed number of its width (a0..a3, b0..b3).                 *)
LEMMA LaneRange ==
  ASSUME NEW word \in Nat, NEW i, NEW w, NEW half \in Nat \ {0},
         Bits(w - 1) = half, Bits(w) = 2 * half, Bits(i * w) \in Nat \ {0}
  PROVE  Lane(word, i, w) \in -half .. half - 1
<1> DEFINE v == (word \div Bits(i * w)) % Bits(w)
<1>1. word \div Bits(i * w) \in Nat
  BY SMT
<1>2. v \in 0 .. 2 * half - 1
  BY <1>1, SMT
<1> HIDE DEF v
<1>3. Signed(v, w) \in -half .. half - 1
  BY <1>2, SMT DEF Signed
<1>4. QED
  BY <1>3 DEF Lane, v

(* A product register of twice the width loses nothing (prod0..prod3).      *)
LEMMA ProductIsExact ==
  ASSUME NEW rs, rs[1] \in Nat, rs[2] \in Nat,
         NEW i, NEW w, NEW r, NEW half \in Nat \ {0}, Bits(i * w) \in Nat \ {0},
         Bits(w - 1) = half, Bits(w) = 2 * half,
         Bits(r - 1) = 2 * (half * half), Bits(r) = 4 * (half * half)
  PROVE  Term(rs, w, i) \in Int /\ Product(rs, i, w, r) = Term(rs, w, i)
<1> DEFINE x == Lane(rs[1], i, w)
           y == Lane(rs[2], i, w)
           sq == half * half
<1>1. x \in -half .. half - 1 /\ y \in -half .. half - 1
  BY LaneRange
<1> HIDE DEF x, y
<1>2. /\ x * y \in Int /\ sq \in Nat \ {0}
      /\ -sq <= x * y /\ x * y <= sq
  BY <1>1, ProductFits
<1> DEFINE p == x * y
<1>3. Bits(r - 1) = 2 * sq /\ Bits(r) = 2 * (2 * sq)
  BY <1>2, SMT
<1> HIDE DEF p, sq
<1>4. p \in -(2 * sq) .. 2 * sq - 1 /\ 2 * sq \in Nat \ {0}
  BY <1>2, SMT DEF p
<1>5. Signed(Truncate(p, r), r) = p
  BY <1>3, <1>4, SignedFits
<1>6. QED
  BY <1>4, <1>5 DEF Product, Term, p, x, y

(* pg.sdot4 of pg_xif_tinyml: four lanes of a byte and 16-bit products.     *)
LEMMA Sdot4IsExact ==
  ASSUME LaneBits = 8, NEW rs \in Word \X Word \X Word
  PROVE  Sdot4(rs) = DotProduct(4, LaneBits, rs)
<1> DEFINE w == LaneBits
           t(i) == Term(rs, w, i)
<1>1. WordBits = 32 /\ w = 8
  BY DEF WordBits
<1>2. rs[1] \in Nat /\ rs[2] \in Nat /\ rs[3] \in Nat
  BY <1>1, Powers DEF Word
<1> HIDE DEF w
<1>3. ASSUME NEW i \in 0 .. 3
      PROVE  t(i) \in Int /\ Product(rs, i, w, 2 * w) = t(i)
  <2>1. i * 8 \in {0, 8, 16, 24}
    BY SMT
  <2>2. Bits(i * 8) \in Nat \ {0}
    BY <2>1, Powers
  <2>3. Bits(8 - 1) = 128 /\ Bits(8) = 2 * 128
    BY Powers, 8 - 1 = 7
  <2>4. Bits(16 - 1) = 2 * (128 * 128) /\ Bits(16) = 4 * (128 * 128)
    BY Powers, 16 - 1 = 15
  <2>5. Term(rs, 8, i) \in Int /\ Product(rs, i, 8, 16) = Term(rs, 8, i)
    BY <1>2, <2>2, <2>3, <2>4, 128 \in Nat \ {0}, ProductIsExact
  <2>6. QED
    BY <1>1, <2>5, 2 * 8 = 16
<1>4. 0 \in 0 .. 3 /\ 1 \in 0 .. 3 /\ 2 \in 0 .. 3 /\ 3 \in 0 .. 3 /\ 4 - 1 = 3
  OBVIOUS
<1>5. MapThenSumSet(LAMBDA i : Lane(rs[1], i, w) * Lane(rs[2], i, w), 0 .. 3)
        = t(0) + t(1) + t(2) + t(3)
  <2>1. MapThenSumSet(LAMBDA i : Lane(rs[1], i, w) * Lane(rs[2], i, w), 0 .. 3)
          = Parts(rs, w, 0 .. 3)
    <3>1. \A k \in 0 .. 3 : Term(rs, w, k) \in Int
      BY <1>3
    <3>2. 3 \in 0 .. 3
      OBVIOUS
    <3>3. QED
      BY <3>1, <3>2, SumOfTerms, Zenon
  <2>2. Parts(rs, w, 0 .. 3) = t(0) + t(1) + t(2) + t(3)
    BY <1>4 DEF Parts, Part
  <2>3. QED
    BY <2>1, <2>2, Zenon
<1>6. Sdot4(rs) = Truncate(rs[3] + t(0) + t(1) + t(2) + t(3), WordBits)
  BY <1>3, <1>4 DEF Sdot4, w
<1>7. DotProduct(4, w, rs) = Truncate(rs[3] + (t(0) + t(1) + t(2) + t(3)), WordBits)
  BY <1>4, <1>5 DEF DotProduct
<1>8. rs[3] + t(0) + t(1) + t(2) + t(3) = rs[3] + (t(0) + t(1) + t(2) + t(3))
  BY <1>2, <1>3, <1>4, SMT
<1>9. QED
  BY <1>6, <1>7, <1>8 DEF w

(* pg.sdot2 of pg_xif_tinyml: two lanes of 16 bits and 32-bit products.     *)
LEMMA Sdot2IsExact ==
  ASSUME LaneBits = 8, NEW rs \in Word \X Word \X Word
  PROVE  Sdot2(rs) = DotProduct(2, 2 * LaneBits, rs)
<1> DEFINE w == 2 * LaneBits
           t(i) == Term(rs, w, i)
<1>1. WordBits = 32 /\ w = 16
  BY DEF WordBits
<1>2. rs[1] \in Nat /\ rs[2] \in Nat /\ rs[3] \in Nat
  BY <1>1, Powers DEF Word
<1> HIDE DEF w
<1>3. ASSUME NEW i \in 0 .. 1
      PROVE  t(i) \in Int /\ Product(rs, i, w, WordBits) = t(i)
  <2>1. i * 16 \in {0, 16}
    BY SMT
  <2>2. Bits(i * 16) \in Nat \ {0}
    BY <2>1, Powers
  <2>3. Bits(16 - 1) = 32768 /\ Bits(16) = 2 * 32768
    BY Powers, 16 - 1 = 15
  <2>4. Bits(32 - 1) = 2 * (32768 * 32768) /\ Bits(32) = 4 * (32768 * 32768)
    BY Powers, 32 - 1 = 31, SMT
  <2>5. Term(rs, 16, i) \in Int /\ Product(rs, i, 16, 32) = Term(rs, 16, i)
    BY <1>2, <2>2, <2>3, <2>4, 32768 \in Nat \ {0}, ProductIsExact
  <2>6. QED
    BY <1>1, <2>5
<1>4. 0 \in 0 .. 1 /\ 1 \in 0 .. 1 /\ 2 \notin 0 .. 1 /\ 3 \notin 0 .. 1 /\ 2 - 1 = 1 /\ 1 \in 0 .. 3
  OBVIOUS
<1>5. MapThenSumSet(LAMBDA i : Lane(rs[1], i, w) * Lane(rs[2], i, w), 0 .. 1) = t(0) + t(1)
  <2>1. MapThenSumSet(LAMBDA i : Lane(rs[1], i, w) * Lane(rs[2], i, w), 0 .. 1)
          = Parts(rs, w, 0 .. 1)
    <3>1. \A k \in 0 .. 1 : Term(rs, w, k) \in Int
      BY <1>3
    <3>2. QED
      BY <3>1, <1>4, SumOfTerms, Zenon
  <2>2. Parts(rs, w, 0 .. 1) = t(0) + t(1)
    BY <1>3, <1>4, SMT DEF Parts, Part
  <2>3. QED
    BY <2>1, <2>2, Zenon
<1>6. Sdot2(rs) = Truncate(rs[3] + t(0) + t(1), WordBits)
  BY <1>3, <1>4 DEF Sdot2, w
<1>7. DotProduct(2, w, rs) = Truncate(rs[3] + (t(0) + t(1)), WordBits)
  BY <1>4, <1>5 DEF DotProduct
<1>8. rs[3] + t(0) + t(1) = rs[3] + (t(0) + t(1))
  BY <1>2, <1>3, <1>4, SMT
<1>9. QED
  BY <1>6, <1>7, <1>8 DEF w

(* pg.mac of pg_xif_mac: the low word of the product of unsigned operands is *)
(* that of the signed ones.                                                 *)
LEMMA MacIsExact ==
  ASSUME LaneBits = 8, NEW rs \in Word \X Word \X Word
  PROVE  Mac(rs) = DotProduct(1, WordBits, rs)
<1> DEFINE w == WordBits
           b == Bits(w)
           s1 == Lane(rs[1], 0, w)
           s2 == Lane(rs[2], 0, w)
<1>1. w = 32 /\ Bits(w - 1) = 2147483648 /\ b = 4294967296 /\ Bits(0 * w) = 1
  <2>1. w = 32
    BY DEF WordBits
  <2>2. w - 1 = 31 /\ 0 * w = 0
    BY <2>1
  <2>3. QED
    BY <2>1, <2>2, Powers, SMT
<1>2. rs[1] \in 0 .. b - 1 /\ rs[2] \in 0 .. b - 1 /\ rs[3] \in 0 .. b - 1
  BY DEF Word
<1>3. ASSUME NEW v \in 0 .. b - 1
      PROVE  \E k \in {0, 1} : Lane(v, 0, w) \in Int /\ v = Lane(v, 0, w) + k * b
  <2>1. v \div 1 = v /\ v % b = v
    BY <1>1, SMT
  <2>2. Lane(v, 0, w) = Signed(v, w)
    BY <1>1, <2>1 DEF Lane
  <2>3. QED
    BY <1>1, <2>2, SMT DEF Signed
<1> HIDE DEF w
<1>4. PICK k1 \in {0, 1} : s1 \in Int /\ rs[1] = s1 + k1 * b
  BY <1>2, <1>3
<1>5. PICK k2 \in {0, 1} : s2 \in Int /\ rs[2] = s2 + k2 * b
  BY <1>2, <1>3
<1>6. b \in Nat \ {0}
  BY <1>1, SMT
<1> HIDE DEF b, s1, s2
<1> DEFINE k == s1 * k2 + s2 * k1 + k1 * k2 * b
<1>7. k \in Int /\ s1 * s2 \in Int /\ rs[3] \in Int
  BY <1>2, <1>4, <1>5, <1>6, SMT
<1>8. rs[1] * rs[2] = s1 * s2 + k * b
  <2>1. k1 \in Int /\ k2 \in Int
    OBVIOUS
  <2>2. rs[1] * rs[2] = (s1 + k1 * b) * (s2 + k2 * b)
    BY <1>4, <1>5
  <2>3. (s1 + k1 * b) * (s2 + k2 * b) = s1 * s2 + k * b
    BY <1>4, <1>5, <1>6, SMT
  <2>4. QED
    BY <2>2, <2>3
<1> HIDE DEF k
<1>9. rs[3] + rs[1] * rs[2] = (rs[3] + s1 * s2) + k * b
  BY <1>7, <1>8, <1>6, SMT
<1>10. ((rs[3] + s1 * s2) + k * b) % b = (rs[3] + s1 * s2) % b
  <2>1. rs[3] + s1 * s2 \in Int
    BY <1>7
  <2>2. QED
    BY <2>1, <1>6, <1>7, ModAdd, Zenon
<1>11. Mac(rs) = Truncate(rs[3] + s1 * s2, w)
  BY <1>9, <1>10 DEF Mac, Truncate, w, b
<1>12. Term(rs, w, 0) = s1 * s2
  BY DEF Term, s1, s2
<1>13. MapThenSumSet(LAMBDA i : Lane(rs[1], i, w) * Lane(rs[2], i, w), 0 .. 0) = s1 * s2
  <2>1. \A i \in 0 .. 0 : Term(rs, w, i) \in Int
    BY <1>7, <1>12
  <2>2. MapThenSumSet(LAMBDA i : Lane(rs[1], i, w) * Lane(rs[2], i, w), 0 .. 0)
          = Parts(rs, w, 0 .. 0)
    <3>1. 0 \in 0 .. 3
      OBVIOUS
    <3>2. QED
      BY <2>1, <3>1, SumOfTerms, Zenon
  <2>3. 0 \in 0 .. 0 /\ 1 \notin 0 .. 0 /\ 2 \notin 0 .. 0 /\ 3 \notin 0 .. 0
    OBVIOUS
  <2>4. Parts(rs, w, 0 .. 0) = s1 * s2
    BY <1>7, <1>12, <2>3, SMT DEF Parts, Part
  <2>5. QED
    BY <2>2, <2>4, Zenon
<1>14. DotProduct(1, w, rs) = Truncate(rs[3] + s1 * s2, w)
  <2>1. 1 - 1 = 0
    OBVIOUS
  <2>2. QED
    BY <1>13, <2>1, Zenon DEF DotProduct, w
<1>15. QED
  BY <1>11, <1>14 DEF w

(* What the core is offered is the exact dot product, cut to a word, of the *)
(* operands of the issue (pg_xif_mac, pg_xif_tinyml): neither the widths of *)
(* the products nor the signs of the lanes lose anything, for all words of  *)
(* 32 bits.                                                                 *)
THEOREM ResultExact ==
  ASSUME LaneBits = 8
  PROVE  Spec => []ExactDotProduct
<1>1. ASSUME NEW op \in {"mac", "sdot4", "sdot2"}, NEW rs \in Word \X Word \X Word
      PROVE  ComputeResult(op, rs) = Promised(op, rs)
  <2>1. Mac(rs) = DotProduct(1, WordBits, rs)
    BY MacIsExact
  <2>2. Sdot4(rs) = DotProduct(4, LaneBits, rs)
    BY Sdot4IsExact
  <2>3. Sdot2(rs) = DotProduct(2, 2 * LaneBits, rs)
    BY Sdot2IsExact
  <2>4. QED
    BY <2>1, <2>2, <2>3 DEF ComputeResult, Promised
<1>2. Inv => ExactDotProduct
  <2> SUFFICES ASSUME Inv, pending PROVE resData = Promised(flight.op, flight.rs)
    BY DEF ExactDotProduct
  <2>1. flight \in InFlight
    BY DEF Inv, TypeOK, CoreTypeOK, BusyIffInFlight
  <2>2. flight.op \in {"mac", "sdot4", "sdot2"}
    BY SupportedAssumption DEF Inv, HoldsFlight
  <2>3. flight.rs \in Word \X Word \X Word
    BY <2>1, OperandsAssumption DEF InFlight
  <2>4. resData = ComputeResult(flight.op, flight.rs)
    BY DEF Inv, HoldsFlight
  <2>5. QED
    BY <1>1, <2>2, <2>3, <2>4
<1>3. QED
  BY <1>2, Invariance, PTL
=============================================================================
