------------------------- MODULE RvalidStall_proofs ------------------------
(***************************************************************************)
(* Proofs about riscv_rvalid_stall, for every depth, every delay range and *)
(* every set of values: the FIFO never overfills and it implements the     *)
(* response queue.                                                         *)
(***************************************************************************)
EXTENDS RvalidStall, SequenceTheorems, TLAPS

(* The occupancy bound is what the refinement rests on: below Depth, the    *)
(* slot that is pushed is none of the occupied ones.                        *)
Bounded == Occupied <= MaxOutstanding

Inv == TypeOK /\ Bounded

USE DepthAssumption, DelayAssumption, OutstandingAssumption

-----------------------------------------------------------------------------
(* Pointer arithmetic. *)

(* A pointer that is advanced is a pointer.                                 *)
LEMMA AdvanceType ==
  ASSUME NEW p \in Pointer, NEW k \in 0 .. 2 * Depth - 1
  PROVE  Advance(p, k) \in Pointer
  BY DEF Pointer, Advance

(* Advancing by one and then by k is advancing by k + 1, wrap included.     *)
LEMMA AdvanceTwice ==
  ASSUME NEW p \in Pointer, NEW k \in 0 .. 2 * Depth - 2
  PROVE  Advance(Advance(p, 1), k) = Advance(p, k + 1)
  BY DEF Pointer, Advance

(* The slot of a pointer is one of the slots.                               *)
LEMMA SlotOfType ==
  ASSUME NEW p \in Pointer
  PROVE  SlotOf(p) \in Slots
  BY DEF Pointer, Slots, SlotOf

(* The distance of two pointers is within a lap and leads back to the       *)
(* first.                                                                   *)
LEMMA DistanceType ==
  ASSUME NEW p \in Pointer, NEW q \in Pointer
  PROVE  /\ Distance(p, q) \in 0 .. 2 * Depth - 1
         /\ Distance(p, q) = 0 <=> p = q
         /\ Advance(q, Distance(p, q)) = p
  BY DEF Pointer, Distance, Advance

(* Pushing makes the distance one larger.                                   *)
LEMMA DistanceUp ==
  ASSUME NEW p \in Pointer, NEW q \in Pointer, Distance(p, q) < 2 * Depth - 1
  PROVE  Distance(Advance(p, 1), q) = Distance(p, q) + 1
  BY DEF Pointer, Distance, Advance

(* Popping makes the distance one smaller.                                  *)
LEMMA DistanceDown ==
  ASSUME NEW p \in Pointer, NEW q \in Pointer, p # q
  PROVE  Distance(p, Advance(q, 1)) = Distance(p, q) - 1
  BY DEF Pointer, Distance, Advance

(* The slots of fewer than Depth consecutive pointers differ. *)
LEMMA SlotsDiffer ==
  ASSUME NEW p \in Pointer, NEW q \in Pointer, Distance(p, q) < Depth,
         NEW k \in 0 .. Distance(p, q) - 1
  PROVE  SlotOf(Advance(q, k)) # SlotOf(p)
  BY DEF Pointer, Distance, Advance, SlotOf

-----------------------------------------------------------------------------
(* The three writes to the slots keep their type. *)

(* A push, a late value and a countdown keep the slots within their type.   *)
LEMMA FifoType ==
  ASSUME TypeOK, NEW push \in BOOLEAN, NEW w \in BOOLEAN, NEW d \in 0 .. MaxDelay
  PROVE  CountedDown(Arrived(Pushed(push, w, d))) \in [Slots -> Slot]
<1>1. SlotOf(wptr) \in Slots /\ SlotOf(rptr) \in Slots
  BY SlotOfType DEF TypeOK
<1>2. Pushed(push, w, d) \in [Slots -> Slot]
  BY <1>1, ZeroAssumption DEF TypeOK, Pushed, Slot
<1>3. ASSUME NEW f \in [Slots -> Slot]
      PROVE  Arrived(f) \in [Slots -> Slot]
  BY ZeroAssumption DEF TypeOK, Arrived, Slot
<1>4. ASSUME NEW f \in [Slots -> Slot]
      PROVE  CountedDown(f) \in [Slots -> Slot]
  <2>1. CurrentDelay \in 0 .. MaxDelay
    BY <1>1 DEF TypeOK, CurrentDelay, Slot
  <2>2. CurrentDelay > 0 => CurrentDelay - 1 \in 0 .. MaxDelay
    BY <2>1
  <2>3. QED
    BY <1>1, <2>2 DEF CountedDown, Slot
<1>5. QED
  BY <1>2, <1>3, <1>4

(* Every edge of the FIFO keeps the types.                                  *)
LEMMA StepTypeOK ==
  ASSUME TypeOK, NEW push \in BOOLEAN, NEW w \in BOOLEAN, NEW d \in 0 .. MaxDelay,
         FifoTick(push, w, d), rdata' \in Data
  PROVE  TypeOK'
<1>1. wptr' \in Pointer /\ rptr' \in Pointer
  BY AdvanceType DEF TypeOK, FifoTick
<1>2. fifo' \in [Slots -> Slot]
  BY FifoType DEF FifoTick
<1>3. wptrRdata' \in Slots /\ rvalidIQ' \in BOOLEAN
  BY SlotOfType DEF TypeOK, FifoTick
<1>4. QED
  BY <1>1, <1>2, <1>3 DEF TypeOK

-----------------------------------------------------------------------------
(* The occupancy after an edge. *)

(* An edge changes the occupancy by its push and its answer.                *)
LEMMA StepOccupied ==
  ASSUME Inv, NEW push \in BOOLEAN, NEW w \in BOOLEAN, NEW d \in 0 .. MaxDelay,
         FifoTick(push, w, d), push => InFlight < MaxOutstanding
  PROVE  /\ Occupied' = IF push THEN InFlight + 1 ELSE InFlight
         /\ InFlight \in Nat
<1>1. wptr \in Pointer /\ rptr \in Pointer
  BY DEF Inv, TypeOK
<1>2. Occupied \in 0 .. Depth - 1
  BY <1>1, DistanceType DEF Inv, Bounded, Occupied
<1>3. Rvalid => wptr # rptr
  BY DEF Rvalid, Empty
<1>4. InFlight = Distance(wptr, rptr') /\ rptr' \in Pointer
  BY <1>1, <1>3, DistanceDown, AdvanceType DEF InFlight, FifoTick, Occupied
<1>5. InFlight \in 0 .. Depth - 1
  BY <1>1, <1>2, <1>3, DistanceType DEF InFlight, Occupied
<1>6. Distance(wptr', rptr') = IF push THEN InFlight + 1 ELSE InFlight
  BY <1>1, <1>4, <1>5, DistanceUp DEF FifoTick
<1>7. QED
  BY <1>5, <1>6 DEF Occupied

(* The reset establishes the invariant, whatever the registers without a    *)
(* reset hold.                                                              *)
LEMMA InitInv == Init => Inv
<1> SUFFICES ASSUME Init PROVE Inv
  OBVIOUS
<1>1. TypeOK
  <2>1. fifo \in [Slots -> Slot]
    BY ZeroAssumption DEF Init, FifoInit, Slot
  <2>2. wptrRdata \in Slots /\ rvalidIQ \in BOOLEAN
    BY PowerUpAssumption DEF PowerUpAny, Init, FifoInit, Slots
  <2>3. wptr \in Pointer /\ rptr \in Pointer /\ rdata \in Data
    BY DEF Init, FifoInit, Pointer
  <2>4. QED
    BY <2>1, <2>2, <2>3 DEF TypeOK
<1>2. Bounded
  BY DEF Init, FifoInit, Bounded, Occupied, Distance
<1>3. QED
  BY <1>1, <1>2 DEF Inv

(* Every step is an edge of the FIFO with a push the core has room for. *)
LEMMA NextIsEdge ==
  ASSUME Next
  PROVE  \E push \in BOOLEAN, w \in BOOLEAN, d \in 0 .. MaxDelay :
           /\ FifoTick(push, w, d)
           /\ push => InFlight < MaxOutstanding
           /\ rdata' \in Data
<1>1. CASE NoAccess
  <2>1. 0 \in 0 .. MaxDelay
    OBVIOUS
  <2>2. QED
    BY <1>1, <2>1 DEF NoAccess
<1>2. CASE \E w \in BOOLEAN, d \in 0 .. MaxDelay : Access(w, d)
  BY <1>2 DEF Access
<1>3. QED
  BY <1>1, <1>2 DEF Next

(* An edge with a push the core has room for keeps the invariant.           *)
LEMMA EdgeInv ==
  ASSUME Inv, NEW push \in BOOLEAN, NEW w \in BOOLEAN, NEW d \in 0 .. MaxDelay,
         FifoTick(push, w, d), push => InFlight < MaxOutstanding, rdata' \in Data
  PROVE  Inv'
<1>1. TypeOK'
  BY StepTypeOK DEF Inv
<1>2. Bounded'
  <2>1. /\ Occupied' = IF push THEN InFlight + 1 ELSE InFlight
        /\ InFlight \in Nat
    BY StepOccupied
  <2>2. ~push => InFlight <= MaxOutstanding
    BY <2>1, DistanceType DEF Inv, Bounded, TypeOK, InFlight, Occupied
  <2>3. QED
    BY <2>1, <2>2 DEF Bounded
<1>3. QED
  BY <1>1, <1>2 DEF Inv

(* Every step keeps the invariant.                                          *)
LEMMA StepInv == Inv /\ [Next]_vars => Inv'
<1> SUFFICES ASSUME Inv, [Next]_vars PROVE Inv'
  OBVIOUS
<1>1. CASE Next
  BY <1>1, NextIsEdge, EdgeInv
<1>2. CASE UNCHANGED vars
  BY <1>2 DEF vars, fifoVars, Inv, TypeOK, Bounded, Occupied
<1>3. QED
  BY <1>1, <1>2

(* The pointers, the slots and the late value stay within their types, and  *)
(* the occupancy never reaches the depth although nothing looks at          *)
(* fifo_full.                                                               *)
THEOREM Invariance == Spec => []Inv
  BY InitInv, StepInv, PTL DEF Spec

(* Type correctness, the invariant the runs check. *)
THEOREM TypeCorrect == Spec => []TypeOK
<1>1. Inv => TypeOK
  BY DEF Inv
<1>2. QED
  BY <1>1, Invariance, PTL

-----------------------------------------------------------------------------
(* The refinement.  The values owed, one by one: those that stay occupied   *)
(* keep their value, the one that is pushed is owed zero or the next rdata. *)

(* The k-th owed value is that of the k-th slot from the front.             *)
LEMMA OwedValue ==
  ASSUME TypeOK, NEW s \in Slots
  PROVE  ValueOf(s) \in Data
  BY ZeroAssumption DEF TypeOK, ValueOf, Slot

(* As many values are owed as slots are occupied.                           *)
LEMMA OwedType == TypeOK => Owed \in Seq(Data) /\ Len(Owed) = Occupied
<1> SUFFICES ASSUME TypeOK PROVE Owed \in Seq(Data) /\ Len(Owed) = Occupied
  OBVIOUS
<1>1. Occupied \in Nat /\ Occupied < 2 * Depth
  BY DistanceType DEF TypeOK, Occupied
<1>2. ASSUME NEW k \in 1 .. Occupied
      PROVE  ValueOf(SlotOf(Advance(rptr, k - 1))) \in Data
  <2>1. k - 1 \in 0 .. 2 * Depth - 1
    BY <1>1
  <2>2. QED
    BY <2>1, AdvanceType, SlotOfType, OwedValue DEF TypeOK
<1>3. QED
  BY <1>1, <1>2 DEF Owed

(* A slot that is not pushed keeps its value, late values included.         *)
LEMMA KeptValue ==
  ASSUME TypeOK, NEW push \in BOOLEAN, NEW w \in BOOLEAN, NEW d \in 0 .. MaxDelay,
         FifoTick(push, w, d), NEW s \in Slots, push => s # SlotOf(wptr)
  PROVE  ValueOf(s)' = ValueOf(s)
<1>1. ValueOf(s)' = fifo'[s].data
  BY DEF FifoTick, ValueOf
<1>2. Pushed(push, w, d) \in [Slots -> Slot] /\ Pushed(push, w, d)[s] = fifo[s]
  BY SlotOfType, ZeroAssumption DEF TypeOK, Pushed, Slot
<1>3. ASSUME NEW f \in [Slots -> Slot], f[s] = fifo[s]
      PROVE  Arrived(f) \in [Slots -> Slot] /\ Arrived(f)[s].data = ValueOf(s)
  BY <1>3, ZeroAssumption DEF TypeOK, Arrived, ValueOf, Slot
<1>4. ASSUME NEW f \in [Slots -> Slot]
      PROVE  CountedDown(f)[s].data = f[s].data
  BY DEF CountedDown, Slot
<1>5. QED
  BY <1>1, <1>2, <1>3, <1>4 DEF FifoTick

(* The pushed slot is owed zero for a write and the next rdata for a read,  *)
(* also when the slot still receives a late value of an earlier access.     *)
LEMMA PushedValue ==
  ASSUME TypeOK, NEW w \in BOOLEAN, NEW d \in 0 .. MaxDelay, FifoTick(TRUE, w, d),
         NEW s \in Slots, s = SlotOf(wptr)
  PROVE  ValueOf(s)' = IF w THEN Zero ELSE rdata'
<1> DEFINE pushed == Pushed(TRUE, w, d)
<1>1. pushed \in [Slots -> Slot] /\ pushed[s] = [we |-> w, delay |-> d, data |-> Zero]
  BY ZeroAssumption DEF TypeOK, Pushed, Slot
<1>2. ASSUME NEW f \in [Slots -> Slot]
      PROVE  /\ Arrived(f) \in [Slots -> Slot]
             /\ Arrived(f)[s].we = f[s].we
             /\ f[s].we /\ f[s].data = Zero => Arrived(f)[s].data = Zero
  <2>1. CASE rvalidIQ
    <3> DEFINE late == IF f[wptrRdata].we THEN Zero ELSE rdata
    <3>1. wptrRdata \in Slots /\ late \in Data
      BY ZeroAssumption DEF TypeOK
    <3>2. Arrived(f) = [f EXCEPT ![wptrRdata].data = late]
      BY <2>1 DEF Arrived
    <3>3. s = wptrRdata /\ f[s].we => late = Zero
      OBVIOUS
    <3> HIDE DEF late
    <3>4. QED
      BY <3>1, <3>2, <3>3 DEF Slot
  <2>2. CASE ~rvalidIQ
    BY <2>2 DEF Arrived
  <2>3. QED
    BY <2>1, <2>2
<1>3. ASSUME NEW f \in [Slots -> Slot]
      PROVE  CountedDown(f)[s].data = f[s].data /\ CountedDown(f)[s].we = f[s].we
  BY DEF CountedDown, Slot
<1>4. fifo'[s].we = w /\ (w => fifo'[s].data = Zero)
  <2> HIDE DEF pushed
  <2>1. fifo' = CountedDown(Arrived(pushed))
    BY DEF FifoTick, pushed
  <2>2. pushed[s].we = w /\ pushed[s].data = Zero
    BY <1>1
  <2>3. /\ Arrived(pushed) \in [Slots -> Slot]
        /\ Arrived(pushed)[s].we = w
        /\ w => Arrived(pushed)[s].data = Zero
    BY <1>1, <1>2, <2>2
  <2>4. QED
    BY <1>3, <2>1, <2>3
<1>5. QED
  BY <1>4 DEF FifoTick, ValueOf

-----------------------------------------------------------------------------
(* The owed values as sequences. *)

(* What is still owed after the response on the bus is consumed, with its   *)
(* values taken in the next state.                                          *)
LEMMA Remaining ==
  ASSUME Inv, NEW push \in BOOLEAN, NEW w \in BOOLEAN, NEW d \in 0 .. MaxDelay,
         FifoTick(push, w, d), push => InFlight < MaxOutstanding
  PROVE  /\ Queue!Unanswered \in Seq(Data)
         /\ Len(Queue!Unanswered) = InFlight
         /\ \A k \in 1 .. InFlight : Owed'[k] = Queue!Unanswered[k]
<1> USE DEF Inv
<1>1. /\ Occupied' = IF push THEN InFlight + 1 ELSE InFlight
      /\ InFlight \in Nat
  BY StepOccupied
<1>2. Owed \in Seq(Data) /\ Len(Owed) = Occupied
  BY OwedType
<1>3. Occupied \in 0 .. Depth - 1
  BY DistanceType DEF TypeOK, Bounded, Occupied
<1>4. Rvalid => Occupied > 0
  BY <1>3, DistanceType DEF TypeOK, Rvalid, Empty, Occupied
<1>5. Queue!Unanswered = IF Rvalid THEN Tail(Owed) ELSE Owed
  BY DEF Queue!Unanswered
<1>6. Queue!Unanswered \in Seq(Data) /\ Len(Queue!Unanswered) = InFlight
  BY <1>2, <1>4, <1>5 DEF InFlight
<1>7. ASSUME NEW k \in 1 .. InFlight
      PROVE  Owed'[k] = Queue!Unanswered[k]
  <2>1. PICK j \in 1 .. Occupied : j = IF Rvalid THEN k + 1 ELSE k
    BY <1>3, <1>4 DEF InFlight
  <2>2. Queue!Unanswered[k] = Owed[j]
    BY <1>2, <1>4, <1>5, <1>6, <2>1, HeadTailProperties
  <2>3. PICK s \in Slots : s = SlotOf(Advance(rptr, j - 1))
    BY <1>3, <2>1, AdvanceType, SlotOfType DEF TypeOK
  <2>4. Owed[j] = ValueOf(s)
    BY <2>3 DEF Owed
  <2>5. Advance(rptr', k - 1) = Advance(rptr, j - 1)
    <3>1. CASE Rvalid
      <4>1. rptr' = Advance(rptr, 1) /\ j = k + 1 /\ k - 1 \in 0 .. 2 * Depth - 2
        BY <1>3, <2>1, <3>1 DEF FifoTick
      <4>2. QED
        BY <4>1, AdvanceTwice DEF TypeOK
    <3>2. CASE ~Rvalid
      BY <2>1, <3>2 DEF FifoTick
    <3>3. QED
      BY <3>1, <3>2
  <2>6. Owed'[k] = ValueOf(s)'
    BY <1>1, <2>3, <2>5 DEF Owed, ValueOf
  <2>7. push => s # SlotOf(wptr)
    BY <1>3, <2>3, SlotsDiffer DEF TypeOK, Occupied
  <2>8. QED
    BY <2>2, <2>4, <2>6, <2>7, KeptValue
<1>8. QED
  BY <1>6, <1>7

(* An edge accepts the pushed access into the queue, or none.               *)
LEMMA StepOwed ==
  ASSUME Inv, NEW push \in BOOLEAN, NEW w \in BOOLEAN, NEW d \in 0 .. MaxDelay,
         FifoTick(push, w, d), push => InFlight < MaxOutstanding, rdata' \in Data
  PROVE  Owed' = IF push
                 THEN Append(Queue!Unanswered, IF w THEN Zero ELSE rdata')
                 ELSE Queue!Unanswered
<1> DEFINE rest == Queue!Unanswered
           v == IF w THEN Zero ELSE rdata'
<1>1. TypeOK'
  BY StepTypeOK DEF Inv
<1>2. Owed' \in Seq(Data) /\ Len(Owed') = Occupied'
  <2>1. (TypeOK => Owed \in Seq(Data) /\ Len(Owed) = Occupied)'
    BY OwedType, PTL
  <2>2. QED
    BY <1>1, <2>1
<1>3. /\ Occupied' = IF push THEN InFlight + 1 ELSE InFlight
      /\ InFlight \in Nat
  BY StepOccupied
<1>4. /\ rest \in Seq(Data)
      /\ Len(rest) = InFlight
      /\ \A k \in 1 .. InFlight : Owed'[k] = rest[k]
  BY Remaining
<1> HIDE DEF rest
<1>5. CASE ~push
  <2>1. Owed' = rest
    BY <1>2, <1>3, <1>4, <1>5, SeqEqual
  <2>2. QED
    BY <1>5, <2>1 DEF rest
<1>6. CASE push
  <2>1. v \in Data
    BY ZeroAssumption
  <2>2. Owed'[InFlight + 1] = v
    <3>1. PICK s \in Slots : s = SlotOf(wptr)
      BY SlotOfType DEF Inv, TypeOK
    <3>2. Advance(rptr', InFlight) = wptr
      <4>1. InFlight = Distance(wptr, rptr') /\ rptr' \in Pointer
        BY DistanceDown, AdvanceType
           DEF Inv, TypeOK, InFlight, FifoTick, Occupied, Rvalid, Empty
      <4>2. QED
        BY <4>1, DistanceType DEF Inv, TypeOK
    <3>3. InFlight + 1 \in 1 .. Occupied' /\ (InFlight + 1) - 1 = InFlight
      BY <1>3, <1>6
    <3>4. Owed'[InFlight + 1] = ValueOf(s)'
      BY <3>1, <3>2, <3>3 DEF Owed, ValueOf
    <3>5. FifoTick(TRUE, w, d)
      BY <1>6
    <3>6. QED
      BY <3>1, <3>4, <3>5, PushedValue DEF Inv
  <2> HIDE DEF v
  <2>3. /\ Append(rest, v) \in Seq(Data)
        /\ Len(Append(rest, v)) = InFlight + 1
        /\ \A k \in 1 .. InFlight : Append(rest, v)[k] = rest[k]
        /\ Append(rest, v)[InFlight + 1] = v
    BY <1>4, <2>1, AppendProperties
  <2>4. \A k \in 1 .. InFlight + 1 : Owed'[k] = Append(rest, v)[k]
    BY <1>3, <1>4, <2>2, <2>3
  <2>5. Owed' = Append(rest, v)
    BY <1>2, <1>3, <1>6, <2>3, <2>4, SeqEqual
  <2>6. QED
    BY <1>6, <2>5 DEF rest, v
<1>7. QED
  BY <1>5, <1>6

(* What is on the bus is the oldest value owed. *)
LEMMA OnTheBus == TypeOK /\ Rvalid => Owed # << >> /\ RdataO = Head(Owed)
<1> SUFFICES ASSUME TypeOK, Rvalid PROVE Owed # << >> /\ RdataO = Head(Owed)
  OBVIOUS
<1>1. Occupied \in Nat /\ Occupied > 0
  BY DistanceType DEF TypeOK, Rvalid, Empty, Occupied
<1>2. Owed \in Seq(Data) /\ Len(Owed) = Occupied
  BY OwedType
<1>3. Owed[1] = ValueOf(SlotOf(Advance(rptr, 0)))
  BY <1>1 DEF Owed
<1>4. Advance(rptr, 0) = rptr
  BY DEF TypeOK, Pointer, Advance
<1>5. QED
  BY <1>1, <1>2, <1>3, <1>4 DEF RdataO

(* Initially nothing is owed and nothing is answered.                       *)
LEMMA InitQueue == Init => Queue!Init
<1> SUFFICES ASSUME Init PROVE Queue!Init
  OBVIOUS
<1>1. Occupied = 0 /\ ~Rvalid
  BY DEF Init, FifoInit, Occupied, Distance, Rvalid, Empty
<1>2. Owed = << >>
  BY <1>1, InitInv, OwedType, EmptySeq DEF Inv
<1>3. QED
  BY <1>1, <1>2 DEF Queue!Init

(* Every step of the FIFO is a step of the queue, or changes nothing the    *)
(* queue sees.                                                              *)
LEMMA StepQueue == Inv /\ Inv' /\ [Next]_vars => [Queue!Next]_(Queue!vars)
<1> SUFFICES ASSUME Inv, Inv', [Next]_vars PROVE [Queue!Next]_(Queue!vars)
  OBVIOUS
<1>1. CASE Next
  <2>1. PICK push \in BOOLEAN, w \in BOOLEAN, d \in 0 .. MaxDelay :
          /\ FifoTick(push, w, d)
          /\ push => InFlight < MaxOutstanding
          /\ rdata' \in Data
    BY <1>1, NextIsEdge
  <2>2. Owed' = IF push
                THEN Append(Queue!Unanswered, IF w THEN Zero ELSE rdata')
                ELSE Queue!Unanswered
    BY <2>1, StepOwed
  <2>3. Queue!Offer
    <3>1. (TypeOK /\ Rvalid => Owed # << >> /\ RdataO = Head(Owed))'
      BY OnTheBus, PTL
    <3>2. QED
      BY <3>1 DEF Inv, Queue!Offer
  <2>4. QED
    BY <2>2, <2>3 DEF Queue!Next, Queue!Quiet, Queue!Accept
<1>2. CASE UNCHANGED vars
  BY <1>2 DEF vars, fifoVars, Queue!vars, Owed, Occupied, Rvalid, RdataO, ValueOf,
              Empty, CurrentDelay
<1>3. QED
  BY <1>1, <1>2

(* The response FIFO implements the response queue: every accepted access   *)
(* is answered once, in order, with the value owed to it, for every depth,  *)
(* delay and value, as long as the core keeps fewer accesses in flight than *)
(* there are slots.                                                         *)
THEOREM Implements == Spec => AnswersInOrder
  BY InitQueue, StepQueue, Invariance, PTL DEF Spec, AnswersInOrder, Queue!Spec
=============================================================================
