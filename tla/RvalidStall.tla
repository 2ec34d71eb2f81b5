---------------------------- MODULE RvalidStall ----------------------------
(***************************************************************************)
(* The response FIFO of tb_riscv/riscv_rvalid_stall.sv, one per OBI port   *)
(* of mm_ram.  A granted access takes a slot with a delay; the value read  *)
(* from the RAM arrives one cycle later and is written into that slot or,  *)
(* when the slot is already being answered, bypassed to the bus.           *)
(*                                                                         *)
(* One step is one clock edge; a state holds the registers and the settled *)
(* combinational signals of one cycle.                                     *)
(***************************************************************************)
EXTENDS Integers, Sequences

CONSTANTS
  Depth,          \* FIFO_DEPTH (8 in the code): number of slots.
  MaxDelay,       \* Largest delay loaded into a slot (15: four bits).
  MaxOutstanding, \* Accesses the core keeps in flight (2 in the CV32E40X).
  PowerUp,        \* What <<wptr_rdata, rvalid_i_q>>, which have no reset,
                  \*   may hold when the reset is released.
  Data,           \* Values a response can carry.
  Zero            \* The 32'h0 that a slot is pushed with.

ASSUME DepthAssumption == Depth \in Nat
ASSUME DelayAssumption == MaxDelay \in Nat
(* riscv_rvalid_stall never looks at fifo_full, so the core's limit must    *)
(* stay below the depth.                                                    *)
ASSUME OutstandingAssumption == MaxOutstanding \in 1 .. Depth - 1
(* Registers without reset hold anything when the reset is released. *)
PowerUpAny == (0 .. Depth - 1) \X BOOLEAN

ASSUME PowerUpAssumption == PowerUp \subseteq PowerUpAny
ASSUME ZeroAssumption == Zero \in Data

VARIABLES
  wptr,      \* Write pointer, one bit wider than a slot number.
  rptr,      \* Read pointer, likewise.
  fifo,      \* The slots.
  wptrRdata, \* wptr_rdata: the slot whose value arrives in this cycle.
  rvalidIQ,  \* rvalid_i_q: a value arrives in this cycle.
  rdata      \* rdata_i: the value the RAM presents in this cycle.

fifoVars == <<wptr, rptr, fifo, wptrRdata, rvalidIQ>>
vars == <<fifoVars, rdata>>

Pointer == 0 .. 2 * Depth - 1
Slots == 0 .. Depth - 1
Slot == [we : BOOLEAN, delay : 0 .. MaxDelay, data : Data]

(* Pointers stay within a lap and slots, delays and values within their     *)
(* ranges.                                                                  *)
TypeOK ==
  /\ wptr \in Pointer
  /\ rptr \in Pointer
  /\ fifo \in [Slots -> Slot]
  /\ wptrRdata \in Slots
  /\ rvalidIQ \in BOOLEAN
  /\ rdata \in Data

-----------------------------------------------------------------------------
(* Pointer arithmetic: FIFO_PTR_WL bits wrap at 2*Depth, and the slot is    *)
(* the pointer without its top bit.                                         *)

Advance(p, k) == IF p + k < 2 * Depth THEN p + k ELSE p + k - 2 * Depth
SlotOf(p) == IF p < Depth THEN p ELSE p - Depth

(* How far pointer q is behind pointer p. *)
Distance(p, q) == IF q <= p THEN p - q ELSE p + 2 * Depth - q

Empty == wptr = rptr
Occupied == Distance(wptr, rptr)

-----------------------------------------------------------------------------
(* The response bus. *)

CurrentDelay == fifo[SlotOf(rptr)].delay

Rvalid == ~Empty /\ CurrentDelay = 0

(* The value slot s holds or is receiving in this cycle. *)
ValueOf(s) ==
  IF rvalidIQ /\ s = wptrRdata
  THEN IF fifo[s].we THEN Zero ELSE rdata
  ELSE fifo[s].data

RdataO == IF Rvalid THEN ValueOf(SlotOf(rptr)) ELSE Zero

-----------------------------------------------------------------------------
(* The clock edge: push is req_i && gnt_i, w is we_i, d the delay drawn for *)
(* the access.                                                              *)

(* The push is a blocking assignment, so the two non-blocking updates of    *)
(* the edge see the pushed slot.                                            *)
Pushed(push, w, d) ==
  IF push
  THEN [fifo EXCEPT ![SlotOf(wptr)] = [we |-> w, delay |-> d, data |-> Zero]]
  ELSE fifo

(* Mutant: the value of an arriving read is stored even in a write's slot. *)
ArrivedIgnoresWe(f) ==
  IF rvalidIQ THEN [f EXCEPT ![wptrRdata].data = rdata] ELSE f

Arrived(f) ==
  IF rvalidIQ
  THEN [f EXCEPT ![wptrRdata].data = IF f[wptrRdata].we THEN Zero ELSE rdata]
  ELSE f

(* Mutant: the delay of the slot last written counts down, not the oldest's. *)
CountedDownNewest(f) ==
  IF ~Empty /\ f[wptrRdata].delay > 0
  THEN [f EXCEPT ![wptrRdata].delay = f[wptrRdata].delay - 1]
  ELSE f

CountedDown(f) ==
  IF ~Empty /\ CurrentDelay > 0
  THEN [f EXCEPT ![SlotOf(rptr)].delay = CurrentDelay - 1]
  ELSE f

FifoTick(push, w, d) ==
  /\ wptr' = IF push THEN Advance(wptr, 1) ELSE wptr
  /\ rptr' = IF Rvalid THEN Advance(rptr, 1) ELSE rptr
  /\ fifo' = CountedDown(Arrived(Pushed(push, w, d)))
  /\ wptrRdata' = IF push THEN SlotOf(wptr) ELSE wptrRdata
  /\ rvalidIQ' = (push /\ ~w)

(* The reset clears the pointers and every slot. *)
FifoInit ==
  /\ wptr = 0
  /\ rptr = 0
  /\ fifo = [s \in Slots |-> [we |-> FALSE, delay |-> 0, data |-> Zero]]
  /\ \E p \in PowerUp : wptrRdata = p[1] /\ rvalidIQ = p[2]

-----------------------------------------------------------------------------
(* The channel on its own: the core keeps at most MaxOutstanding accesses   *)
(* in flight (one answered in this cycle no longer counts) and the RAM      *)
(* presents some value in every cycle.                                      *)

InFlight == IF Rvalid THEN Occupied - 1 ELSE Occupied

Init == FifoInit /\ rdata \in Data

NoAccess ==
  /\ FifoTick(FALSE, FALSE, 0)
  /\ rdata' \in Data

Access(w, d) ==
  /\ InFlight < MaxOutstanding
  /\ FifoTick(TRUE, w, d)
  /\ rdata' \in Data

Next ==
  \/ NoAccess
  \/ \E w \in BOOLEAN, d \in 0 .. MaxDelay : Access(w, d)

(* The clock keeps running. *)
Fairness == WF_vars(Next)

Spec == Init /\ [][Next]_vars
FairSpec == Spec /\ Fairness

-----------------------------------------------------------------------------
(* Properties. *)

(* The values owed, oldest first: one per occupied slot. *)
Owed == [k \in 1 .. Occupied |-> ValueOf(SlotOf(Advance(rptr, k - 1)))]

Queue == INSTANCE ResponseQueue WITH
  pending <- Owed,
  arrival <- rdata,
  resp    <- IF Rvalid THEN <<RdataO>> ELSE << >>

(* Every accepted access is answered once, in order, with the value the RAM *)
(* presented one cycle after its grant (zero for a write), whatever delays  *)
(* were drawn: slots, pointers, late values and bypass implement the queue. *)
AnswersInOrder == Queue!Spec

(* A channel that owes a response offers one, however the delays were drawn. *)
EveryAccessAnswered == (Occupied > 0) ~> Rvalid
=============================================================================
