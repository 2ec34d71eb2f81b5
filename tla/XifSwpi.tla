------------------------------ MODULE XifSwpi ------------------------------
(***************************************************************************)
(* rtl/pg_xif_swpi.sv: the post-increment store                            *)
(*     pg.swpi rd, rs1, rs2      mem[rs1] <- rs2 ; rd <- rs1 + 4           *)
(* as a coprocessor that issues its own memory transaction.  The operands  *)
(* of an offer are the pair <<rs1, rs2>>.  The module never reads the      *)
(* commit interface.                                                       *)
(*                                                                         *)
(* One step is one clock edge.                                             *)
(***************************************************************************)
EXTENDS XifCore, Sequences

CONSTANTS
  AddrSpace, \* Addresses are 0 .. AddrSpace - 1 (2^32 in the code).
  Pointers   \* The addresses a checked program stores through.

(* No mem_result is not one of an instruction. *)
ASSUME IdAssumption == None \notin Ids

(* Operands for a check: pairs that differ in the pointer and in the word.  *)
StoreOperands == {<<p, p + 1>> : p \in Pointers}

VARIABLES
  state,      \* The FSM: IDLE, DO_MEM, WAIT_RES, DO_RESULT.
  addrQ, dataQ, idQ,
  memReady,   \* mem_ready in this cycle.
  memResult,  \* The id of the mem_result transaction in this cycle, or None.
  memOwed,    \* The id whose mem_result the core still owes, or None.
  stored      \* The stores the core's memory performed for the instruction
              \*   last accepted (history).

swpiVars == <<state, addrQ, dataQ, idQ>>
memVars == <<memReady, memResult, memOwed, stored>>
vars == <<coreVars, swpiVars, memVars>>

-----------------------------------------------------------------------------
(* Signals. *)

IssueReady == state = "IDLE"

IsSwpi ==
  /\ offer # None /\ state = "IDLE"
  /\ offer.op = "swpi"
  /\ offer.rsValid >= 2

(* Mutant: the request stays up until its result arrives. *)
MemValidLong == state \in {"DO_MEM", "WAIT_RES"}

MemValid == state = "DO_MEM"
MemTransfer == MemValid /\ memReady

ResultValid == state = "DO_RESULT"
ResultData == (addrQ + 4) % AddrSpace
ResultTaken == ResultValid /\ resultReady

-----------------------------------------------------------------------------
(* The FSM, one action per arc, and the cycles in which it waits. *)

AcceptSwpi ==
  /\ IsSwpi
  /\ state' = "DO_MEM"
  /\ addrQ' = offer.rs[1]
  /\ dataQ' = offer.rs[2]
  /\ idQ' = offer.id

SendStore ==
  /\ MemTransfer
  /\ state' = "WAIT_RES"
  /\ UNCHANGED <<addrQ, dataQ, idQ>>

(* Mutant: the memory result is not waited for. *)
StoreDoneEarly ==
  /\ state = "WAIT_RES"
  /\ state' = "DO_RESULT"
  /\ UNCHANGED <<addrQ, dataQ, idQ>>

StoreDone ==
  /\ state = "WAIT_RES"
  /\ memResult = idQ
  /\ state' = "DO_RESULT"
  /\ UNCHANGED <<addrQ, dataQ, idQ>>

(* Mutant: the FSM does not leave DO_RESULT. *)
HandBackHeld ==
  /\ ResultTaken
  /\ UNCHANGED swpiVars

HandBack ==
  /\ ResultTaken
  /\ state' = "IDLE"
  /\ UNCHANGED <<addrQ, dataQ, idQ>>

Wait ==
  /\ ~IsSwpi /\ ~MemTransfer /\ ~ResultTaken
  /\ ~(state = "WAIT_RES" /\ memResult = idQ)
  /\ UNCHANGED swpiVars

SwpiEdge == AcceptSwpi \/ SendStore \/ StoreDone \/ HandBack \/ Wait

-----------------------------------------------------------------------------
(* The core's memory interface: it performs a store at the transfer and     *)
(* owes one mem_result for it, in a later cycle.                            *)

MemEdge ==
  /\ stored' = IF IsSwpi THEN << >>
               ELSE IF MemTransfer THEN Append(stored, <<addrQ, dataQ>>)
               ELSE stored
  /\ memOwed' = IF MemTransfer THEN idQ
                ELSE IF memResult # None THEN None
                ELSE memOwed
  /\ memReady' \in BOOLEAN
  /\ memResult' \in {None, memOwed'}

-----------------------------------------------------------------------------
Init ==
  /\ CoreInit
  /\ state = "IDLE" /\ addrQ = 0 /\ dataQ = 0 /\ idQ \in Ids
  /\ memReady = FALSE /\ memResult = None /\ memOwed = None /\ stored = << >>

Tick ==
  /\ SwpiEdge
  /\ MemEdge
  /\ FlightEdge(IsSwpi, ResultTaken)
  /\ Drive

Next == Tick

Spec == Init /\ [][Next]_vars

(* The clock keeps running, the core decides on every speculative           *)
(* instruction, becomes ready for the result of one it committed, accepts a *)
(* memory request that is held and answers it.                              *)
Fairness ==
  /\ WF_vars(Tick)
  /\ WF_vars(Tick /\ commit' # None /\ flight' # None /\ commit'.id = flight'.id)
  /\ WF_vars(Tick /\ resultReady')
  /\ WF_vars(Tick /\ state' = "DO_MEM" /\ memReady')
  /\ WF_vars(Tick /\ memResult' # None)

FairSpec == Spec /\ Fairness

-----------------------------------------------------------------------------
(* Properties. *)

(* When the core takes the result, the store has been performed, once, with *)
(* the operands of this instruction, and the pointer handed back is that    *)
(* instruction's rs1 plus four.                                             *)
StoredOnceThenPointer ==
  ResultTaken => /\ flight # None /\ idQ = flight.id
                 /\ stored = << <<flight.rs[1], flight.rs[2]>> >>
                 /\ ResultData = (flight.rs[1] + 4) % AddrSpace

(* The result is not offered before the memory result of this instruction's *)
(* store has arrived, and nothing is owed once it is offered.               *)
ResultAfterStore == ResultValid => memOwed = None /\ Len(stored) = 1

(* The unit becomes ready for the next instruction: it runs the sequence    *)
(* issue, mem, result of its header to the end.                             *)
ReadyAgain == ~IssueReady ~> IssueReady
=============================================================================
