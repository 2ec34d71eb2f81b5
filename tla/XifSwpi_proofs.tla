--------------------------- MODULE XifSwpi_proofs ---------------------------
(***************************************************************************)
(* Proofs about pg_xif_swpi, for every set of identifiers, instructions,   *)
(* operands and addresses, and also for a core that kills.                 *)
(***************************************************************************)
EXTENDS XifSwpi, SequenceTheorems, TLAPS

(* What the core drives, the FSM, the id it holds and the memory interface  *)
(* keep their types.                                                        *)
TypeOK ==
  /\ CoreTypeOK
  /\ state \in {"IDLE", "DO_MEM", "WAIT_RES", "DO_RESULT"}
  /\ idQ \in Ids
  /\ memReady \in BOOLEAN

(* The registers hold the instruction in flight as long as there is one.    *)
(* There is none once it is killed, and the FSM goes on.                    *)
HoldsFlight ==
  flight # None => /\ state # "IDLE"
                   /\ idQ = flight.id
                   /\ addrQ = flight.rs[1]
                   /\ dataQ = flight.rs[2]

(* The core is ready only for the result of an instruction in flight.       *)
ReadyForFlight == resultReady => flight # None

(* How far the store is: nothing sent, sent and not answered, answered.     *)
TheStore == << <<addrQ, dataQ>> >>
Progress ==
  /\ memResult \in {None, memOwed}
  /\ state = "IDLE" => memOwed = None
  /\ state = "DO_MEM" => memOwed = None /\ stored = << >>
  /\ state = "WAIT_RES" => memOwed = idQ /\ stored = TheStore
  /\ state = "DO_RESULT" => memOwed = None /\ stored = TheStore

Inv == TypeOK /\ HoldsFlight /\ ReadyForFlight /\ Progress

-----------------------------------------------------------------------------
(* The reset establishes the invariant.                                     *)
LEMMA InitInv == Init => Inv
  BY DEF Init, Inv, CoreInit, TypeOK, CoreTypeOK, HoldsFlight, ReadyForFlight, Progress

(* The record that FlightEdge builds from an accepted offer. *)
LEMMA AcceptedInFlight ==
  ASSUME NEW o \in Offer
  PROVE  /\ [id |-> o.id, op |-> o.op, rs |-> o.rs, committed |-> FALSE] \in InFlight
         /\ [id |-> o.id, op |-> o.op, rs |-> o.rs, committed |-> FALSE] # None
<1>1. [id |-> o.id, op |-> o.op, rs |-> o.rs, committed |-> FALSE] \in InFlight
  BY DEF Offer, InFlight
<1>2. QED
  BY <1>1, NoneAssumption

(* An edge that accepts nothing leaves the instruction in flight what it    *)
(* was, or nothing: it may be committed, killed or retired.                 *)
LEMMA FlightKept ==
  ASSUME TypeOK, ~IsSwpi, FlightEdge(IsSwpi, ResultTaken)
  PROVE  /\ flight' \in InFlight \cup {None}
         /\ flight' # None => /\ ~ResultTaken /\ flight # None
                              /\ flight'.id = flight.id
                              /\ flight'.rs = flight.rs
<1>1. CASE flight' = None
  BY <1>1
<1>2. CASE flight' # None
  <2>1. flight \in InFlight
    BY <1>2 DEF TypeOK, CoreTypeOK, FlightEdge, CommitsFlight
  <2>2. ~ResultTaken /\ flight' \in {flight, [flight EXCEPT !.committed = TRUE]}
    BY <1>2 DEF FlightEdge
  <2>3. QED
    BY <2>1, <2>2, NoneAssumption DEF InFlight
<1>3. QED
  BY <1>1, <1>2

-----------------------------------------------------------------------------
(* The arcs of the FSM: registers against the instruction in flight, and    *)
(* how far the store is.                                                    *)

(* The FSM and its registers keep their types on every arc.                 *)
LEMMA FsmType ==
  ASSUME TypeOK, SwpiEdge
  PROVE  state' \in {"IDLE", "DO_MEM", "WAIT_RES", "DO_RESULT"} /\ idQ' \in Ids
<1>1. CASE AcceptSwpi
  <2>1. offer \in Offer
    BY <1>1 DEF TypeOK, CoreTypeOK, AcceptSwpi, IsSwpi
  <2>2. QED
    BY <1>1, <2>1 DEF AcceptSwpi, Offer
<1>2. CASE SendStore \/ StoreDone \/ HandBack \/ Wait
  BY <1>2 DEF TypeOK, SendStore, StoreDone, HandBack, Wait, swpiVars
<1>3. QED
  BY <1>1, <1>2 DEF SwpiEdge

(* An accepted instruction is in the registers and in flight; afterwards    *)
(* the registers stay until its result is taken.                            *)
LEMMA StepHoldsFlight ==
  ASSUME Inv, Tick
  PROVE  flight' \in InFlight \cup {None} /\ HoldsFlight'
<1> USE DEF Inv, Tick
<1>1. CASE AcceptSwpi
  <2>1. offer \in Offer /\ IsSwpi
    BY <1>1 DEF TypeOK, CoreTypeOK, AcceptSwpi, IsSwpi
  <2>2. flight' = [id |-> offer.id, op |-> offer.op, rs |-> offer.rs, committed |-> FALSE]
    BY <2>1 DEF FlightEdge
  <2>3. QED
    BY <1>1, <2>1, <2>2, AcceptedInFlight DEF AcceptSwpi, HoldsFlight
<1>2. CASE ~IsSwpi
  <2>1. /\ flight' \in InFlight \cup {None}
        /\ flight' # None => /\ ~ResultTaken /\ flight # None
                             /\ flight'.id = flight.id
                             /\ flight'.rs = flight.rs
    BY <1>2, FlightKept
  <2>2. UNCHANGED <<addrQ, dataQ, idQ>>
    BY <1>2 DEF SwpiEdge, AcceptSwpi, SendStore, StoreDone, HandBack, Wait, swpiVars
  <2>3. state # "IDLE" /\ ~ResultTaken => state' # "IDLE"
    BY <1>2 DEF SwpiEdge, AcceptSwpi, SendStore, StoreDone, HandBack, Wait, swpiVars
  <2>4. QED
    BY <2>1, <2>2, <2>3 DEF HoldsFlight
<1>3. QED
  BY <1>1, <1>2 DEF SwpiEdge, SendStore, StoreDone, HandBack, Wait, MemTransfer, MemValid,
     ResultTaken, ResultValid, IsSwpi

(* Each arc moves the store on as its state says.                           *)
LEMMA StepProgress ==
  ASSUME Inv, Tick
  PROVE  Progress'
<1> USE DEF Inv, Tick, MemEdge
<1>1. memResult' \in {None, memOwed'}
  OBVIOUS
<1>2. CASE AcceptSwpi
  BY <1>1, <1>2 DEF AcceptSwpi, IsSwpi, MemTransfer, MemValid, Progress, TheStore
<1>3. CASE SendStore
  <2>1. state = "DO_MEM" /\ ~IsSwpi /\ stored = << >>
    BY <1>3 DEF SendStore, MemTransfer, MemValid, IsSwpi, Progress
  <2>2. stored' = Append(<< >>, <<addrQ, dataQ>>) /\ memOwed' = idQ
    BY <1>3, <2>1 DEF SendStore
  <2>3. stored' = TheStore'
    <3>1. ASSUME NEW e PROVE Append(<< >>, e) = <<e>>
      OBVIOUS
    <3>2. stored' = << <<addrQ, dataQ>> >>
      BY <2>2, <3>1
    <3>3. QED
      BY <1>3, <3>2 DEF SendStore, TheStore
  <2>4. QED
    BY <1>1, <1>3, <2>2, <2>3 DEF SendStore, Progress
<1>4. CASE StoreDone
  <2>1. memResult # None
    BY <1>4, IdAssumption DEF StoreDone, TypeOK
  <2>2. memOwed' = None /\ stored' = stored
    BY <1>4, <2>1 DEF StoreDone, MemTransfer, MemValid, IsSwpi
  <2>3. QED
    BY <1>1, <1>4, <2>2 DEF StoreDone, Progress, TheStore
<1>5. CASE HandBack
  <2>1. state = "DO_RESULT"
    BY <1>5 DEF HandBack, ResultTaken, ResultValid
  <2>2. memOwed' = None
    BY <2>1 DEF MemTransfer, MemValid, Progress
  <2>3. QED
    BY <1>1, <1>5, <2>2 DEF HandBack, Progress
<1>6. CASE Wait
  <2>1. ~IsSwpi /\ ~MemTransfer /\ stored' = stored /\ UNCHANGED swpiVars
    BY <1>6 DEF Wait
  <2>2. memOwed' = IF memResult # None THEN None ELSE memOwed
    BY <2>1
  <2>3. state = "WAIT_RES" => memOwed' = memOwed
    BY <1>6, <2>2 DEF Wait, Progress
  <2>4. memOwed = None => memOwed' = None
    BY <2>2
  <2>5. QED
    BY <1>1, <2>1, <2>3, <2>4 DEF swpiVars, Progress, TheStore
<1>7. QED
  BY <1>2, <1>3, <1>4, <1>5, <1>6 DEF SwpiEdge

(* Every step keeps the invariant.                                          *)
LEMMA StepInv == Inv /\ [Next]_vars => Inv'
<1> SUFFICES ASSUME Inv, [Next]_vars PROVE Inv'
  OBVIOUS
<1>1. CASE Tick
  <2>1. flight' \in InFlight \cup {None} /\ HoldsFlight' /\ Progress'
    BY <1>1, StepHoldsFlight, StepProgress
  <2>2. /\ offer' \in Offer \cup {None}
        /\ commit' \in Commit \cup {None}
        /\ resultReady' \in BOOLEAN
        /\ ReadyForFlight'
    BY <1>1 DEF Tick, Drive, ReadyForFlight
  <2>3. TypeOK'
    BY <1>1, <2>1, <2>2, FsmType DEF Inv, Tick, MemEdge, TypeOK, CoreTypeOK
  <2>4. QED
    BY <2>1, <2>2, <2>3 DEF Inv
<1>2. CASE UNCHANGED vars
  BY <1>2 DEF vars, coreVars, swpiVars, memVars, Inv, TypeOK, CoreTypeOK, HoldsFlight,
     ReadyForFlight, Progress, TheStore
<1>3. QED
  BY <1>1, <1>2 DEF Next

-----------------------------------------------------------------------------
(* The invariant holds in every state, with kills and without.              *)
THEOREM Invariance == Spec => []Inv
  BY InitInv, StepInv, PTL DEF Spec

(* When the core takes a result, the store of that very instruction has     *)
(* been performed, once, and the pointer handed back is its rs1 plus four.  *)
THEOREM StoreThenPointer == Spec => []StoredOnceThenPointer
<1>1. Inv => StoredOnceThenPointer
  BY DEF Inv, StoredOnceThenPointer, HoldsFlight, ReadyForFlight, Progress, TheStore,
     ResultTaken, ResultValid, ResultData
<1>2. QED
  BY <1>1, Invariance, PTL

(* No result is offered before the memory has answered the store.           *)
THEOREM AnsweredBeforeResult == Spec => []ResultAfterStore
<1>1. Inv => ResultAfterStore
  BY DEF Inv, ResultAfterStore, ResultValid, Progress, TheStore
<1>2. QED
  BY <1>1, Invariance, PTL
=============================================================================
