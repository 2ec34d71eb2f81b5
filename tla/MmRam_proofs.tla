---------------------------- MODULE MmRam_proofs ----------------------------
(***************************************************************************)
(* Proofs about mm_ram, for every memory, program, stall setting and FIFO  *)
(* depth: a request that waits has a stall left to count down, and the two *)
(* ports implement one memory that answers in order.                       *)
(***************************************************************************)
EXTENDS MmRam, SequenceTheorems, TLAPS

(* What is proved of riscv_rvalid_stall holds of both of its instances.     *)
InstrProofs == INSTANCE RvalidStall_proofs WITH
  MaxOutstanding <- MaxInstrOutstanding,
  wptr <- iWptr, rptr <- iRptr, fifo <- iFifo, wptrRdata <- iSlot,
  rvalidIQ <- iArriving, rdata <- iRdata
DataProofs == INSTANCE RvalidStall_proofs WITH
  MaxOutstanding <- MaxDataOutstanding,
  wptr <- dWptr, rptr <- dRptr, fifo <- dFifo, wptrRdata <- dSlot,
  rvalidIQ <- dArriving, rdata <- DataRdataMux

-----------------------------------------------------------------------------
(* The instruction port. *)

(* The response FIFO of MmRam is the one the lemmas are about.              *)
LEMMA InstrPortSame ==
  /\ InstrFifo!InFlight = InstrProofs!InFlight
  /\ InstrFifo!Rvalid = InstrProofs!Rvalid
  /\ InstrFifo!RdataO = InstrProofs!RdataO
  /\ InstrFifo!Owed = InstrProofs!Owed
  BY DEF InstrFifo!InFlight, InstrFifo!Rvalid, InstrFifo!RdataO, InstrFifo!Owed,
         InstrFifo!Occupied, InstrFifo!Distance, InstrFifo!Empty, InstrFifo!ValueOf,
         InstrFifo!CurrentDelay, InstrFifo!SlotOf, InstrFifo!Advance,
         InstrProofs!InFlight, InstrProofs!Rvalid, InstrProofs!RdataO, InstrProofs!Owed,
         InstrProofs!Occupied, InstrProofs!Distance, InstrProofs!Empty, InstrProofs!ValueOf,
         InstrProofs!CurrentDelay, InstrProofs!SlotOf, InstrProofs!Advance

(* Its edge is their edge.                                                  *)
LEMMA InstrPortSameEdge ==
  ASSUME NEW push, NEW w, NEW d, InstrFifo!FifoTick(push, w, d)
  PROVE  InstrProofs!FifoTick(push, w, d)
  BY DEF InstrFifo!FifoTick, InstrFifo!Rvalid, InstrFifo!Empty, InstrFifo!CurrentDelay,
         InstrFifo!SlotOf, InstrFifo!Advance, InstrFifo!Pushed, InstrFifo!Arrived,
         InstrFifo!CountedDown,
         InstrProofs!FifoTick, InstrProofs!Rvalid, InstrProofs!Empty,
         InstrProofs!CurrentDelay, InstrProofs!SlotOf, InstrProofs!Advance,
         InstrProofs!Pushed, InstrProofs!Arrived, InstrProofs!CountedDown

(* The reset establishes the FIFO's invariant, with nothing owed.           *)
LEMMA InstrPortReset ==
  ASSUME InstrFifo!FifoInit, iRdata \in Data
  PROVE  /\ InstrProofs!Inv
         /\ InstrFifo!Owed = << >>
         /\ ~InstrFifo!Rvalid
<1>1. InstrProofs!Init
  BY DEF InstrFifo!FifoInit, InstrFifo!Slots, InstrProofs!Init, InstrProofs!FifoInit,
         InstrProofs!Slots
<1>2. InstrProofs!Inv
  BY <1>1, InstrProofs!InitInv, FifoAssumption, DataAssumption DEF InstrProofs!PowerUpAny
<1>3. InstrProofs!Queue!Init
  BY <1>1, InstrProofs!InitQueue, FifoAssumption, DataAssumption DEF InstrProofs!PowerUpAny
<1>4. InstrProofs!Owed = << >> /\ ~InstrProofs!Rvalid
  BY <1>3 DEF InstrProofs!Queue!Init
<1>5. QED
  BY <1>2, <1>4, InstrPortSame

(* What is offered in a cycle is the oldest value owed.                     *)
LEMMA InstrPortOnTheBus ==
  InstrProofs!Inv /\ InstrFifo!Rvalid =>
    InstrFifo!Owed # << >> /\ InstrFifo!RdataO = Head(InstrFifo!Owed)
  BY InstrPortSame, InstrProofs!OnTheBus, FifoAssumption, DataAssumption
     DEF InstrProofs!Inv, InstrProofs!PowerUpAny

(* An edge keeps the FIFO's invariant and, unless it accepts an access, the *)
(* room for one, and is a step of the queue of values owed.                 *)
LEMMA InstrPortEdge ==
  ASSUME InstrProofs!Inv, NEW push \in BOOLEAN, NEW w \in BOOLEAN, NEW d \in 0 .. MaxDelay,
         InstrFifo!FifoTick(push, w, d),
         push => InstrFifo!InFlight < MaxInstrOutstanding,
         iRdata' \in Data
  PROVE  /\ InstrProofs!Inv'
         /\ ~push /\ InstrFifo!InFlight < MaxInstrOutstanding
              => InstrFifo!InFlight' < MaxInstrOutstanding
         /\ IF push
            THEN Memory!InstrQueue!Accept(IF w THEN Zero ELSE iRdata')
            ELSE Memory!InstrQueue!Quiet
<1>1. InstrProofs!FifoTick(push, w, d) /\ (push => InstrProofs!InFlight < MaxInstrOutstanding)
  BY InstrPortSameEdge, InstrPortSame
<1>2. InstrProofs!Inv'
  BY <1>1, InstrProofs!EdgeInv, FifoAssumption, DataAssumption DEF InstrProofs!PowerUpAny
<1>3. InstrProofs!Owed' = IF push
                          THEN Append(InstrProofs!Queue!Unanswered,
                                      IF w THEN Zero ELSE iRdata')
                          ELSE InstrProofs!Queue!Unanswered
  BY <1>1, InstrProofs!StepOwed, FifoAssumption, DataAssumption DEF InstrProofs!PowerUpAny
<1>4. /\ InstrProofs!Occupied' = IF push THEN InstrProofs!InFlight + 1
                                 ELSE InstrProofs!InFlight
      /\ InstrProofs!InFlight \in Nat
  BY <1>1, InstrProofs!StepOccupied, FifoAssumption, DataAssumption
     DEF InstrProofs!PowerUpAny
<1>5. InstrProofs!Queue!Unanswered = Memory!InstrQueue!Unanswered
  BY InstrPortSame DEF InstrProofs!Queue!Unanswered, Memory!InstrQueue!Unanswered, Bus
<1>6. InstrFifo!Owed' = InstrProofs!Owed' /\ InstrFifo!InFlight' = InstrProofs!InFlight'
  <2>1. (InstrFifo!Owed = InstrProofs!Owed /\ InstrFifo!InFlight = InstrProofs!InFlight)'
    BY InstrPortSame, PTL
  <2>2. QED
    BY <2>1
<1>7. ~push /\ InstrFifo!InFlight < MaxInstrOutstanding
        => InstrFifo!InFlight' < MaxInstrOutstanding
  BY <1>4, <1>6, InstrPortSame, FifoAssumption DEF InstrProofs!InFlight
<1>8. Memory!InstrQueue!Offer
  <2>1. (InstrProofs!Inv /\ InstrFifo!Rvalid =>
           InstrFifo!Owed # << >> /\ InstrFifo!RdataO = Head(InstrFifo!Owed))'
    BY InstrPortOnTheBus, PTL
  <2>2. QED
    BY <1>2, <2>1 DEF Memory!InstrQueue!Offer, Bus
<1>9. QED
  BY <1>2, <1>3, <1>5, <1>6, <1>7, <1>8
     DEF Memory!InstrQueue!Accept, Memory!InstrQueue!Quiet

-----------------------------------------------------------------------------
(* The data port, behind the read multiplexer. *)

(* The response FIFO of MmRam is the one the lemmas are about.              *)
LEMMA DataPortSame ==
  /\ DataFifo!InFlight = DataProofs!InFlight
  /\ DataFifo!Rvalid = DataProofs!Rvalid
  /\ DataFifo!RdataO = DataProofs!RdataO
  /\ DataFifo!Owed = DataProofs!Owed
  BY DEF DataFifo!InFlight, DataFifo!Rvalid, DataFifo!RdataO, DataFifo!Owed,
         DataFifo!Occupied, DataFifo!Distance, DataFifo!Empty, DataFifo!ValueOf,
         DataFifo!CurrentDelay, DataFifo!SlotOf, DataFifo!Advance,
         DataProofs!InFlight, DataProofs!Rvalid, DataProofs!RdataO, DataProofs!Owed,
         DataProofs!Occupied, DataProofs!Distance, DataProofs!Empty, DataProofs!ValueOf,
         DataProofs!CurrentDelay, DataProofs!SlotOf, DataProofs!Advance

(* Its edge is their edge.                                                  *)
LEMMA DataPortSameEdge ==
  ASSUME NEW push, NEW w, NEW d, DataFifo!FifoTick(push, w, d)
  PROVE  DataProofs!FifoTick(push, w, d)
  BY DEF DataFifo!FifoTick, DataFifo!Rvalid, DataFifo!Empty, DataFifo!CurrentDelay,
         DataFifo!SlotOf, DataFifo!Advance, DataFifo!Pushed, DataFifo!Arrived,
         DataFifo!CountedDown,
         DataProofs!FifoTick, DataProofs!Rvalid, DataProofs!Empty,
         DataProofs!CurrentDelay, DataProofs!SlotOf, DataProofs!Advance,
         DataProofs!Pushed, DataProofs!Arrived, DataProofs!CountedDown

(* The reset establishes the FIFO's invariant, with nothing owed.           *)
LEMMA DataPortReset ==
  ASSUME DataFifo!FifoInit, DataRdataMux \in Data
  PROVE  /\ DataProofs!Inv
         /\ DataFifo!Owed = << >>
         /\ ~DataFifo!Rvalid
<1>1. DataProofs!Init
  BY DEF DataFifo!FifoInit, DataFifo!Slots, DataProofs!Init, DataProofs!FifoInit,
         DataProofs!Slots
<1>2. DataProofs!Inv
  BY <1>1, DataProofs!InitInv, FifoAssumption, DataAssumption DEF DataProofs!PowerUpAny
<1>3. DataProofs!Queue!Init
  BY <1>1, DataProofs!InitQueue, FifoAssumption, DataAssumption DEF DataProofs!PowerUpAny
<1>4. DataProofs!Owed = << >> /\ ~DataProofs!Rvalid
  BY <1>3 DEF DataProofs!Queue!Init
<1>5. QED
  BY <1>2, <1>4, DataPortSame

(* What is offered in a cycle is the oldest value owed.                     *)
LEMMA DataPortOnTheBus ==
  DataProofs!Inv /\ DataFifo!Rvalid =>
    DataFifo!Owed # << >> /\ DataFifo!RdataO = Head(DataFifo!Owed)
  BY DataPortSame, DataProofs!OnTheBus, FifoAssumption, DataAssumption
     DEF DataProofs!Inv, DataProofs!PowerUpAny

(* An edge keeps the FIFO's invariant and, unless it accepts an access, the *)
(* room for one, and is a step of the queue of values owed.                 *)
LEMMA DataPortEdge ==
  ASSUME DataProofs!Inv, NEW push \in BOOLEAN, NEW w \in BOOLEAN, NEW d \in 0 .. MaxDelay,
         DataFifo!FifoTick(push, w, d),
         push => DataFifo!InFlight < MaxDataOutstanding,
         DataRdataMux' \in Data
  PROVE  /\ DataProofs!Inv'
         /\ ~push /\ DataFifo!InFlight < MaxDataOutstanding
              => DataFifo!InFlight' < MaxDataOutstanding
         /\ IF push
            THEN Memory!DataQueue!Accept(IF w THEN Zero ELSE DataRdataMux')
            ELSE Memory!DataQueue!Quiet
<1>1. DataProofs!FifoTick(push, w, d) /\ (push => DataProofs!InFlight < MaxDataOutstanding)
  BY DataPortSameEdge, DataPortSame
<1>2. DataProofs!Inv'
  BY <1>1, DataProofs!EdgeInv, FifoAssumption, DataAssumption DEF DataProofs!PowerUpAny
<1>3. DataProofs!Owed' = IF push
                          THEN Append(DataProofs!Queue!Unanswered,
                                      IF w THEN Zero ELSE DataRdataMux')
                          ELSE DataProofs!Queue!Unanswered
  BY <1>1, DataProofs!StepOwed, FifoAssumption, DataAssumption DEF DataProofs!PowerUpAny
<1>4. /\ DataProofs!Occupied' = IF push THEN DataProofs!InFlight + 1
                                 ELSE DataProofs!InFlight
      /\ DataProofs!InFlight \in Nat
  BY <1>1, DataProofs!StepOccupied, FifoAssumption, DataAssumption
     DEF DataProofs!PowerUpAny
<1>5. DataProofs!Queue!Unanswered = Memory!DataQueue!Unanswered
  BY DataPortSame DEF DataProofs!Queue!Unanswered, Memory!DataQueue!Unanswered, Bus
<1>6. DataFifo!Owed' = DataProofs!Owed' /\ DataFifo!InFlight' = DataProofs!InFlight'
  <2>1. (DataFifo!Owed = DataProofs!Owed /\ DataFifo!InFlight = DataProofs!InFlight)'
    BY DataPortSame, PTL
  <2>2. QED
    BY <2>1
<1>7. ~push /\ DataFifo!InFlight < MaxDataOutstanding
        => DataFifo!InFlight' < MaxDataOutstanding
  BY <1>4, <1>6, DataPortSame, FifoAssumption DEF DataProofs!InFlight
<1>8. Memory!DataQueue!Offer
  <2>1. (DataProofs!Inv /\ DataFifo!Rvalid =>
           DataFifo!Owed # << >> /\ DataFifo!RdataO = Head(DataFifo!Owed))'
    BY DataPortOnTheBus, PTL
  <2>2. QED
    BY <1>2, <2>1 DEF Memory!DataQueue!Offer, Bus
<1>9. QED
  BY <1>2, <1>3, <1>5, <1>6, <1>7, <1>8
     DEF Memory!DataQueue!Accept, Memory!DataQueue!Quiet

-----------------------------------------------------------------------------
(* The inductive invariant. *)

(* Registers, memory, buses and grant generators keep their types; those of *)
(* the FIFOs are part of what is proved of them.                            *)
TypeOK ==
  /\ regs \in [Registers -> Nat]
  /\ mem \in [0 .. RamSize - 1 -> Data]
  /\ ibus \in {NoFetch} \cup Fetches
  /\ dbus \in {IdleBus} \cup DataAccesses
  /\ iStallGnt \in BOOLEAN /\ iCnt \in Int
  /\ dStallGnt \in BOOLEAN /\ dCnt \in Int
  /\ ramRdata \in Data /\ rndNum \in Data
  /\ select \in {"RAM", "RND_NUM"}

(* A request was raised with room for its response, and the room stays      *)
(* while it waits: this is why the FIFOs, which never look whether they are *)
(* full, do not overfill.                                                   *)
RoomForRequest ==
  /\ ibus.req => InstrFifo!InFlight < MaxInstrOutstanding
  /\ dbus.req => DataFifo!InFlight < MaxDataOutstanding

Inv ==
  /\ TypeOK
  /\ InstrProofs!Inv
  /\ DataProofs!Inv
  /\ RoomForRequest
  /\ StallRunning

-----------------------------------------------------------------------------
(* What is on the buses. *)

(* Every address of the bus, the idle one too, is one of the memory, and    *)
(* the RAM and the in-order memory agree on which.                          *)
LEMMA InBounds ==
  ASSUME NEW a \in Addresses \cup {0}
  PROVE  Remap(a) \in 0 .. RamSize - 1 /\ Memory!Location(a) = Remap(a)
  BY RamAssumption DEF Addresses, Remap, Memory!Location

(* A fetch on the bus, or the idle bus, names a location.                   *)
LEMMA FetchOnBus ==
  ASSUME NEW b \in {NoFetch} \cup Fetches
  PROVE  b.req \in BOOLEAN /\ b.addr \in Addresses \cup {0}
<1>1. CASE b = NoFetch
  BY <1>1 DEF NoFetch
<1>2. CASE b \in Fetches
  <2>1. PICK a \in FetchAddr : b = [req |-> TRUE, addr |-> a]
    BY <1>2 DEF Fetches
  <2>2. QED
    BY <2>1, AddressAssumption
<1>3. QED
  BY <1>1, <1>2

(* So does a data access; what it stores fits where it goes.                *)
LEMMA AccessOnBus ==
  ASSUME NEW b \in {IdleBus} \cup DataAccesses
  PROVE  /\ b.req \in BOOLEAN /\ b.we \in BOOLEAN /\ b.be \in BOOLEAN
         /\ b.addr \in Addresses \cup {0}
         /\ b.kind = "RAM" => b.wdata \in Data
         /\ b.kind = "RND_STALL" => b.reg \in Registers /\ b.wdata \in Nat
<1>1. CASE b = IdleBus
  BY <1>1, DataAssumption DEF IdleBus
<1>2. CASE b \in Loads
  BY <1>2, AddressAssumption, DataAssumption DEF Loads, IdleBus
<1>3. CASE b \in Stores
  <2>1. PICK w \in StoreWrites :
          b = [IdleBus EXCEPT !.req = TRUE, !.we = TRUE, !.addr = w[1], !.be = w[2],
                              !.wdata = w[3]]
    BY <1>3 DEF Stores
  <2>2. w[1] \in Addresses /\ w[2] \in BOOLEAN /\ w[3] \in Data
    BY AddressAssumption
  <2>3. QED
    BY <2>1, <2>2 DEF IdleBus
<1>4. CASE b = RndNumLoad
  BY <1>4 DEF RndNumLoad, IdleBus
<1>5. CASE b \in StallStores
  <2>1. PICK w \in StallWrites :
          b = [IdleBus EXCEPT !.req = TRUE, !.we = TRUE, !.be = TRUE,
                              !.kind = "RND_STALL", !.reg = w[1], !.wdata = w[2]]
    BY <1>5 DEF StallStores
  <2>2. w[1] \in Registers /\ w[2] \in Nat
    BY SettingsAssumption
  <2>3. QED
    BY <2>1, <2>2 DEF IdleBus
<1>6. QED
  BY <1>1, <1>2, <1>3, <1>4, <1>5 DEF DataAccesses

(* A grant is for a request. *)
LEMMA GrantType ==
  ASSUME TypeOK
  PROVE  /\ iGranted \in BOOLEAN /\ (iGranted => ibus.req)
         /\ dGranted \in BOOLEAN /\ (dGranted => dbus.req)
  BY FetchOnBus, AccessOnBus DEF TypeOK, iGranted, dGranted, Registers

-----------------------------------------------------------------------------
(* The delays that the settings ask for. *)

(* What is drawn for a bus in any mode is a number of cycles.               *)
LEMMA DrawnType ==
  ASSUME regs \in [Registers -> Nat], NEW en \in Registers, NEW mode \in Registers,
         NEW max \in Registers, NEW fixed \in Registers
  PROVE  Drawn(en, mode, max, fixed) \subseteq Nat
  BY DEF Drawn

(* Cut to four bits it is a delay of a FIFO slot.                           *)
LEMMA FourBitsType ==
  ASSUME NEW S \in SUBSET Nat
  PROVE  FourBits(S) \subseteq 0 .. MaxDelay
  BY FifoAssumption DEF FourBits

(* All four draws, whatever the settings are.                               *)
LEMMA DelayTypes ==
  regs \in [Registers -> Nat] =>
    /\ InstrValidDelays \subseteq 0 .. MaxDelay /\ DataValidDelays \subseteq 0 .. MaxDelay
    /\ InstrGntDelays \subseteq Nat /\ DataGntDelays \subseteq Nat
<1> SUFFICES ASSUME regs \in [Registers -> Nat]
             PROVE  /\ InstrValidDelays \subseteq 0 .. MaxDelay
                    /\ DataValidDelays \subseteq 0 .. MaxDelay
                    /\ InstrGntDelays \subseteq Nat /\ DataGntDelays \subseteq Nat
  OBVIOUS
<1>1. /\ Drawn("INSTR_EN", "INSTR_MODE", "INSTR_MAX", "INSTR_VALID") \subseteq Nat
      /\ Drawn("DATA_EN", "DATA_MODE", "DATA_MAX", "DATA_VALID") \subseteq Nat
      /\ Drawn("INSTR_EN", "INSTR_MODE", "INSTR_MAX", "INSTR_GNT") \subseteq Nat
      /\ Drawn("DATA_EN", "DATA_MODE", "DATA_MAX", "DATA_GNT") \subseteq Nat
  BY DrawnType DEF Registers
<1>2. QED
  BY <1>1, FourBitsType
     DEF InstrValidDelays, DataValidDelays, InstrGntDelays, DataGntDelays

-----------------------------------------------------------------------------
(* The parts of the clock edge. *)

(* A read of a port delivers what the memory holds at the location named.   *)
LEMMA FetchValue ==
  ASSUME TypeOK, iRdata' = mem[InstrAddrRemap(ibus.addr)]
  PROVE  iRdata' \in Data /\ iRdata' = mem[Memory!Location(ibus.addr)]
<1>1. ibus.addr \in Addresses \cup {0}
  BY FetchOnBus DEF TypeOK
<1>2. /\ Remap(ibus.addr) \in 0 .. RamSize - 1
      /\ Memory!Location(ibus.addr) = Remap(ibus.addr)
  BY <1>1, InBounds
<1>3. QED
  BY <1>2 DEF TypeOK, InstrAddrRemap

(* The RAM's data port is within the memory, in cycles without an access    *)
(* too, and at the location named when there is one.                        *)
LEMMA RamAddrType ==
  ASSUME TypeOK
  PROVE  /\ RamAddr \in 0 .. RamSize - 1
         /\ RamAccess => RamAddr = Memory!Location(dbus.addr)
<1>1. dbus.addr \in Addresses \cup {0}
  BY AccessOnBus DEF TypeOK
<1>2. /\ Remap(dbus.addr) \in 0 .. RamSize - 1
      /\ Memory!Location(dbus.addr) = Remap(dbus.addr)
  BY <1>1, InBounds
<1>3. QED
  BY <1>2, RamAssumption DEF RamAddr

(* The RAM keeps its type, and changes exactly as a granted store says.     *)
LEMMA RamEdgeStores ==
  ASSUME TypeOK, RamEdge
  PROVE  /\ mem' \in [0 .. RamSize - 1 -> Data]
         /\ mem' = IF dGranted /\ dbus.we /\ dbus.kind = "RAM" /\ dbus.be
                   THEN [mem EXCEPT ![Memory!Location(dbus.addr)] = dbus.wdata]
                   ELSE mem
<1>1. RamWe => RamReq
  BY GrantType DEF RamWe, RamReq, RamAccess
<1>2. RamAccess => RamAddr = Memory!Location(dbus.addr)
  BY RamAddrType
<1>3. mem' = IF dGranted /\ dbus.we /\ dbus.kind = "RAM" /\ dbus.be
             THEN [mem EXCEPT ![Memory!Location(dbus.addr)] = dbus.wdata]
             ELSE mem
  BY <1>1, <1>2 DEF RamEdge, RamWe, RamAccess
<1>4. dbus.kind = "RAM" => dbus.wdata \in Data
  BY AccessOnBus DEF TypeOK
<1>5. QED
  BY <1>3, <1>4 DEF TypeOK

(* A granted load of the RAM finds its value behind the multiplexer.        *)
LEMMA DataEdgeReads ==
  ASSUME TypeOK, RamEdge, PeripheralEdge
  PROVE  /\ ramRdata' \in Data /\ rndNum' \in Data /\ select' \in {"RAM", "RND_NUM"}
         /\ DataRdataMux' \in Data
         /\ dGranted /\ ~dbus.we /\ dbus.kind = "RAM"
              => DataRdataMux' = mem[Memory!Location(dbus.addr)]
<1>1. mem[RamAddr] \in Data
  BY RamAddrType DEF TypeOK
<1>2. ramRdata' \in Data /\ rndNum' \in Data /\ select' \in {"RAM", "RND_NUM"}
  BY <1>1 DEF TypeOK, RamEdge, PeripheralEdge
<1>3. ASSUME dGranted, ~dbus.we, dbus.kind = "RAM"
      PROVE  DataRdataMux' = mem[Memory!Location(dbus.addr)]
  <2>1. RamAccess /\ ~RamWe /\ RamReq
    BY <1>3, GrantType DEF RamAccess, RamWe, RamReq
  <2>2. ramRdata' = mem[Memory!Location(dbus.addr)]
    BY <2>1, RamAddrType DEF RamEdge
  <2>3. select' = "RAM"
    BY <1>3 DEF PeripheralEdge, RndNumRead
  <2>4. QED
    BY <2>2, <2>3 DEF DataRdataMux
<1>4. QED
  BY <1>2, <1>3 DEF DataRdataMux

(* Firmware writes numbers to the stall registers. *)
LEMMA SettingsEdge ==
  ASSUME TypeOK, PeripheralEdge
  PROVE  regs' \in [Registers -> Nat]
<1>1. dbus.kind = "RND_STALL" => dbus.reg \in Registers /\ dbus.wdata \in Nat
  BY AccessOnBus DEF TypeOK
<1>2. QED
  BY <1>1 DEF TypeOK, PeripheralEdge

(* A grant generator keeps its types, and leaves a request that waits with  *)
(* a stall to count down.                                                   *)
LEMMA InstrStallEdge ==
  ASSUME ibus.req \in BOOLEAN, iStallGnt \in BOOLEAN, iCnt \in Int,
         ibus.req /\ ~iStallGnt => iCnt >= 1,
         NEW r \in BOOLEAN, NEW delays \in SUBSET Nat, InstrStall!GntTick(r, delays)
  PROVE  /\ iStallGnt' \in BOOLEAN /\ iCnt' \in Int
         /\ r /\ ~iStallGnt' => iCnt' >= 1
<1>1. CASE InstrStall!GntIdle(r)
  BY <1>1 DEF InstrStall!GntIdle
<1>2. CASE InstrStall!GntNew(r, delays)
  <2>1. PICK d \in delays : iCnt' = d /\ iStallGnt' = (d = 0)
    BY <1>2 DEF InstrStall!GntNew
  <2>2. d \in Nat
    OBVIOUS
  <2>3. QED
    BY <2>1, <2>2
<1>3. CASE InstrStall!GntExpire(r)
  BY <1>3 DEF InstrStall!GntExpire
<1>4. CASE InstrStall!GntWait(r)
  BY <1>4 DEF InstrStall!GntWait
<1>5. QED
  BY <1>1, <1>2, <1>3, <1>4 DEF InstrStall!GntTick

(* Likewise on the data bus.                                                *)
LEMMA DataStallEdge ==
  ASSUME dbus.req \in BOOLEAN, dStallGnt \in BOOLEAN, dCnt \in Int,
         dbus.req /\ ~dStallGnt => dCnt >= 1,
         NEW r \in BOOLEAN, NEW delays \in SUBSET Nat, DataStall!GntTick(r, delays)
  PROVE  /\ dStallGnt' \in BOOLEAN /\ dCnt' \in Int
         /\ r /\ ~dStallGnt' => dCnt' >= 1
<1>1. CASE DataStall!GntIdle(r)
  BY <1>1 DEF DataStall!GntIdle
<1>2. CASE DataStall!GntNew(r, delays)
  <2>1. PICK d \in delays : dCnt' = d /\ dStallGnt' = (d = 0)
    BY <1>2 DEF DataStall!GntNew
  <2>2. d \in Nat
    OBVIOUS
  <2>3. QED
    BY <2>1, <2>2
<1>3. CASE DataStall!GntExpire(r)
  BY <1>3 DEF DataStall!GntExpire
<1>4. CASE DataStall!GntWait(r)
  BY <1>4 DEF DataStall!GntWait
<1>5. QED
  BY <1>1, <1>2, <1>3, <1>4 DEF DataStall!GntTick

(* A request is kept until its grant, and with it the room it was raised    *)
(* with.                                                                    *)
LEMMA InstrRequestEdge ==
  ASSUME TypeOK, InstrRequest, RoomForRequest,
         ~iGranted /\ InstrFifo!InFlight < MaxInstrOutstanding
           => InstrFifo!InFlight' < MaxInstrOutstanding
  PROVE  /\ ibus' \in {NoFetch} \cup Fetches
         /\ ibus'.req => InstrFifo!InFlight' < MaxInstrOutstanding
<1>1. CASE ibus.req /\ ~iGranted /\ UNCHANGED ibus
  BY <1>1 DEF TypeOK, RoomForRequest
<1>2. CASE ibus' \in {NoFetch} \cup
             (IF InstrFifo!InFlight' < MaxInstrOutstanding THEN Fetches ELSE {})
  BY <1>2 DEF NoFetch
<1>3. QED
  BY <1>1, <1>2 DEF InstrRequest

(* Likewise on the data bus.                                                *)
LEMMA DataRequestEdge ==
  ASSUME TypeOK, DataRequest, RoomForRequest,
         ~dGranted /\ DataFifo!InFlight < MaxDataOutstanding
           => DataFifo!InFlight' < MaxDataOutstanding
  PROVE  /\ dbus' \in {IdleBus} \cup DataAccesses
         /\ dbus'.req => DataFifo!InFlight' < MaxDataOutstanding
<1>1. CASE dbus.req /\ ~dGranted /\ UNCHANGED dbus
  BY <1>1 DEF TypeOK, RoomForRequest
<1>2. CASE dbus' \in {IdleBus} \cup
             (IF DataFifo!InFlight' < MaxDataOutstanding THEN DataAccesses ELSE {})
  BY <1>2 DEF IdleBus
<1>3. QED
  BY <1>1, <1>2 DEF DataRequest

-----------------------------------------------------------------------------
(* The two ports in one edge. *)

(* The instruction port: a granted fetch is owed the value at its location, *)
(* late values and bypass included.                                         *)
LEMMA FetchStep ==
  ASSUME Inv, FetchEdge
  PROVE  /\ InstrProofs!Inv'
         /\ ~iGranted /\ InstrFifo!InFlight < MaxInstrOutstanding
              => InstrFifo!InFlight' < MaxInstrOutstanding
         /\ Memory!Fetch
<1>1. PICK d \in InstrValidDelays : InstrFifo!FifoTick(iGranted, FALSE, d)
  BY DEF FetchEdge
<1>2. d \in 0 .. MaxDelay
  BY DelayTypes DEF Inv, TypeOK
<1>3. iGranted \in BOOLEAN /\ (iGranted => InstrFifo!InFlight < MaxInstrOutstanding)
  BY GrantType DEF Inv, RoomForRequest
<1>4. iRdata' \in Data /\ iRdata' = mem[Memory!Location(ibus.addr)]
  BY FetchValue DEF Inv, FetchEdge
<1>5. /\ InstrProofs!Inv'
      /\ ~iGranted /\ InstrFifo!InFlight < MaxInstrOutstanding
           => InstrFifo!InFlight' < MaxInstrOutstanding
      /\ IF iGranted
         THEN Memory!InstrQueue!Accept(iRdata')
         ELSE Memory!InstrQueue!Quiet
  <2> DEFINE push == iGranted
  <2> HIDE DEF push
  <2>1. /\ push \in BOOLEAN /\ (push => InstrFifo!InFlight < MaxInstrOutstanding)
        /\ InstrFifo!FifoTick(push, FALSE, d)
    BY <1>1, <1>3 DEF push
  <2>2. /\ InstrProofs!Inv'
        /\ ~push /\ InstrFifo!InFlight < MaxInstrOutstanding
             => InstrFifo!InFlight' < MaxInstrOutstanding
        /\ IF push
           THEN Memory!InstrQueue!Accept(IF FALSE THEN Zero ELSE iRdata')
           ELSE Memory!InstrQueue!Quiet
    BY <1>2, <1>4, <2>1, InstrPortEdge DEF Inv
  <2>3. QED
    BY <2>2 DEF push
<1>6. QED
  BY <1>4, <1>5 DEF Memory!Fetch

(* The data port: a granted load, a granted store, or nothing; the reads of *)
(* location 0 that an ungranted request makes are owed to nobody.           *)
LEMMA DataStep ==
  ASSUME Inv, DataEdge
  PROVE  /\ DataProofs!Inv'
         /\ ~dGranted /\ DataFifo!InFlight < MaxDataOutstanding
              => DataFifo!InFlight' < MaxDataOutstanding
         /\ Memory!Load \/ Memory!Store \/ Memory!NoData
<1>1. PICK d \in DataValidDelays : DataFifo!FifoTick(dGranted, dbus.we, d)
  BY DEF DataEdge
<1>2. d \in 0 .. MaxDelay
  BY DelayTypes DEF Inv, TypeOK
<1>3. /\ dGranted \in BOOLEAN /\ (dGranted => DataFifo!InFlight < MaxDataOutstanding)
      /\ dbus.we \in BOOLEAN
  BY GrantType, AccessOnBus DEF Inv, TypeOK, RoomForRequest
<1>4. /\ DataRdataMux' \in Data
      /\ dGranted /\ ~dbus.we /\ dbus.kind = "RAM"
           => DataRdataMux' = mem[Memory!Location(dbus.addr)]
  BY DataEdgeReads DEF Inv, DataEdge
<1>5. mem' = IF dGranted /\ dbus.we /\ dbus.kind = "RAM" /\ dbus.be
             THEN [mem EXCEPT ![Memory!Location(dbus.addr)] = dbus.wdata]
             ELSE mem
  BY RamEdgeStores DEF Inv, DataEdge
<1>6. /\ DataProofs!Inv'
      /\ ~dGranted /\ DataFifo!InFlight < MaxDataOutstanding
           => DataFifo!InFlight' < MaxDataOutstanding
      /\ IF dGranted
         THEN Memory!DataQueue!Accept(IF dbus.we THEN Zero ELSE DataRdataMux')
         ELSE Memory!DataQueue!Quiet
  <2> DEFINE push == dGranted
             w == dbus.we
  <2> HIDE DEF push, w
  <2>1. /\ push \in BOOLEAN /\ w \in BOOLEAN
        /\ push => DataFifo!InFlight < MaxDataOutstanding
        /\ DataFifo!FifoTick(push, w, d)
    BY <1>1, <1>3 DEF push, w
  <2>2. /\ DataProofs!Inv'
        /\ ~push /\ DataFifo!InFlight < MaxDataOutstanding
             => DataFifo!InFlight' < MaxDataOutstanding
        /\ IF push
           THEN Memory!DataQueue!Accept(IF w THEN Zero ELSE DataRdataMux')
           ELSE Memory!DataQueue!Quiet
    BY <1>2, <1>4, <2>1, DataPortEdge DEF Inv
  <2>3. QED
    BY <2>2 DEF push, w
<1>7. CASE dGranted /\ ~dbus.we
  <2>1. Memory!DataQueue!Accept(DataRdataMux')
    BY <1>6, <1>7
  <2>2. UNCHANGED mem
    BY <1>5, <1>7
  <2>3. Memory!Load
    BY <1>4, <1>7, <2>1, <2>2 DEF Memory!Load
  <2>4. QED
    BY <1>6, <2>3
<1>8. CASE dGranted /\ dbus.we
  <2>1. Memory!Store
    BY <1>5, <1>6, <1>8 DEF Memory!Store
  <2>2. QED
    BY <1>6, <2>1
<1>9. CASE ~dGranted
  <2>1. Memory!NoData
    BY <1>5, <1>6, <1>9 DEF Memory!NoData
  <2>2. QED
    BY <1>6, <2>1
<1>10. QED
  BY <1>3, <1>7, <1>8, <1>9

-----------------------------------------------------------------------------
(* The invariant. *)

(* The reset establishes the invariant.                                     *)
LEMMA InitInv == Init => Inv
<1> SUFFICES ASSUME Init PROVE Inv
  OBVIOUS
<1>1. TypeOK
  <2>1. regs \in [Registers -> Nat]
    BY SettingsAssumption DEF Init
  <2>2. ibus \in {NoFetch} \cup Fetches /\ dbus \in {IdleBus} \cup DataAccesses
    BY DEF Init
  <2>3. iStallGnt \in BOOLEAN /\ iCnt \in Int /\ dStallGnt \in BOOLEAN /\ dCnt \in Int
    <3>1. InstrStall!GntInit /\ DataStall!GntInit
      BY DEF Init
    <3>2. iStallGnt = FALSE /\ iCnt = 0 /\ dStallGnt = FALSE /\ dCnt = 0
      BY <3>1 DEF InstrStall!GntInit, DataStall!GntInit
    <3>3. iCnt \in Int /\ dCnt \in Int
      BY <3>2
    <3>4. QED
      BY <3>2, <3>3, Zenon
  <2>4. /\ mem \in [0 .. RamSize - 1 -> Data] /\ ramRdata \in Data /\ rndNum \in Data
        /\ select \in {"RAM", "RND_NUM"}
    BY DataAssumption DEF Init
  <2>5. QED
    BY <2>1, <2>2, <2>3, <2>4 DEF TypeOK
<1>2. InstrProofs!Inv
  BY InstrPortReset DEF Init
<1>3. DataRdataMux \in Data
  BY DataAssumption DEF Init, DataRdataMux
<1>4. DataProofs!Inv
  BY <1>3, DataPortReset DEF Init
<1>5. ~ibus.req /\ ~dbus.req
  BY DEF Init, NoFetch, IdleBus
<1>6. QED
  BY <1>1, <1>2, <1>4, <1>5 DEF Inv, RoomForRequest, StallRunning

(* One edge of the whole memory: the types of what the edge writes, the     *)
(* room behind the requests, and a stall behind those that wait.            *)
LEMMA TickInv ==
  ASSUME Inv, Tick
  PROVE  Inv'
<1> USE DEF Inv
<1>1. /\ InstrProofs!Inv'
      /\ ~iGranted /\ InstrFifo!InFlight < MaxInstrOutstanding
           => InstrFifo!InFlight' < MaxInstrOutstanding
  BY FetchStep DEF Tick
<1>2. /\ DataProofs!Inv'
      /\ ~dGranted /\ DataFifo!InFlight < MaxDataOutstanding
           => DataFifo!InFlight' < MaxDataOutstanding
  BY DataStep DEF Tick
<1>3. /\ ibus' \in {NoFetch} \cup Fetches
      /\ ibus'.req => InstrFifo!InFlight' < MaxInstrOutstanding
  BY <1>1, InstrRequestEdge DEF Tick
<1>4. /\ dbus' \in {IdleBus} \cup DataAccesses
      /\ dbus'.req => DataFifo!InFlight' < MaxDataOutstanding
  BY <1>2, DataRequestEdge DEF Tick
<1>5. /\ mem' \in [0 .. RamSize - 1 -> Data]
      /\ ramRdata' \in Data /\ rndNum' \in Data /\ select' \in {"RAM", "RND_NUM"}
      /\ regs' \in [Registers -> Nat]
  BY RamEdgeStores, DataEdgeReads, SettingsEdge DEF Tick, DataEdge
<1>6. InstrGntDelays' \in SUBSET Nat /\ DataGntDelays' \in SUBSET Nat
  <2>1. (regs \in [Registers -> Nat] =>
          /\ InstrValidDelays \subseteq 0 .. MaxDelay /\ DataValidDelays \subseteq 0 .. MaxDelay
          /\ InstrGntDelays \subseteq Nat /\ DataGntDelays \subseteq Nat)'
    BY DelayTypes, PTL
  <2>2. QED
    BY <1>5, <2>1
<1>7. ibus'.req \in BOOLEAN /\ dbus'.req \in BOOLEAN
  BY <1>3, <1>4, FetchOnBus, AccessOnBus
<1>8. /\ iStallGnt' \in BOOLEAN /\ iCnt' \in Int
      /\ ibus'.req /\ ~iStallGnt' => iCnt' >= 1
  <2>1. /\ ibus.req \in BOOLEAN /\ iStallGnt \in BOOLEAN /\ iCnt \in Int
        /\ ibus.req /\ ~iStallGnt => iCnt >= 1
    BY FetchOnBus DEF TypeOK, StallRunning
  <2>2. InstrStall!GntTick(ibus'.req, InstrGntDelays')
    BY DEF Tick
  <2>3. QED
    BY <1>6, <1>7, <2>1, <2>2, InstrStallEdge
<1>9. /\ dStallGnt' \in BOOLEAN /\ dCnt' \in Int
      /\ dbus'.req /\ ~dStallGnt' => dCnt' >= 1
  <2>1. /\ dbus.req \in BOOLEAN /\ dStallGnt \in BOOLEAN /\ dCnt \in Int
        /\ dbus.req /\ ~dStallGnt => dCnt >= 1
    BY AccessOnBus DEF TypeOK, StallRunning
  <2>2. DataStall!GntTick(dbus'.req, DataGntDelays')
    BY DEF Tick
  <2>3. QED
    BY <1>6, <1>7, <2>1, <2>2, DataStallEdge
<1>10. TypeOK'
  <2>1. Fetches' = Fetches /\ DataAccesses' = DataAccesses /\ NoFetch' = NoFetch
        /\ IdleBus' = IdleBus
    BY DEF Fetches, DataAccesses, NoFetch, IdleBus, Loads, Stores, RndNumLoad, StallStores
  <2>2. QED
    BY <1>3, <1>4, <1>5, <1>8, <1>9, <2>1 DEF TypeOK
<1>11. RoomForRequest' /\ StallRunning'
  BY <1>3, <1>4, <1>8, <1>9 DEF RoomForRequest, StallRunning
<1>12. QED
  BY <1>1, <1>2, <1>10, <1>11

(* A step that changes no variable changes nothing the invariant looks at.  *)
LEMMA StutterInv ==
  ASSUME Inv, UNCHANGED vars
  PROVE  Inv'
<1> USE DEF vars, instrVars, dataVars
<1>1. TypeOK' /\ StallRunning'
  BY DEF Inv, TypeOK, StallRunning, Fetches, DataAccesses, NoFetch, IdleBus, Loads, Stores,
         RndNumLoad, StallStores
<1>2. InstrProofs!Inv'
  BY DEF Inv, InstrProofs!Inv, InstrProofs!TypeOK, InstrProofs!Bounded,
         InstrProofs!Occupied
<1>3. DataProofs!Inv'
  BY DEF Inv, DataProofs!Inv, DataProofs!TypeOK, DataProofs!Bounded, DataProofs!Occupied,
         DataRdataMux
<1>4. RoomForRequest'
  BY DEF Inv, RoomForRequest, InstrFifo!InFlight, DataFifo!InFlight, InstrFifo!Rvalid,
         DataFifo!Rvalid, InstrFifo!Empty, DataFifo!Empty, InstrFifo!CurrentDelay,
         DataFifo!CurrentDelay, InstrFifo!Occupied, DataFifo!Occupied
<1>5. QED
  BY <1>1, <1>2, <1>3, <1>4 DEF Inv

(* The invariant holds in every state, whatever is fetched, loaded, stored  *)
(* and set.                                                                 *)
THEOREM Invariance == Spec => []Inv
<1>1. Inv /\ [Next]_vars => Inv'
  BY TickInv, StutterInv DEF Next
<1>2. QED
  BY InitInv, <1>1, PTL DEF Spec

(* A request that waits for its grant has a stall left to count down, also  *)
(* when firmware switches the stall settings while it waits.                *)
THEOREM StallsRun == Spec => []StallRunning
<1>1. Inv => StallRunning
  BY DEF Inv
<1>2. QED
  BY <1>1, Invariance, PTL

-----------------------------------------------------------------------------
(* The refinement. *)

(* After the reset nothing is granted, owed or offered.                     *)
LEMMA InitMemory == Init => Memory!Init
<1> SUFFICES ASSUME Init PROVE Memory!Init
  OBVIOUS
<1>1. ~iGranted /\ ~dGranted
  BY DEF Init, iGranted, dGranted, NoFetch, IdleBus
<1>2. DataRdataMux \in Data
  BY DataAssumption DEF Init, DataRdataMux
<1>3. /\ InstrFifo!Owed = << >> /\ ~InstrFifo!Rvalid
      /\ DataFifo!Owed = << >> /\ ~DataFifo!Rvalid
  BY <1>2, InstrPortReset, DataPortReset DEF Init
<1>4. QED
  BY <1>1, <1>3 DEF Init, Memory!Init, Memory!InstrQueue!Init, Memory!DataQueue!Init, Bus

(* Every edge is one of the in-order memory: the two ports take their steps *)
(* together.                                                                *)
LEMMA StepMemory == Inv /\ [Next]_vars => [Memory!Next]_(Memory!vars)
<1> SUFFICES ASSUME Inv, [Next]_vars PROVE [Memory!Next]_(Memory!vars)
  OBVIOUS
<1>1. CASE Tick
  <2>1. Memory!Fetch /\ (Memory!Load \/ Memory!Store \/ Memory!NoData)
    BY <1>1, FetchStep, DataStep DEF Tick
  <2>2. QED
    BY <2>1 DEF Memory!Next
<1>2. CASE UNCHANGED vars
  BY <1>2 DEF vars, instrVars, dataVars, Memory!vars, iGranted, dGranted, Bus, DataRdataMux,
     InstrFifo!Owed, InstrFifo!Rvalid, InstrFifo!RdataO, InstrFifo!ValueOf,
     InstrFifo!Occupied, InstrFifo!Empty, InstrFifo!CurrentDelay,
     DataFifo!Owed, DataFifo!Rvalid, DataFifo!RdataO, DataFifo!ValueOf,
     DataFifo!Occupied, DataFifo!Empty, DataFifo!CurrentDelay
<1>3. QED
  BY <1>1, <1>2 DEF Next

(* mm_ram is one memory: on both ports accesses take effect at their grants *)
(* and are answered in order, for every memory size, program, stall setting *)
(* and FIFO depth above the core's limits.                                  *)
THEOREM Implements == Spec => OneMemory
  BY InitMemory, StepMemory, Invariance, PTL DEF Spec, OneMemory, Memory!Spec
=============================================================================
