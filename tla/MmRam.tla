------------------------------- MODULE MmRam -------------------------------
(***************************************************************************)
(* The OBI memory of the testbench (tb/core_custom/mm_ram.sv): the dual-   *)
(* port RAM, the two response FIFOs, the two grant generators, the address *)
(* decode, the read multiplexer and the stall registers, with a core that  *)
(* obeys OBI on both buses.                                                *)
(*                                                                         *)
(* One step is one clock edge.  A RAM location stands for one byte lane of *)
(* the real RAM: be says whether the lane is enabled.                      *)
(***************************************************************************)
EXTENDS Integers, Sequences

CONSTANTS
  RamSize, DbgSize, DmHalt, Data, Zero, \* As in InOrderMemory.
  Depth, MaxDelay, PowerUp, \* The response FIFOs (RvalidStall).
  MaxInstrOutstanding,   \* Accesses in flight on the instruction bus
  MaxDataOutstanding,    \*   and on the data bus.
  FetchAddr,             \* Bus addresses the core fetches from,
  LoadAddr,              \*   bus addresses it loads from,
  StoreWrites,           \*   and its stores, <<address, lane enable, value>>.
  Windows,               \* Address windows the data bus uses, among
                         \*   "RAM", "RND_NUM" and "RND_STALL".
  InitialRegs,           \* The outcomes of configure_stalls.
  StallWrites            \* <<register, value>>: the stall settings that
                         \*   firmware writes while it runs.

(* The debug window is a part of the memory, and programs stay within the   *)
(* memory and its window.                                                   *)
Addresses == (0 .. RamSize - 1) \cup (DmHalt .. DmHalt + DbgSize - 1)

ASSUME RamAssumption ==
  RamSize \in Nat \ {0} /\ DbgSize \in 0 .. RamSize /\ DmHalt \in Nat
ASSUME DataAssumption == Zero \in Data
ASSUME AddressAssumption ==
  /\ FetchAddr \subseteq Addresses
  /\ LoadAddr \subseteq Addresses
  /\ StoreWrites \subseteq Addresses \X BOOLEAN \X Data

(* As in RvalidStall, for both buses; a delay is cut to four bits.          *)
ASSUME FifoAssumption ==
  /\ Depth \in Nat /\ MaxDelay \in Nat /\ MaxDelay >= 15
  /\ MaxInstrOutstanding \in 1 .. Depth - 1
  /\ MaxDataOutstanding \in 1 .. Depth - 1
  /\ PowerUp \subseteq (0 .. Depth - 1) \X BOOLEAN

Registers == {"INSTR_EN", "INSTR_MODE", "INSTR_MAX", "INSTR_GNT", "INSTR_VALID",
              "DATA_EN", "DATA_MODE", "DATA_MAX", "DATA_GNT", "DATA_VALID"}

ASSUME SettingsAssumption ==
  InitialRegs \subseteq [Registers -> Nat] /\ StallWrites \subseteq Registers \X Nat

VARIABLES
  regs,     \* rnd_stall_regs.
  mem,      \* dp_ram.mem.
  ibus, iStallGnt, iCnt, iWptr, iRptr, iFifo, iSlot, iArriving,
  iRdata,   \* ram_instr_rdata, the output register of RAM port A.
  dbus, dStallGnt, dCnt, dWptr, dRptr, dFifo, dSlot, dArriving,
  ramRdata, \* ram_data_rdata, the output register of RAM port B.
  select,   \* select_rdata_q.
  rndNum    \* rnd_num.

instrVars == <<ibus, iStallGnt, iCnt, iWptr, iRptr, iFifo, iSlot, iArriving, iRdata>>
dataVars  == <<dbus, dStallGnt, dCnt, dWptr, dRptr, dFifo, dSlot, dArriving,
               ramRdata, select, rndNum>>
vars == <<regs, mem, instrVars, dataVars>>

(* The read multiplexer in front of the data response FIFO. *)
DataRdataMux == IF select = "RND_NUM" THEN rndNum ELSE ramRdata

InstrStall == INSTANCE GntStall WITH
  req <- ibus.req, grant <- iStallGnt, cnt <- iCnt
DataStall == INSTANCE GntStall WITH
  req <- dbus.req, grant <- dStallGnt, cnt <- dCnt
InstrFifo == INSTANCE RvalidStall WITH
  MaxOutstanding <- MaxInstrOutstanding,
  wptr <- iWptr, rptr <- iRptr, fifo <- iFifo, wptrRdata <- iSlot,
  rvalidIQ <- iArriving, rdata <- iRdata
DataFifo == INSTANCE RvalidStall WITH
  MaxOutstanding <- MaxDataOutstanding,
  wptr <- dWptr, rptr <- dRptr, fifo <- dFifo, wptrRdata <- dSlot,
  rvalidIQ <- dArriving, rdata <- DataRdataMux

-----------------------------------------------------------------------------
(* The stall registers.  mode 1 is STANDARD, 2 is RANDOM. *)

Drawn(en, mode, max, fixed) ==
  CASE regs[en] % 2 = 1 /\ regs[mode] = 1 -> {regs[fixed]}
    [] regs[en] % 2 = 1 /\ regs[mode] = 2 -> 0 .. regs[max]
    [] OTHER                              -> {0}

FourBits(S) == {d % 16 : d \in S}

InstrValidDelays ==
  FourBits(Drawn("INSTR_EN", "INSTR_MODE", "INSTR_MAX", "INSTR_VALID"))
DataValidDelays ==
  FourBits(Drawn("DATA_EN", "DATA_MODE", "DATA_MAX", "DATA_VALID"))
InstrGntDelays == Drawn("INSTR_EN", "INSTR_MODE", "INSTR_MAX", "INSTR_GNT")
DataGntDelays  == Drawn("DATA_EN", "DATA_MODE", "DATA_MAX", "DATA_GNT")

(* Without stalls every request is granted at once; a grant without a       *)
(* request is random, and nothing looks at it.                              *)
iGranted == ibus.req /\ (regs["INSTR_EN"] # 0 => iStallGnt)
dGranted == dbus.req /\ (regs["DATA_EN"] # 0 => dStallGnt)

-----------------------------------------------------------------------------
(* Address decode. *)

Remap(a) ==
  IF a >= DmHalt /\ a < DmHalt + DbgSize
  THEN a - DmHalt + RamSize - DbgSize
  ELSE a

(* Mutant: only data accesses see the debug window. *)
RemapNothing(a) == a % RamSize

InstrAddrRemap(a) == Remap(a)

RamAccess == dGranted /\ dbus.kind = "RAM"
RamAddr == IF RamAccess THEN Remap(dbus.addr) ELSE 0
(* Mutant: the write enable is that of the bus, granted or not. *)
RamWeUngranted == dbus.req /\ dbus.kind = "RAM" /\ dbus.we

RamWe == RamAccess /\ dbus.we
(* With stalls enabled the RAM port is enabled by the raw request, so a     *)
(* request that still waits for its grant reads location 0.                 *)
RamReq == IF regs["DATA_EN"] # 0 THEN dbus.req ELSE RamAccess

-----------------------------------------------------------------------------
(* The clock edge, component by component. *)

FetchEdge ==
  /\ iRdata' = mem[InstrAddrRemap(ibus.addr)]
  /\ \E d \in InstrValidDelays : InstrFifo!FifoTick(iGranted, FALSE, d)

RamEdge ==
  /\ mem' = IF RamReq /\ RamWe /\ dbus.be
            THEN [mem EXCEPT ![RamAddr] = dbus.wdata]
            ELSE mem
  /\ ramRdata' = IF RamReq /\ ~RamWe THEN mem[RamAddr] ELSE ramRdata

RndNumRead == dGranted /\ ~dbus.we /\ dbus.kind = "RND_NUM"

PeripheralEdge ==
  /\ select' = IF RndNumRead THEN "RND_NUM" ELSE "RAM"
  /\ IF RndNumRead THEN rndNum' \in Data ELSE UNCHANGED rndNum
  /\ regs' = IF dGranted /\ dbus.we /\ dbus.kind = "RND_STALL"
             THEN [regs EXCEPT ![dbus.reg] = dbus.wdata]
             ELSE regs

DataEdge ==
  /\ RamEdge
  /\ PeripheralEdge
  /\ \E d \in DataValidDelays : DataFifo!FifoTick(dGranted, dbus.we, d)

-----------------------------------------------------------------------------
(* The core: a request is held until its grant, and a new one is raised     *)
(* only while there is room in flight.  The payload of an idle bus is not   *)
(* looked at and is kept constant.                                          *)

NoFetch == [req |-> FALSE, addr |-> 0]
Fetches == {[req |-> TRUE, addr |-> a] : a \in FetchAddr}

IdleBus == [req |-> FALSE, we |-> FALSE, be |-> FALSE, kind |-> "RAM",
            addr |-> 0, reg |-> "none", wdata |-> Zero]
Loads == {[IdleBus EXCEPT !.req = TRUE, !.be = TRUE, !.addr = a] : a \in LoadAddr}
Stores == {[IdleBus EXCEPT !.req = TRUE, !.we = TRUE, !.addr = w[1], !.be = w[2],
                           !.wdata = w[3]] : w \in StoreWrites}
RndNumLoad == [IdleBus EXCEPT !.req = TRUE, !.kind = "RND_NUM", !.be = TRUE]
StallStores == {[IdleBus EXCEPT !.req = TRUE, !.we = TRUE, !.be = TRUE,
                                !.kind = "RND_STALL", !.reg = w[1], !.wdata = w[2]] :
                  w \in StallWrites}
DataAccesses ==
  {b \in Loads \cup Stores \cup {RndNumLoad} \cup StallStores : b.kind \in Windows}

InstrRequest ==
  \/ /\ ibus.req /\ ~iGranted
     /\ UNCHANGED ibus
  \/ /\ ~ibus.req \/ iGranted
     /\ ibus' \in {NoFetch} \cup
          (IF InstrFifo!InFlight' < MaxInstrOutstanding THEN Fetches ELSE {})

DataRequest ==
  \/ /\ dbus.req /\ ~dGranted
     /\ UNCHANGED dbus
  \/ /\ ~dbus.req \/ dGranted
     /\ dbus' \in {IdleBus} \cup
          (IF DataFifo!InFlight' < MaxDataOutstanding THEN DataAccesses ELSE {})

-----------------------------------------------------------------------------
Init ==
  /\ regs \in InitialRegs
  /\ mem \in [0 .. RamSize - 1 -> Data]
  /\ ibus = NoFetch /\ InstrStall!GntInit /\ InstrFifo!FifoInit /\ iRdata \in Data
  /\ dbus = IdleBus /\ DataStall!GntInit /\ DataFifo!FifoInit /\ ramRdata \in Data
  /\ select = "RAM" /\ rndNum = Zero

(* The grant generators run last: 100ps after the edge, they see the new    *)
(* request and the new settings.                                            *)
Tick ==
  /\ FetchEdge
  /\ DataEdge
  /\ InstrRequest
  /\ DataRequest
  /\ InstrStall!GntTick(ibus.req', InstrGntDelays')
  /\ DataStall!GntTick(dbus.req', DataGntDelays')

Next == Tick

Spec == Init /\ [][Next]_vars

(* The clock keeps running. *)
FairSpec == Spec /\ WF_vars(Tick)

-----------------------------------------------------------------------------
(* Properties. *)

Bus(valid, value) == IF valid THEN <<value>> ELSE << >>

Memory == INSTANCE InOrderMemory WITH
  iPending <- InstrFifo!Owed, iResp <- Bus(InstrFifo!Rvalid, InstrFifo!RdataO),
  dPending <- DataFifo!Owed,  dResp <- Bus(DataFifo!Rvalid, DataFifo!RdataO)

(* Whatever the stall settings are and however firmware changes them, the   *)
(* two ports behave as one memory whose accesses take effect at their       *)
(* grants and are answered in order: late values, bypass, the reads of      *)
(* location 0 that ungranted requests cause and the switching of the read   *)
(* multiplexer never reach the core.                                        *)
OneMemory == Memory!Spec

(* A waiting request always has a stall left to count down, so it cannot    *)
(* wait for a counter that has passed its end, also when the settings are   *)
(* switched while it waits.                                                 *)
StallRunning ==
  /\ ibus.req /\ ~iStallGnt => iCnt >= 1
  /\ dbus.req /\ ~dStallGnt => dCnt >= 1

(* Every fetch and every data access is granted: a fetch also when the      *)
(* stalls of its bus are switched while it waits, and a data access, which  *)
(* nothing but a store on its own bus could switch, whatever settings the   *)
(* accesses in front of it have left behind.                                *)
EveryRequestGranted == (ibus.req ~> iGranted) /\ (dbus.req ~> dGranted)
=============================================================================
