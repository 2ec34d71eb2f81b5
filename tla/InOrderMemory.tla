--------------------------- MODULE InOrderMemory ---------------------------
(***************************************************************************)
(* What mm_ram promises to a core with an instruction and a data bus: one  *)
(* memory.  An access takes effect at the clock edge of its grant; a fetch *)
(* granted in the same cycle as a store reads the memory before the store; *)
(* each bus answers its accesses in the order of their grants, a read with *)
(* what the memory held at its grant, a store with zero.                   *)
(*                                                                         *)
(* The buses and grants are observed: the specification never says when a  *)
(* request comes, how long its grant takes or how long its response takes. *)
(***************************************************************************)
EXTENDS Integers, Sequences

CONSTANTS
  RamSize,  \* Locations of the RAM, 0 .. RamSize - 1.
  DbgSize,  \* Locations of the debug window.
  DmHalt,   \* First bus address of the debug window.
  Data,     \* Values of a location.
  Zero

VARIABLES
  ibus, iGranted,       \* The fetch on the bus and whether it is granted.
  dbus, dGranted,       \* The data access on the bus, likewise.
  mem,                  \* The memory.
  iPending, iResp,      \* What is owed and offered on the instruction bus.
  dPending, dResp       \* What is owed and offered on the data bus.

vars == <<ibus, iGranted, dbus, dGranted, mem, iPending, iResp, dPending, dResp>>

InstrQueue == INSTANCE ResponseQueue WITH
                pending <- iPending, resp <- iResp, arrival <- Zero
DataQueue  == INSTANCE ResponseQueue WITH
                pending <- dPending, resp <- dResp, arrival <- Zero

(* The debug window is another name for the end of the memory. *)
Location(a) ==
  IF a \in DmHalt .. DmHalt + DbgSize - 1
  THEN a - DmHalt + RamSize - DbgSize
  ELSE a

Fetch == IF iGranted
         THEN InstrQueue!Accept(mem[Location(ibus.addr)])
         ELSE InstrQueue!Quiet

Load ==
  /\ dGranted /\ ~dbus.we
  /\ CASE dbus.kind = "RAM" -> DataQueue!Accept(mem[Location(dbus.addr)])
       [] OTHER             -> \E v \in Data : DataQueue!Accept(v)
  /\ UNCHANGED mem

Store ==
  /\ dGranted /\ dbus.we
  /\ DataQueue!Accept(Zero)
  /\ mem' = IF dbus.kind = "RAM" /\ dbus.be
            THEN [mem EXCEPT ![Location(dbus.addr)] = dbus.wdata]
            ELSE mem

NoData ==
  /\ ~dGranted
  /\ DataQueue!Quiet
  /\ UNCHANGED mem

Init ==
  /\ ~iGranted /\ ~dGranted
  /\ mem \in [0 .. RamSize - 1 -> Data]
  /\ InstrQueue!Init
  /\ DataQueue!Init

Next == Fetch /\ (Load \/ Store \/ NoData)

Spec == Init /\ [][Next]_vars
=============================================================================
