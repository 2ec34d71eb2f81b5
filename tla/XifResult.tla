----------------------------- MODULE XifResult -----------------------------
(***************************************************************************)
(* The single-cycle coprocessors rtl/pg_xif_mac.sv and                     *)
(* rtl/pg_xif_tinyml.sv.  They differ in the instructions they decode, in  *)
(* their datapath and in whether decoding waits for all three rs_valid     *)
(* bits; the registers that hold a result until the core takes it are the  *)
(* same.                                                                   *)
(*                                                                         *)
(* One step is one clock edge.                                             *)
(***************************************************************************)
EXTENDS XifCore, XifDatapath

CONSTANTS
  Supported,      \* The instructions this coprocessor decodes.
  RsNeeded        \* rs_valid bits its decoder waits for: 3 in pg_xif_mac,
                  \*   none in pg_xif_tinyml.

ASSUME SupportedAssumption == Supported \subseteq {"mac", "sdot4", "sdot2"}
ASSUME OperandsAssumption == Operands \subseteq Word \X Word \X Word

VARIABLES
  pending,  \* res_pending.
  resId,    \* res_id.
  resData   \* res_data.

resVars == <<pending, resId, resData>>
vars == <<coreVars, resVars>>

-----------------------------------------------------------------------------
(* Decode and issue. *)

IssueReady == ~pending

(* Mutant: a new instruction is decoded while a result waits. *)
DecodedWhilePending ==
  /\ offer # None
  /\ offer.op \in Supported
  /\ offer.rsValid >= RsNeeded

Decoded ==
  /\ offer # None /\ ~pending
  /\ offer.op \in Supported
  /\ offer.rsValid >= RsNeeded

ResultValid == pending
ResultTaken == ResultValid /\ resultReady

(* Mutant: any kill drops the waiting result. *)
ResultKilledAnyId == pending /\ commit # None /\ commit.kill

(* Mutant: kills are ignored. *)
ResultKilledNever == FALSE

(* The waiting result belongs to the instruction that is killed. *)
ResultKilled == pending /\ commit # None /\ commit.kill /\ commit.id = resId

-----------------------------------------------------------------------------
(* The clock edge of the result registers, in the order of the code's       *)
(* if/else chain.                                                           *)

(* Mutant: the operands on the bus in the cycle after the issue are used. *)
CaptureLate ==
  /\ Decoded
  /\ pending' = TRUE
  /\ resId' = offer.id
  /\ UNCHANGED resData

Capture ==
  /\ Decoded
  /\ pending' = TRUE
  /\ resId' = offer.id
  /\ resData' = ComputeResult(offer.op, offer.rs)

HandOver ==
  /\ ~Decoded /\ ResultTaken
  /\ pending' = FALSE
  /\ UNCHANGED <<resId, resData>>

DropKilled ==
  /\ ~Decoded /\ ~ResultTaken /\ ResultKilled
  /\ pending' = FALSE
  /\ UNCHANGED <<resId, resData>>

Keep ==
  /\ ~Decoded /\ ~ResultTaken /\ ~ResultKilled
  /\ UNCHANGED resVars

ResultEdge == Capture \/ HandOver \/ DropKilled \/ Keep

-----------------------------------------------------------------------------
Init ==
  /\ CoreInit
  /\ pending = FALSE
  /\ resId \in Ids     \* Zero after reset; nothing reads it before Capture.
  /\ resData = 0

Tick ==
  /\ ResultEdge
  /\ FlightEdge(Decoded, ResultTaken)
  /\ Drive

Next == Tick

Spec == Init /\ [][Next]_vars

(* The clock keeps running, the core decides on every speculative           *)
(* instruction, and it becomes ready for the result of one it committed.    *)
Fairness ==
  /\ WF_vars(Tick)
  /\ WF_vars(Tick /\ commit' # None /\ flight' # None /\ commit'.id = flight'.id)
  /\ WF_vars(Tick /\ resultReady')

FairSpec == Spec /\ Fairness

-----------------------------------------------------------------------------
(* Properties. *)

(* The registers keep their types: an id is held as an id.                  *)
TypeOK ==
  /\ CoreTypeOK
  /\ pending \in BOOLEAN
  /\ resId \in Ids

(* The core takes a result only for the instruction it has in flight, and   *)
(* the value is what that instruction computes from the operands it was     *)
(* issued with, however long the result waited and whatever was offered and *)
(* killed in the meantime.                                                  *)
TakesOwnResult ==
  ResultTaken => /\ flight # None
                 /\ resId = flight.id
                 /\ resData = ComputeResult(flight.op, flight.rs)

(* What is offered with a result is the exact dot product of the operands   *)
(* the instruction was issued with: no lane product loses bits and no sign  *)
(* is lost on the way, whatever operands follow on the issue interface.     *)
ExactDotProduct ==
  pending => resData = Promised(flight.op, flight.rs)

(* The coprocessor is busy exactly while the core has an instruction in     *)
(* flight: no result is lost before it was taken, and none outlives its     *)
(* kill.                                                                    *)
BusyIffInFlight == pending <=> flight # None

(* Once offered, a result stays on the interface unchanged until the cycle  *)
(* after it was taken or its instruction was killed.                        *)
ResultHeld ==
  [][ ResultValid /\ ~ResultTaken /\ ~Killed => pending' /\ UNCHANGED <<resId, resData>> ]_vars

(* The coprocessor always becomes ready for the next instruction. *)
ReadyAgain == pending ~> IssueReady
=============================================================================
