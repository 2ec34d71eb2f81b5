--------------------------- MODULE ResponseQueue ---------------------------
(***************************************************************************)
(* What one OBI response channel of the testbench memory promises: every   *)
(* accepted access is owed exactly one response, responses are offered in  *)
(* the order of acceptance, one clock cycle each, and the value offered is *)
(* the value that was owed.  No pointers, no delays, no bypass.            *)
(*                                                                         *)
(* One step is one clock cycle.  resp is what is on the response bus in    *)
(* the current cycle: << >> when rvalid is low, << value >> when it is     *)
(* high.  A response on the bus is consumed by the clock edge that ends    *)
(* the cycle (OBI as used here has no rready).                             *)
(***************************************************************************)
EXTENDS Sequences

CONSTANT
  Zero     \* The value owed to a write.

VARIABLES
  pending, \* Values owed, oldest first, the one on the bus included.
  resp,    \* The response on the bus in this cycle.
  arrival  \* The value the memory presents in this cycle.

vars == <<pending, resp, arrival>>

Init ==
  /\ pending = << >>
  /\ resp = << >>

(* What is still owed after the edge that consumes the response on the bus. *)
Unanswered == IF resp = << >> THEN pending ELSE Tail(pending)

(* In the next cycle the bus is quiet or offers the oldest value owed. *)
Offer ==
  \/ resp' = << >>
  \/ /\ pending' # << >>
     /\ resp' = <<Head(pending')>>

(* No access is accepted at this edge. *)
Quiet ==
  /\ pending' = Unanswered
  /\ Offer

(* An access is accepted at this edge and v is owed to it. *)
Accept(v) ==
  /\ pending' = Append(Unanswered, v)
  /\ Offer

(* A write is owed zero, a read the value the memory presents one cycle     *)
(* after the read was accepted.                                             *)
Next == Quiet \/ Accept(Zero) \/ Accept(arrival')

Spec == Init /\ [][Next]_vars
=============================================================================
