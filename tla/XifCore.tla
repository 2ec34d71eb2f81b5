------------------------------ MODULE XifCore ------------------------------
(***************************************************************************)
(* The CV32E40X's side of the CV-X-IF interfaces that the coprocessors of  *)
(* rtl/ are attached to.  The core is not part of this repository: this    *)
(* module is what pg_xif_mac, pg_xif_tinyml and pg_xif_swpi rely on.       *)
(*                                                                         *)
(*   issue   an instruction is offered with its operands; the transfer     *)
(*           happens in a cycle in which issue_ready is high, and the core *)
(*           sees accept in that cycle; until then it may be flushed       *)
(*   commit  the accepted instruction is speculative until the core        *)
(*           commits or kills it, once, in a later cycle than the issue    *)
(*   result  the core takes a result in a cycle in which it is ready, and  *)
(*           it is ready only for an instruction it has committed          *)
(*                                                                         *)
(* A state holds what the core drives in one clock cycle.                  *)
(***************************************************************************)
EXTENDS Integers

CONSTANTS
  Ids,       \* Identifiers of offloaded instructions.
  Ops,       \* Instructions the core may offer.
  Operands,  \* Operand triples.
  RsValid,   \* How many rs_valid bits the core may assert with an offer.
  Kills,     \* Whether the core kills ({TRUE, FALSE}) or never does ({FALSE}).
  None       \* No instruction, no commit.

VARIABLES
  offer,       \* issue_req with issue_valid, or None.
  flight,      \* The instruction accepted and not yet retired, or None.
  commit,      \* The commit transaction, or None.
  resultReady  \* result_ready.

coreVars == <<offer, flight, commit, resultReady>>

Offer == [id : Ids, op : Ops, rs : Operands, rsValid : RsValid]
InFlight == [id : Ids, op : Ops, rs : Operands, committed : BOOLEAN]
Commit == [id : Ids, kill : Kills]

ASSUME KillsAssumption == Kills \subseteq BOOLEAN
ASSUME NoneAssumption == None \notin Offer \cup InFlight \cup Commit

(* What the core drives and remembers keeps its type.                       *)
CoreTypeOK ==
  /\ offer \in Offer \cup {None}
  /\ flight \in InFlight \cup {None}
  /\ commit \in Commit \cup {None}
  /\ resultReady \in BOOLEAN

CoreInit ==
  /\ offer = None
  /\ flight = None
  /\ commit = None
  /\ resultReady = FALSE


(* The commit transaction of this cycle is about the instruction in flight. *)
CommitsFlight == flight # None /\ commit # None /\ commit.id = flight.id

Killed == CommitsFlight /\ commit.kill

(* What the clock edge makes of the instruction in flight. *)
FlightEdge(accepted, retired) ==
  flight' =
    IF accepted
    THEN [id |-> offer.id, op |-> offer.op, rs |-> offer.rs, committed |-> FALSE]
    ELSE IF retired \/ Killed
    THEN None
    ELSE IF CommitsFlight
    THEN [flight EXCEPT !.committed = TRUE]
    ELSE flight

(* What the core drives in the next cycle.  A commit may also be that of an *)
(* instruction the coprocessor declined: its identifier is not in flight.   *)
Drive ==
  /\ offer' \in {None} \cup
       {o \in Offer : flight' # None => o.id # flight'.id}
  /\ commit' \in {None} \cup
       {c \in Commit : flight' # None /\ c.id = flight'.id => ~flight'.committed}
  /\ resultReady' \in BOOLEAN
  /\ resultReady' => flight' # None /\ flight'.committed
=============================================================================
