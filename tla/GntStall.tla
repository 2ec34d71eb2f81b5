----------------------------- MODULE GntStall ------------------------------
(***************************************************************************)
(* The grant generator of tb_riscv/riscv_gnt_stall.sv, one per OBI port of *)
(* mm_ram.  It looks at the request of the cycle that has just begun (the  *)
(* block waits 100ps after the edge) and at the request and the grant of   *)
(* the cycle before, which it keeps in req_core_i_q and grant_core_o_q:    *)
(* here these are the unprimed req and grant.                              *)
(***************************************************************************)
EXTENDS Integers

VARIABLES
  req,   \* req_core_i in this cycle.
  grant, \* grant_core_o in this cycle.
  cnt    \* grant_delay_cnt.

(* The request is gone: the grant is $urandom. *)
GntIdle(r) ==
  /\ ~r
  /\ grant' \in BOOLEAN
  /\ UNCHANGED cnt

(* The first cycle of a request: the stall is drawn here, from delays. *)
GntNew(r, delays) ==
  /\ r
  /\ grant \/ ~req
  /\ \E d \in delays :
       /\ cnt' = d
       /\ grant' = (d = 0)

(* Mutant: the counter is stopped one cycle before the grant. *)
GntExpireLate(r) ==
  /\ r /\ req /\ ~grant
  /\ cnt = 1
  /\ cnt' = 0
  /\ UNCHANGED grant

(* The stall has run out. *)
GntExpire(r) ==
  /\ r /\ req /\ ~grant
  /\ cnt = 1
  /\ cnt' = 0
  /\ grant' = TRUE

(* Mutant: the counter of a waiting request is not decremented. *)
GntWaitForever(r) ==
  /\ r /\ req /\ ~grant
  /\ cnt # 1
  /\ UNCHANGED <<cnt, grant>>

GntWait(r) ==
  /\ r /\ req /\ ~grant
  /\ cnt # 1
  /\ cnt' = cnt - 1
  /\ UNCHANGED grant

GntTick(r, delays) ==
  \/ GntIdle(r)
  \/ GntNew(r, delays)
  \/ GntExpire(r)
  \/ GntWait(r)

GntInit == req = FALSE /\ grant = FALSE /\ cnt = 0
=============================================================================
