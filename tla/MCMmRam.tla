------------------------------ MODULE MCMmRam ------------------------------
(* Instances of MmRam for TLC. *)
EXTENDS MmRam

NoStall == [r \in Registers |-> 0]

(* Random stalls of at most one cycle on the data bus. *)
DataStalls ==
  { [NoStall EXCEPT !["DATA_EN"] = 1, !["DATA_MODE"] = 2, !["DATA_MAX"] = 1] }

(* Firmware switches the data stalls on and off. *)
SwitchDataStalls == {<<"DATA_EN", 0>>, <<"DATA_EN", 1>>}

(* It switches the stalls of the instruction bus on and off, also while a   *)
(* fetch waits for its grant, and those of its own bus off.                 *)
SwitchBothStalls == {<<"INSTR_EN", 0>>, <<"INSTR_EN", 1>>, <<"DATA_EN", 0>>}

(* Random stalls on the instruction bus, fixed ones on the data bus. *)
MixedStalls ==
  { [NoStall EXCEPT !["INSTR_EN"] = 1, !["INSTR_MODE"] = 2, !["INSTR_MAX"] = 1,
                    !["DATA_EN"] = 1, !["DATA_MODE"] = 1, !["DATA_GNT"] = 2] }

NoAddr == {}

(* Location 1 is stored to under one of its names and read under the other; *)
(* location 0 is what ungranted requests read.                              *)
StoreMemory == {<<1, TRUE, 1>>, <<0, FALSE, 0>>}
StoreWindow == {<<4, TRUE, 1>>}

(* wptr_rdata and rvalid_i_q as a two-state simulator starts them.          *)
PowerUpZero == {<<0, FALSE>>}
=============================================================================
