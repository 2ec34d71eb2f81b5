--------------------------- MODULE MCCycleModel ----------------------------
(* Instances of CycleModel for TLC. *)
EXTENDS CycleModel

Insn(base, pc, size, ops, writes, reads) ==
  [base |-> base, rvc |-> size = 2, pc |-> pc, size |-> size, ops |-> ops,
   csr |-> "fast", writes |-> writes, reads |-> reads]

Csr(name, pc) == [Insn("csrr", pc, 4, <<"a0">>, "a0", {}) EXCEPT !.csr = name]

(* Every class, with targets that are aligned, misaligned and compressed,   *)
(* and the register dependencies a0 makes between neighbours.               *)
Program == {
  Csr("cycle", 0), Csr("cycle", 2), Csr("cycle", 4), Csr("slow", 0), Csr("fast", 0),
  Insn("fence", 0, 4, << >>, "zero", {}),
  Insn("div", 2, 4, <<"a0", "a1", "a0">>, "a0", {"a0", "a1"}),
  Insn("mulh", 0, 4, <<"a0", "a1", "a0">>, "a0", {"a0", "a1"}),
  Insn("mul", 4, 4, <<"a1", "a0", "a0">>, "a1", {"a0"}),
  Insn("lw", 0, 4, <<"a0", "a1">>, "a0", {"a1"}),
  Insn("lw", 2, 2, <<"a1", "a0">>, "a1", {"a0"}),
  Insn("sw", 0, 4, <<"a0", "a1">>, "zero", {"a0", "a1"}),
  Insn("beq", 0, 4, <<"a0", "zero">>, "zero", {"a0"}),
  Insn("j", 2, 2, << >>, "zero", {}),
  Insn("jr", 0, 2, <<"a0">>, "zero", {"a0"}),
  Insn("jalr", 2, 4, <<"a1", "a0">>, "a1", {"a0"}),
  Insn("add", 4, 2, <<"a0", "a1">>, "a0", {"a0", "a1"}),
  Insn("mv", 0, 4, <<"zero", "a0">>, "zero", {"a0"})
}

(* Calls and returns behind the instruction that computes their target: the *)
(* compressed call prints only its source, a return prints nothing.         *)
Calls == {
  Csr("cycle", 0),
  Insn("lw", 4, 4, <<"ra", "a0">>, "ra", {"a0"}),
  Insn("lw", 4, 4, <<"a0", "a0">>, "a0", {"a0"}),
  Insn("jr", 8, 2, <<"a0">>, "zero", {"a0"}),
  Insn("jalr", 8, 2, <<"a0">>, "ra", {"a0"}),
  Insn("ret", 8, 2, << >>, "zero", {"ra"})
}
=============================================================================
