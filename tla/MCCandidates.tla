---------------------------- MODULE MCCandidates ----------------------------
(* Instances of Candidates for TLC. *)
EXTENDS Candidates

Insn(base, rvc, ops, writes, reads) ==
  [base |-> base, rvc |-> rvc, pc |-> 0, size |-> IF rvc THEN 2 ELSE 4, ops |-> ops,
   csr |-> "fast", writes |-> writes, reads |-> reads, divisor |-> None]

(* A load, a store, a branch, a compressed read-modify-write, a move and a  *)
(* two-operand instruction over three registers.                            *)
Mix == {
  Insn("lw", FALSE, <<"a0", "a1">>, "a0", {"a1"}),
  Insn("sw", FALSE, <<"a1", "a2">>, "zero", {"a1", "a2"}),
  Insn("beq", FALSE, <<"a0", "zero">>, "zero", {"a0"}),
  Insn("add", TRUE, <<"a0", "a1">>, "a0", {"a0", "a1"}),
  Insn("mv", TRUE, <<"a2", "a0">>, "a2", {"a0"}),
  Insn("mul", FALSE, <<"a1", "a0", "a2">>, "a1", {"a0", "a2"})
}

(* The instructions of a straight-line piece of code, one behind the other. *)
LaidOut(code) ==
  [k \in DOMAIN code |->
     [code[k] EXCEPT !.pc = MapThenSumSet(LAMBDA j : code[j].size, 1 .. k - 1)]]

MixRegions == {LaidOut(code) : code \in [1 .. 5 -> Mix]}
=============================================================================
