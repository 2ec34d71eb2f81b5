------------------------------- MODULE Timing -------------------------------
(***************************************************************************)
(* What model/cv32e40x_model.py and model/cv32e40p_model.py know of one    *)
(* instruction: the registers that the disassembly prints, and the timing  *)
(* tables of the two cores.  A mnemonic stands for its class.              *)
(***************************************************************************)
EXTENDS Integers, Sequences, FiniteSets

CONSTANTS
  Regs,       \* Registers other than x0.
  WordBits,   \* 32 in the code.
  DivCycles,  \* --div-cycles.
  None

-----------------------------------------------------------------------------
(* Instructions. *)

LOADS     == {"lw"}
STORES    == {"sw"}
BRANCHES  == {"beq"}
JUMPS     == {"j", "jr", "ret", "jalr"}
JALR_LIKE == {"jr", "ret", "jalr"}
MUL_HIGH  == {"mulh"}
DIV_REM   == {"div"}
CSR_INSNS == {"csrr"}
FENCES    == {"fence"}
NO_DEST   == BRANCHES \cup STORES \cup {"j", "jr", "ret", "fence"}
RVC_READ_MODIFY_WRITE == {"add", "addi", "slli"}
Mnemonics == {"mul", "add", "addi", "slli", "mv"} \cup LOADS \cup STORES \cup BRANCHES \cup JUMPS
               \cup MUL_HIGH \cup DIV_REM \cup CSR_INSNS \cup FENCES

(* base is the mnemonic without "c.", ops the registers as printed, csr the *)
(* CSR named: the marker, another one the CV32E40P is slow on, or a fast    *)
(* one.  writes and reads are what the instruction really does to x.        *)
InsnType ==
  [base : Mnemonics, rvc : BOOLEAN, pc : Nat, size : {2, 4},
   ops : Seq(Regs \cup {"zero"}), csr : {"cycle", "slow", "fast"},
   writes : Regs \cup {"zero"}, reads : SUBSET Regs]

ASSUME WidthAssumption == WordBits \in Nat
ASSUME DivAssumption == DivCycles \in Nat \ {0}

Fallthrough(i) == i.pc + i.size

Dest(i) == IF i.ops = << >> \/ i.base \in NO_DEST THEN None ELSE Head(i.ops)

(* The sources as decode_regs lists them: those printed and, of a compressed *)
(* read-modify-write, the destination.                                      *)
SrcList(i) ==
  IF i.ops = << >> THEN << >>
  ELSE IF i.base \in NO_DEST THEN i.ops
  ELSE IF i.rvc /\ i.base \in RVC_READ_MODIFY_WRITE
            /\ \A k \in 2 .. Len(i.ops) : i.ops[k] # Head(i.ops)
  THEN i.ops
  ELSE Tail(i.ops)

Srcs(i) == {SrcList(i)[k] : k \in 1 .. Len(SrcList(i))}

(* bit_length: how many powers of two are at most v. *)
BitLength(v) == Cardinality({k \in 0 .. WordBits - 1 : v >= 2 ^ k})
Clz(v) == WordBits - BitLength(v)

-----------------------------------------------------------------------------
(* What an instruction costs: the cycles that insn_cycles or hazard_penalty *)
(* returns, and the stalls it books, under a cause and for a misaligned     *)
(* target.                                                                  *)

Causes == {"fence", "div_multicycle", "mul_multicycle", "branch_flush", "jump_flush",
           "raw_jalr", "raw_load_use", "csr_slow", "none"}

Cost(cycles, cause, stall, misalign) ==
  [cycles |-> cycles, cause |-> cause, stall |-> stall, misalign |-> misalign]
Free == Cost(0, "none", 0, 0)

TargetPenalty(nxt) ==
  IF nxt # None /\ nxt.pc % 4 # 0 /\ nxt.size = 4 THEN 1 ELSE 0

(* Mutant: the end of the region counts as a taken branch. *)
TakenAtEnd(i, nxt) == nxt = None \/ nxt.pc # Fallthrough(i)

Taken(i, nxt) == nxt # None /\ nxt.pc # Fallthrough(i)

DivCost(i) == IF i.divisor # None THEN 3 + Clz(i.divisor) ELSE DivCycles

XInsnCycles(i, nxt) ==
  LET pen == TargetPenalty(nxt)
  IN CASE i.base \in FENCES    -> Cost(5 + pen, "fence", 4, pen)
       [] i.base \in CSR_INSNS -> Cost(1, "none", 0, 0)
       [] i.base \in DIV_REM   -> Cost(DivCost(i), "div_multicycle", DivCost(i) - 1, 0)
       [] i.base \in MUL_HIGH  -> Cost(4, "mul_multicycle", 3, 0)
       [] i.base \in BRANCHES /\ Taken(i, nxt) -> Cost(3 + pen, "branch_flush", 2, pen)
       [] i.base \in JUMPS     -> Cost(2 + pen, "jump_flush", 1, pen)
       [] OTHER                -> Cost(1, "none", 0, 0)

PInsnCycles(i, nxt) ==
  LET pen == TargetPenalty(nxt)
  IN CASE i.base \in FENCES    -> Cost(2 + pen, "fence", 1, pen)
       [] i.base \in CSR_INSNS /\ i.csr # "fast" -> Cost(4, "csr_slow", 3, 0)
       [] i.base \in CSR_INSNS /\ i.csr = "fast" -> Cost(1, "none", 0, 0)
       [] i.base \in MUL_HIGH  -> Cost(5, "mul_multicycle", 4, 0)
       [] OTHER                -> XInsnCycles(i, nxt)

(* The result of prev is an operand of i, as far as the printed text tells. *)
Raw(prev, i) ==
  prev # None /\ Dest(prev) # None /\ Dest(prev) # "zero" /\ Dest(prev) \in Srcs(i)

(* Mutant: a load in front of a jalr is booked as one stall but charged two. *)
XHazardMisbooked(prev, i) ==
  CASE Raw(prev, i) /\ i.base \in JALR_LIKE ->
         Cost(IF prev.base \in LOADS THEN 2 ELSE 1, "raw_jalr", 1, 0)
    [] Raw(prev, i) /\ i.base \notin JALR_LIKE /\ prev.base \in LOADS ->
         Cost(1, "raw_load_use", 1, 0)
    [] OTHER -> Free

XHazardPenalty(prev, i) ==
  LET p == IF prev.base \in LOADS THEN 2 ELSE 1
  IN CASE Raw(prev, i) /\ i.base \in JALR_LIKE -> Cost(p, "raw_jalr", p, 0)
       [] Raw(prev, i) /\ i.base \notin JALR_LIKE /\ prev.base \in LOADS ->
            Cost(1, "raw_load_use", 1, 0)
       [] OTHER -> Free

(* Mutant: a jalr behind a load is charged only as a load-use hazard. *)
PHazardLoadFirst(prev, i) ==
  CASE Raw(prev, i) /\ prev.base \in LOADS -> Cost(1, "raw_load_use", 1, 0)
    [] Raw(prev, i) /\ prev.base \notin LOADS /\ i.base \in JALR_LIKE ->
         Cost(1, "raw_jalr", 1, 0)
    [] OTHER -> Free

PHazardPenalty(prev, i) ==
  CASE Raw(prev, i) /\ i.base \in JALR_LIKE -> Cost(1, "raw_jalr", 1, 0)
    [] Raw(prev, i) /\ i.base \notin JALR_LIKE /\ prev.base \in LOADS ->
         Cost(1, "raw_load_use", 1, 0)
    [] OTHER -> Free
=============================================================================
