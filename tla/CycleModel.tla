----------------------------- MODULE CycleModel ----------------------------
(***************************************************************************)
(* The cycle models model/cv32e40x_model.py and model/cv32e40p_model.py:   *)
(* parsing of a Spike trace with replay of the logged register writes, the *)
(* measured region between two reads of the cycle CSR, and the two timing  *)
(* tables (Timing), run side by side over the same region.                 *)
(*                                                                         *)
(* One step runs one instruction of the trace and parses the one after it. *)
(***************************************************************************)
EXTENDS Timing

CONSTANTS
  Insns,      \* The instructions of the trace: see InsnType.
  Values,     \* Values of a register.
  LogCommits, \* Whether the trace was made with --log-commits.
  MaxInsns    \* Bound: instructions in the measured region.

ASSUME InsnsAssumption == Insns \subseteq InsnType
(* An instruction names registers, and a division three operands. *)
ASSUME DivOperandsAssumption ==
  \A i \in Insns : i.base \in DIV_REM => i.ops[3] \in Regs \cup {"zero"}
ASSUME ValuesAssumption == Values \subseteq Nat /\ 0 \in Values /\ None \notin Values

VARIABLES
  x,      \* Spike's register file.
  regs,   \* The register file that parse_trace replays.
  before, \* insns[i - 1], or None.
  ins,    \* insns[i], or None past the end.
  phase,  \* "measured" between the two markers, "done" after the second.
  n,      \* Instructions of the region run so far.
  x40,    \* Tally of CV32E40XModel over the region,
  p40,    \* of CV32E40PModel,
  whole,  \* and the cycles CV32E40XModel charges the same instructions
          \*   when it runs the whole trace.
  met     \* History: how often the region met each row of the table of
          \*   differences.

vars == <<x, regs, before, ins, phase, n, x40, p40, whole, met>>

-----------------------------------------------------------------------------
(* A tally: the total and the stalls by cause. *)

NoTally == [cycles |-> 0, stalls |-> [c \in Causes |-> 0], misalign |-> 0]

Book(t, cost) ==
  [cycles   |-> t.cycles + cost.cycles,
   stalls   |-> [t.stalls EXCEPT ![cost.cause] = @ + cost.stall],
   misalign |-> t.misalign + cost.misalign]

StallTotal(t) ==
  t.misalign + t.stalls["fence"] + t.stalls["div_multicycle"]
    + t.stalls["mul_multicycle"] + t.stalls["branch_flush"] + t.stalls["jump_flush"]
    + t.stalls["raw_jalr"] + t.stalls["raw_load_use"] + t.stalls["csr_slow"]
    + t.stalls["none"]

(* The rows of the table that says how the two cores differ: an instruction *)
(* of a kind, or a jalr that needs the result of its predecessor.           *)
Rows == {"mulh", "fence", "slow_csr", "jalr", "jalr_load"}
Meets(prev, i) ==
  {r \in Rows :
     \/ r = "mulh" /\ i.base \in MUL_HIGH
     \/ r = "fence" /\ i.base \in FENCES
     \/ r = "slow_csr" /\ i.base \in CSR_INSNS /\ i.csr # "fast"
     \/ r = "jalr" /\ i.base \in JALR_LIKE /\ Raw(prev, i)
     \/ r = "jalr_load" /\ i.base \in JALR_LIKE /\ Raw(prev, i)
          /\ prev.base \in LOADS}

-----------------------------------------------------------------------------
(* Parsing.  Spike prints an instruction before it executes it and, with    *)
(* --log-commits, the register it wrote in the next line; x0 is never       *)
(* logged.  divisor is what parse_trace recovers, trueDivisor is history.   *)

(* The commit line of an instruction that wrote v. *)
Commit(file, i, v) ==
  IF i.writes # "zero" THEN [file EXCEPT ![i.writes] = v] ELSE file

(* The divisor in a register file: rs2 of a 32-bit encoding.                *)
Divisor(file, i) ==
  IF i.base \in DIV_REM /\ i.size = 4
  THEN IF i.ops[3] = "zero" THEN 0 ELSE file[i.ops[3]]
  ELSE None

(* Mutant: the commit line of the division itself is replayed first. *)
RecoveredLate(i) == Divisor(regs', i)

(* Read from the replayed file, also when there was nothing to replay.      *)
Recovered(i) == Divisor(regs, i)

(* The instruction as the parser keeps it. *)
Entry(i, divisor, trueDivisor) ==
  [base |-> i.base, rvc |-> i.rvc, pc |-> i.pc, size |-> i.size, ops |-> i.ops,
   csr |-> i.csr, writes |-> i.writes, reads |-> i.reads,
   divisor |-> divisor, trueDivisor |-> trueDivisor]

Parse(i) ==
  /\ \E v \in Values :
       /\ x' = Commit(x, i, v)
       /\ regs' = IF LogCommits THEN Commit(regs, i, v) ELSE regs
  /\ ins' = Entry(i, Recovered(i), Divisor(x, i))

ParseEnd == ins' = None /\ UNCHANGED <<x, regs>>

-----------------------------------------------------------------------------
(* The run.  The region excludes both markers, so its first instruction has *)
(* no predecessor and its last one no successor.                            *)

IsMarker(i) == i.base \in CSR_INSNS /\ i.csr = "cycle"

InRegion(i) == IF i # None /\ IsMarker(i) THEN None ELSE i

Charge ==
  LET prev == InRegion(before)
      nxt  == InRegion(ins')
  IN  /\ x40' = Book(Book(x40, XInsnCycles(ins, nxt)), XHazardPenalty(prev, ins))
      /\ p40' = Book(Book(p40, PInsnCycles(ins, nxt)), PHazardPenalty(prev, ins))
      /\ whole' = whole + XInsnCycles(ins, ins').cycles
                        + XHazardPenalty(before, ins).cycles
      /\ met' = [r \in Rows |-> met[r] + (IF r \in Meets(prev, ins) THEN 1 ELSE 0)]
      /\ n' = n + 1
      /\ UNCHANGED phase

(* The marker that opens the region is the first instruction. *)
OpenRegion ==
  /\ before = None /\ IsMarker(ins)
  /\ UNCHANGED <<phase, n, x40, p40, whole, met>>

RunInsn ==
  /\ ~IsMarker(ins)
  /\ n < MaxInsns
  /\ Charge

CloseRegion ==
  /\ before # None /\ IsMarker(ins)
  /\ phase' = "done"
  /\ UNCHANGED <<n, x40, p40, whole, met>>

Init ==
  /\ x = [r \in Regs |-> 0]
  /\ regs = [r \in Regs |-> 0]
  /\ before = None
  /\ \E i \in Insns : IsMarker(i) /\ ins = Entry(i, None, None)
  /\ phase = "measured" /\ n = 0 /\ x40 = NoTally /\ p40 = NoTally /\ whole = 0
  /\ met = [r \in Rows |-> 0]

Next ==
  /\ phase = "measured" /\ ins # None
  /\ before' = ins
  /\ ParseEnd \/ \E i \in Insns : Parse(i)
  /\ OpenRegion \/ RunInsn \/ CloseRegion

Spec == Init /\ [][Next]_vars

-----------------------------------------------------------------------------
(* Properties. *)

Tally == [cycles : Nat, stalls : [Causes -> Nat], misalign : Nat]
Parsed == {Entry(i, d, t) : i \in Insns, d \in Values \cup {None},
                            t \in Values \cup {None}}

(* Both register files, the trace and the tallies keep their types.         *)
TypeOK ==
  /\ x \in [Regs -> Values] /\ regs \in [Regs -> Values]
  /\ before \in Parsed \cup {None}
  /\ ins \in Parsed \cup {None}
  /\ phase \in {"measured", "done"}
  /\ n \in Nat /\ whole \in Nat
  /\ x40 \in Tally /\ p40 \in Tally /\ met \in [Rows -> Nat]

(* The total decomposes as one cycle per instruction plus the stalls that   *)
(* were booked, for both cores and every trace.                             *)
Decomposition ==
  /\ x40.cycles = n + StallTotal(x40)
  /\ p40.cycles = n + StallTotal(p40)

(* The two models differ by exactly what the table in cv32e40p_model.py     *)
(* lists: in a region, one more cycle per high multiply, three fewer per    *)
(* fence, three more per slow CSR and one fewer per jalr that needs what    *)
(* the load in front of it loaded.  Each is booked under its own cause, and *)
(* under the other causes both cores book the same.  (The CSR jvt, which    *)
(* the table also names, costs one cycle: "we do not use" it.)              *)
CoresDifferAsDocumented ==
  /\ p40.cycles + 3 * met["fence"] + met["jalr_load"]
       = x40.cycles + met["mulh"] + 3 * met["slow_csr"]
  /\ x40.stalls["mul_multicycle"] = 3 * met["mulh"]
  /\ p40.stalls["mul_multicycle"] = 4 * met["mulh"]
  /\ x40.stalls["fence"] = 4 * met["fence"] /\ p40.stalls["fence"] = met["fence"]
  /\ x40.stalls["csr_slow"] = 0 /\ p40.stalls["csr_slow"] = 3 * met["slow_csr"]
  /\ x40.stalls["raw_jalr"] = met["jalr"] + met["jalr_load"]
  /\ p40.stalls["raw_jalr"] = met["jalr"]
  /\ x40.misalign = p40.misalign
  /\ \A c \in {"div_multicycle", "branch_flush", "jump_flush", "raw_load_use", "none"} :
       x40.stalls[c] = p40.stalls[c]

(* Cutting the region out of the trace never adds cycles, and loses at most *)
(* those of its two ends: a jalr that reads the register the first rdcycle  *)
(* wrote, and a taken branch to a misaligned second rdcycle.                *)
RegionWithinBoundary ==
  phase = "done" => x40.cycles <= whole /\ whole <= x40.cycles + 4

(* A division whose divisor is reported as recovered is charged for the     *)
(* divisor the program really used, also when it overwrites its operand.    *)
DivisorExact ==
  ins # None /\ ins.divisor # None => ins.divisor = ins.trueDivisor

(* A jalr whose target was computed by the instruction right in front of it *)
(* is charged the hazard, however the jump is printed.                      *)
JalrHazardCharged ==
  LET prev == InRegion(before)
  IN  ins # None /\ prev # None /\ ins.base \in JALR_LIKE /\ prev.writes \in ins.reads
        => XHazardPenalty(prev, ins).cycles >= 1
=============================================================================
