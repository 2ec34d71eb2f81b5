---------------------------- MODULE XifDatapath ----------------------------
(***************************************************************************)
(* The datapaths of rtl/pg_xif_mac.sv and rtl/pg_xif_tinyml.sv, with lanes *)
(* of LaneBits bits (8 in the code) and words of four lanes.  Operands are *)
(* unsigned words; rs is the triple <<rs1, rs2, rs3>>.                     *)
(***************************************************************************)
EXTENDS Integers, FiniteSetsExt

CONSTANT LaneBits

Bits(w) == 2 ^ w
WordBits == 4 * LaneBits
Word == 0 .. Bits(WordBits) - 1

(* The value of w bits read as a two's complement number. *)
Signed(v, w) == IF v >= Bits(w - 1) THEN v - Bits(w) ELSE v

(* The w bits that a register keeps of the integer v. *)
Truncate(v, w) == v % Bits(w)

(* Lane i of a word cut into lanes of w bits, sign included. *)
Lane(word, i, w) == Signed((word \div Bits(i * w)) % Bits(w), w)

(* The product of two lanes of w bits in a signed register of r bits. *)
Product(rs, i, w, r) ==
  Signed(Truncate(Lane(rs[1], i, w) * Lane(rs[2], i, w), r), r)

Mac(rs) == Truncate(rs[3] + rs[1] * rs[2], WordBits)

(* Mutant: the products are kept in registers as wide as a lane. *)
Sdot4Narrow(rs) ==
  LET prod(i) == Product(rs, i, LaneBits, LaneBits)
  IN  Truncate(rs[3] + prod(0) + prod(1) + prod(2) + prod(3), WordBits)

(* prod0 .. prod3 have twice the width of a lane and are sign-extended. *)
Sdot4(rs) ==
  LET prod(i) == Product(rs, i, LaneBits, 2 * LaneBits)
  IN  Truncate(rs[3] + prod(0) + prod(1) + prod(2) + prod(3), WordBits)

(* prod16_0 and prod16_1 are as wide as a word. *)
Sdot2(rs) ==
  LET prod(i) == Product(rs, i, 2 * LaneBits, WordBits)
  IN  Truncate(rs[3] + prod(0) + prod(1), WordBits)

ComputeResult(op, rs) ==
  CASE op = "mac"   -> Mac(rs)
    [] op = "sdot4" -> Sdot4(rs)
    [] op = "sdot2" -> Sdot2(rs)

-----------------------------------------------------------------------------
(* What the instructions promise: the accumulator plus the dot product of   *)
(* the operands' signed lanes, computed exactly and then cut to a word.     *)
DotProduct(lanes, w, rs) ==
  Truncate(rs[3] + MapThenSumSet(LAMBDA i : Lane(rs[1], i, w) * Lane(rs[2], i, w),
                                 0 .. lanes - 1),
           WordBits)

Promised(op, rs) ==
  CASE op = "sdot4" -> DotProduct(4, LaneBits, rs)
    [] op = "sdot2" -> DotProduct(2, 2 * LaneBits, rs)
    [] op = "mac"   -> DotProduct(1, WordBits, rs)
=============================================================================
