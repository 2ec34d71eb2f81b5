------------------------- MODULE CycleModel_proofs -------------------------
(***************************************************************************)
(* Proofs about the cycle models, for every trace, every register and       *)
(* value, every word width and every length of the measured region.         *)
(***************************************************************************)
EXTENDS CycleModel, FiniteSetTheorems, TLAPS

(* The leading zeros of a value are at most the bits of a word.             *)
LEMMA ClzType ==
  ASSUME NEW v
  PROVE  Clz(v) \in 0 .. WordBits
<1> DEFINE powers == {k \in 0 .. WordBits - 1 : v >= 2 ^ k}
<1>1. IsFiniteSet(0 .. WordBits - 1) /\ Cardinality(0 .. WordBits - 1) = WordBits
  BY WidthAssumption, FS_Interval
<1>2. powers \subseteq 0 .. WordBits - 1
  OBVIOUS
<1>3. Cardinality(powers) \in Nat /\ Cardinality(powers) <= WordBits
  BY <1>1, <1>2, FS_Subset, FS_CardinalityType
<1>4. BitLength(v) = Cardinality(powers)
  BY DEF BitLength
<1>5. QED
  BY <1>3, <1>4, WidthAssumption DEF Clz

(* A division is charged a number of cycles, recovered divisor or not.      *)
LEMMA DivCostType ==
  ASSUME NEW i
  PROVE  DivCost(i) \in Nat /\ DivCost(i) >= 1
  BY ClzType, WidthAssumption, DivAssumption DEF DivCost

(* A misaligned target costs one cycle at most.                             *)
LEMMA PenaltyType ==
  ASSUME NEW nxt
  PROVE  TargetPenalty(nxt) \in 0 .. 1
  BY DEF TargetPenalty

-----------------------------------------------------------------------------
(* Every cost books what it charges.                                        *)

IsCost(c) ==
  /\ c.cycles \in Nat /\ c.stall \in Nat /\ c.misalign \in Nat
  /\ c.cause \in Causes

(* insn_cycles of the CV32E40X charges one cycle and what it books as a stall. *)
LEMMA XInsnBooked ==
  ASSUME NEW i, NEW nxt
  PROVE  LET c == XInsnCycles(i, nxt)
         IN  IsCost(c) /\ c.cycles = 1 + c.stall + c.misalign
  BY DivCostType, PenaltyType
     DEF XInsnCycles, Cost, IsCost, Causes

(* So does insn_cycles of the CV32E40P.                                     *)
LEMMA PInsnBooked ==
  ASSUME NEW i, NEW nxt
  PROVE  LET c == PInsnCycles(i, nxt)
         IN  IsCost(c) /\ c.cycles = 1 + c.stall + c.misalign
  BY XInsnBooked, PenaltyType
     DEF PInsnCycles, Cost, IsCost, Causes

(* hazard_penalty of the CV32E40X charges what it books, and nothing else.  *)
LEMMA XHazardBooked ==
  ASSUME NEW prev, NEW i
  PROVE  LET c == XHazardPenalty(prev, i)
         IN  IsCost(c) /\ c.cycles = c.stall + c.misalign
  BY DEF XHazardPenalty, Cost, Free, IsCost, Causes

(* So does hazard_penalty of the CV32E40P.                                  *)
LEMMA PHazardBooked ==
  ASSUME NEW prev, NEW i
  PROVE  LET c == PHazardPenalty(prev, i)
         IN  IsCost(c) /\ c.cycles = c.stall + c.misalign
  BY DEF PHazardPenalty, Cost, Free, IsCost, Causes

(* Booking a cost keeps a tally a tally.                                    *)
LEMMA BookType ==
  ASSUME NEW t \in Tally, NEW c, IsCost(c)
  PROVE  Book(t, c) \in Tally
  BY DEF Book, Tally, IsCost

(* Booking a cost adds its stall to the total, once, whatever its cause.    *)
LEMMA BookTotal ==
  ASSUME NEW t \in Tally, NEW c, IsCost(c)
  PROVE  StallTotal(Book(t, c)) = StallTotal(t) + c.stall + c.misalign
  BY DEF Book, Tally, IsCost, StallTotal, Causes

(* Booking a cost changes the counter of its cause and no other.            *)
LEMMA BookStalls ==
  ASSUME NEW t \in Tally, NEW c, IsCost(c), NEW a \in Causes
  PROVE  /\ Book(t, c).stalls[a] = t.stalls[a] + (IF a = c.cause THEN c.stall ELSE 0)
         /\ Book(t, c).misalign = t.misalign + c.misalign
  BY DEF Book, Tally, IsCost

-----------------------------------------------------------------------------
(* The two tables side by side.                                             *)

Shared == {"div_multicycle", "branch_flush", "jump_flush", "raw_load_use", "none"}

(* CoresDifferAsDocumented, cause by cause, of any two tallies and counts.  *)
Agree(s, t, m) ==
  /\ s.stalls["mul_multicycle"] = 3 * m["mulh"]
  /\ t.stalls["mul_multicycle"] = 4 * m["mulh"]
  /\ s.stalls["fence"] = 4 * m["fence"] /\ t.stalls["fence"] = m["fence"]
  /\ s.stalls["csr_slow"] = 0 /\ t.stalls["csr_slow"] = 3 * m["slow_csr"]
  /\ s.stalls["raw_jalr"] = m["jalr"] + m["jalr_load"]
  /\ t.stalls["raw_jalr"] = m["jalr"]
  /\ s.misalign = t.misalign
  /\ \A c \in Shared : s.stalls[c] = t.stalls[c]

(* What a cost books under a cause. *)
Booked(c, a) == IF a = c.cause THEN c.stall ELSE 0

(* One if the instruction meets the row, else nothing. *)
One(prev, i, r) == IF r \in Meets(prev, i) THEN 1 ELSE 0

(* Two costs c and d of an instruction that meets h rows "mulh", f rows     *)
(* "fence" and w rows "slow_csr".                                           *)
InsnsBy(c, d, h, f, w) ==
  /\ Booked(c, "mul_multicycle") = 3 * h /\ Booked(d, "mul_multicycle") = 4 * h
  /\ Booked(c, "fence") = 4 * f /\ Booked(d, "fence") = f
  /\ Booked(c, "csr_slow") = 0 /\ Booked(d, "csr_slow") = 3 * w
  /\ Booked(c, "raw_jalr") = 0 /\ Booked(d, "raw_jalr") = 0
  /\ c.misalign = d.misalign
  /\ \A a \in Shared : Booked(c, a) = Booked(d, a)

(* Both models' costs of an instruction differ by the rows of its kind.     *)
LEMMA InsnsDiffer ==
  ASSUME NEW prev, NEW i, NEW nxt
  PROVE  InsnsBy(XInsnCycles(i, nxt), PInsnCycles(i, nxt), One(prev, i, "mulh"),
                 One(prev, i, "fence"), One(prev, i, "slow_csr"))
<1> DEFINE c == XInsnCycles(i, nxt)
           d == PInsnCycles(i, nxt)
<1>0. /\ One(prev, i, "mulh") = IF i.base \in MUL_HIGH THEN 1 ELSE 0
      /\ One(prev, i, "fence") = IF i.base \in FENCES THEN 1 ELSE 0
      /\ One(prev, i, "slow_csr") =
           IF i.base \in CSR_INSNS /\ i.csr # "fast" THEN 1 ELSE 0
  BY DEF One, Meets, Rows
<1>1. CASE i.base \in FENCES
  <2>1. /\ c = Cost(5 + TargetPenalty(nxt), "fence", 4, TargetPenalty(nxt))
        /\ d = Cost(2 + TargetPenalty(nxt), "fence", 1, TargetPenalty(nxt))
    BY <1>1 DEF XInsnCycles, PInsnCycles, FENCES, CSR_INSNS, MUL_HIGH, DIV_REM,
                BRANCHES, JUMPS
  <2>2. /\ One(prev, i, "mulh") = 0 /\ One(prev, i, "fence") = 1
        /\ One(prev, i, "slow_csr") = 0
    BY <1>0, <1>1 DEF FENCES, CSR_INSNS, MUL_HIGH
  <2>3. /\ c.cause = "fence" /\ c.stall = 4 /\ d.cause = "fence" /\ d.stall = 1
        /\ c.misalign = d.misalign
    BY <2>1 DEF Cost
  <2> HIDE DEF c, d
  <2>4. InsnsBy(c, d, 0, 1, 0)
    BY <2>3 DEF InsnsBy, Booked, Shared
  <2>5. QED
    BY <2>2, <2>4 DEF c, d
<1>2. CASE i.base \in CSR_INSNS
  <2>1. /\ c.cause = "none" /\ c.stall = 0 /\ c.misalign = 0 /\ d.misalign = 0
        /\ i.csr # "fast" => d.cause = "csr_slow" /\ d.stall = 3
        /\ i.csr = "fast" => d.cause = "none" /\ d.stall = 0
    BY <1>2 DEF XInsnCycles, PInsnCycles, Cost, FENCES, CSR_INSNS, MUL_HIGH, DIV_REM,
                BRANCHES, JUMPS
  <2>2. /\ One(prev, i, "mulh") = 0 /\ One(prev, i, "fence") = 0
        /\ i.csr # "fast" => One(prev, i, "slow_csr") = 1
        /\ i.csr = "fast" => One(prev, i, "slow_csr") = 0
    BY <1>0, <1>2 DEF FENCES, CSR_INSNS, MUL_HIGH
  <2> HIDE DEF c, d
  <2>3. /\ i.csr # "fast" => InsnsBy(c, d, 0, 0, 1)
        /\ i.csr = "fast" => InsnsBy(c, d, 0, 0, 0)
    BY <2>1 DEF InsnsBy, Booked, Shared
  <2>4. QED
    BY <2>2, <2>3 DEF c, d
<1>3. CASE i.base \in MUL_HIGH
  <2>1. /\ c.cause = "mul_multicycle" /\ c.stall = 3
        /\ d.cause = "mul_multicycle" /\ d.stall = 4
        /\ c.misalign = 0 /\ d.misalign = 0
    BY <1>3 DEF XInsnCycles, PInsnCycles, Cost, FENCES, CSR_INSNS, MUL_HIGH, DIV_REM,
                BRANCHES, JUMPS
  <2>2. /\ One(prev, i, "mulh") = 1 /\ One(prev, i, "fence") = 0
        /\ One(prev, i, "slow_csr") = 0
    BY <1>0, <1>3 DEF FENCES, CSR_INSNS, MUL_HIGH
  <2> HIDE DEF c, d
  <2>3. InsnsBy(c, d, 1, 0, 0)
    BY <2>1 DEF InsnsBy, Booked, Shared
  <2>4. QED
    BY <2>2, <2>3 DEF c, d
<1>4. CASE i.base \notin FENCES \cup CSR_INSNS \cup MUL_HIGH
  <2>1. d = c
    BY <1>4 DEF PInsnCycles
  <2>2. c.cause \notin {"mul_multicycle", "fence", "csr_slow", "raw_jalr"}
    BY <1>4 DEF XInsnCycles, Cost
  <2>3. /\ One(prev, i, "mulh") = 0 /\ One(prev, i, "fence") = 0
        /\ One(prev, i, "slow_csr") = 0
    BY <1>0, <1>4
  <2> HIDE DEF c, d
  <2>4. InsnsBy(c, d, 0, 0, 0)
    BY <2>1, <2>2 DEF InsnsBy, Booked, Shared
  <2>5. QED
    BY <2>3, <2>4 DEF c, d
<1>5. QED
  BY <1>1, <1>2, <1>3, <1>4

(* Two hazards of an instruction that meets j rows "jalr" and l rows        *)
(* "jalr_load".                                                             *)
HazardsBy(c, d, j, l) ==
  /\ \A a \in {"mul_multicycle", "fence", "csr_slow"} :
       Booked(c, a) = 0 /\ Booked(d, a) = 0
  /\ Booked(c, "raw_jalr") = j + l /\ Booked(d, "raw_jalr") = j
  /\ c.misalign = d.misalign
  /\ \A a \in Shared : Booked(c, a) = Booked(d, a)

(* Both models' hazards differ by the load in front of a jalr.              *)
LEMMA HazardsDiffer ==
  ASSUME NEW prev, NEW i
  PROVE  HazardsBy(XHazardPenalty(prev, i), PHazardPenalty(prev, i),
                   One(prev, i, "jalr"), One(prev, i, "jalr_load"))
<1> DEFINE c == XHazardPenalty(prev, i)
           d == PHazardPenalty(prev, i)
<1>1. /\ One(prev, i, "jalr") = IF i.base \in JALR_LIKE /\ Raw(prev, i) THEN 1 ELSE 0
      /\ One(prev, i, "jalr_load") =
           IF i.base \in JALR_LIKE /\ Raw(prev, i) /\ prev.base \in LOADS THEN 1 ELSE 0
  BY DEF One, Meets, Rows
<1>2. c.misalign = 0 /\ d.misalign = 0
  BY DEF XHazardPenalty, PHazardPenalty, Cost, Free
<1>3. CASE Raw(prev, i) /\ i.base \in JALR_LIKE
  <2>1. /\ c.cause = "raw_jalr" /\ d.cause = "raw_jalr" /\ d.stall = 1
        /\ prev.base \in LOADS => c.stall = 2
        /\ prev.base \notin LOADS => c.stall = 1
    BY <1>3 DEF XHazardPenalty, PHazardPenalty, Cost
  <2>2. /\ One(prev, i, "jalr") = 1
        /\ prev.base \in LOADS => One(prev, i, "jalr_load") = 1
        /\ prev.base \notin LOADS => One(prev, i, "jalr_load") = 0
    BY <1>1, <1>3
  <2> HIDE DEF c, d
  <2>3. /\ prev.base \in LOADS => HazardsBy(c, d, 1, 1)
        /\ prev.base \notin LOADS => HazardsBy(c, d, 1, 0)
    BY <1>2, <2>1 DEF HazardsBy, Booked, Shared
  <2>4. QED
    BY <2>2, <2>3 DEF c, d
<1>4. CASE ~(Raw(prev, i) /\ i.base \in JALR_LIKE)
  <2>1. c.cause = d.cause /\ c.stall = d.stall /\ c.cause \in {"raw_load_use", "none"}
    BY <1>4 DEF XHazardPenalty, PHazardPenalty, Cost, Free
  <2>2. One(prev, i, "jalr") = 0 /\ One(prev, i, "jalr_load") = 0
    BY <1>1, <1>4
  <2> HIDE DEF c, d
  <2>3. HazardsBy(c, d, 0, 0)
    BY <1>2, <2>1 DEF HazardsBy, Booked, Shared
  <2>4. QED
    BY <2>2, <2>3 DEF c, d
<1>5. QED
  BY <1>3, <1>4

(* A tally after the two costs of one instruction.                          *)
LEMMA BookTwice ==
  ASSUME NEW t \in Tally, NEW c, NEW h, IsCost(c), IsCost(h), NEW a \in Causes
  PROVE  /\ Book(Book(t, c), h).stalls[a] = t.stalls[a] + Booked(c, a) + Booked(h, a)
         /\ Book(Book(t, c), h).misalign = t.misalign + c.misalign + h.misalign
<1>1. Book(t, c) \in Tally
  BY BookType
<1>2. /\ Book(t, c).stalls[a] = t.stalls[a] + Booked(c, a)
      /\ Book(t, c).misalign = t.misalign + c.misalign
  BY BookStalls DEF Booked
<1>3. QED
  BY <1>1, <1>2, BookStalls DEF Booked

(* One instruction's costs on both sides keep two tallies in agreement.     *)
LEMMA AgreeStep ==
  ASSUME NEW s \in Tally, NEW t \in Tally, NEW m \in [Rows -> Nat], Agree(s, t, m),
         NEW prev, NEW i, NEW nxt,
         NEW s1, s1 = Book(Book(s, XInsnCycles(i, nxt)), XHazardPenalty(prev, i)),
         NEW t1, t1 = Book(Book(t, PInsnCycles(i, nxt)), PHazardPenalty(prev, i)),
         NEW m1, m1 = [r \in Rows |-> m[r] + One(prev, i, r)]
  PROVE  Agree(s1, t1, m1)
<1> DEFINE xi == XInsnCycles(i, nxt)
           pi == PInsnCycles(i, nxt)
           xh == XHazardPenalty(prev, i)
           ph == PHazardPenalty(prev, i)
<1>1. IsCost(xi) /\ IsCost(pi) /\ IsCost(xh) /\ IsCost(ph)
  BY XInsnBooked, PInsnBooked, XHazardBooked, PHazardBooked
<1>2. \A a \in Causes :
        /\ s1.stalls[a] = s.stalls[a] + Booked(xi, a) + Booked(xh, a)
        /\ t1.stalls[a] = t.stalls[a] + Booked(pi, a) + Booked(ph, a)
        /\ s1.misalign = s.misalign + xi.misalign + xh.misalign
        /\ t1.misalign = t.misalign + pi.misalign + ph.misalign
  BY <1>1, BookTwice
<1>3. \A r \in Rows : m1[r] = m[r] + One(prev, i, r) /\ m[r] \in Nat
  OBVIOUS
<1>4. \A a \in Causes : s.stalls[a] \in Nat /\ t.stalls[a] \in Nat
  BY DEF Tally
<1>5. \A r \in Rows : One(prev, i, r) \in Nat
  BY DEF One
<1>6. InsnsBy(xi, pi, One(prev, i, "mulh"), One(prev, i, "fence"), One(prev, i, "slow_csr"))
  BY InsnsDiffer
<1>7. HazardsBy(xh, ph, One(prev, i, "jalr"), One(prev, i, "jalr_load"))
  BY HazardsDiffer
<1> HIDE DEF xi, pi, xh, ph
<1>8. /\ "mul_multicycle" \in Causes /\ "fence" \in Causes /\ "csr_slow" \in Causes
      /\ "raw_jalr" \in Causes /\ Shared \subseteq Causes
      /\ "mulh" \in Rows /\ "fence" \in Rows /\ "slow_csr" \in Rows
      /\ "jalr" \in Rows /\ "jalr_load" \in Rows
  BY DEF Causes, Rows, Shared
<1>9. s1.misalign = t1.misalign
  BY <1>2, <1>6, <1>7, <1>8 DEF Agree, InsnsBy, HazardsBy
<1>10. ASSUME NEW a \in Shared
       PROVE  s1.stalls[a] = t1.stalls[a]
  <2>1. /\ a \in Causes /\ s.stalls[a] = t.stalls[a]
        /\ Booked(xi, a) = Booked(pi, a) /\ Booked(xh, a) = Booked(ph, a)
    BY <1>6, <1>7, <1>8 DEF Agree, InsnsBy, HazardsBy
  <2>2. QED
    BY <1>2, <2>1
<1> DEFINE S(a) == s.stalls[a]
           T(a) == t.stalls[a]
           S1(a) == s1.stalls[a]
           T1(a) == t1.stalls[a]
           XI(a) == Booked(xi, a)
           PI(a) == Booked(pi, a)
           XH(a) == Booked(xh, a)
           PH(a) == Booked(ph, a)
           O(r) == One(prev, i, r)
           M(r) == m[r]
           M1(r) == m1[r]
<1>11. \A a \in Causes : /\ S1(a) = S(a) + XI(a) + XH(a) /\ T1(a) = T(a) + PI(a) + PH(a)
                         /\ S(a) \in Nat /\ T(a) \in Nat
  BY <1>2, <1>4
<1>12. \A r \in Rows : M1(r) = M(r) + O(r) /\ M(r) \in Nat /\ O(r) \in Nat
  BY <1>3, <1>5
<1>13. /\ XI("mul_multicycle") = 3 * O("mulh") /\ PI("mul_multicycle") = 4 * O("mulh")
       /\ XI("fence") = 4 * O("fence") /\ PI("fence") = O("fence")
       /\ XI("csr_slow") = 0 /\ PI("csr_slow") = 3 * O("slow_csr")
       /\ XI("raw_jalr") = 0 /\ PI("raw_jalr") = 0
  BY <1>6 DEF InsnsBy
<1>14. /\ \A a \in {"mul_multicycle", "fence", "csr_slow"} : XH(a) = 0 /\ PH(a) = 0
       /\ XH("raw_jalr") = O("jalr") + O("jalr_load") /\ PH("raw_jalr") = O("jalr")
  BY <1>7 DEF HazardsBy
<1>15. /\ S("mul_multicycle") = 3 * M("mulh") /\ T("mul_multicycle") = 4 * M("mulh")
       /\ S("fence") = 4 * M("fence") /\ T("fence") = M("fence")
       /\ S("csr_slow") = 0 /\ T("csr_slow") = 3 * M("slow_csr")
       /\ S("raw_jalr") = M("jalr") + M("jalr_load") /\ T("raw_jalr") = M("jalr")
  BY DEF Agree
<1> HIDE DEF S, T, S1, T1, XI, PI, XH, PH, O, M, M1
<1>16. S1("mul_multicycle") = 3 * M1("mulh") /\ T1("mul_multicycle") = 4 * M1("mulh")
  BY <1>8, <1>11, <1>12, <1>13, <1>14, <1>15
<1>17. S1("fence") = 4 * M1("fence") /\ T1("fence") = M1("fence")
  BY <1>8, <1>11, <1>12, <1>13, <1>14, <1>15
<1>18. S1("csr_slow") = 0 /\ T1("csr_slow") = 3 * M1("slow_csr")
  BY <1>8, <1>11, <1>12, <1>13, <1>14, <1>15
<1>19. S1("raw_jalr") = M1("jalr") + M1("jalr_load") /\ T1("raw_jalr") = M1("jalr")
  BY <1>8, <1>11, <1>12, <1>13, <1>14, <1>15
<1>20. QED
  BY <1>9, <1>10, <1>16, <1>17, <1>18, <1>19 DEF Agree, S1, T1, M1

(* Tallies that agree cause by cause agree in total.                        *)
LEMMA TotalsDiffer ==
  ASSUME NEW s \in Tally, NEW t \in Tally, NEW m \in [Rows -> Nat], NEW k \in Nat,
         s.cycles = k + StallTotal(s), t.cycles = k + StallTotal(t), Agree(s, t, m)
  PROVE  t.cycles + 3 * m["fence"] + m["jalr_load"]
           = s.cycles + m["mulh"] + 3 * m["slow_csr"]
<1>1. \A r \in Rows : m[r] \in Nat
  OBVIOUS
<1>2. /\ \A a \in Causes : s.stalls[a] \in Nat
      /\ s.misalign \in Nat
  BY DEF Tally
<1> DEFINE S(a) == s.stalls[a]
           T(a) == t.stalls[a]
           M(r) == m[r]
<1>3. /\ s.cycles = k + (s.misalign + S("fence") + S("div_multicycle")
           + S("mul_multicycle") + S("branch_flush") + S("jump_flush")
           + S("raw_jalr") + S("raw_load_use") + S("csr_slow") + S("none"))
      /\ t.cycles = k + (t.misalign + T("fence") + T("div_multicycle")
           + T("mul_multicycle") + T("branch_flush") + T("jump_flush")
           + T("raw_jalr") + T("raw_load_use") + T("csr_slow") + T("none"))
  BY DEF StallTotal
<1>4. /\ S("mul_multicycle") = 3 * M("mulh") /\ T("mul_multicycle") = 4 * M("mulh")
      /\ S("fence") = 4 * M("fence") /\ T("fence") = M("fence")
      /\ S("csr_slow") = 0 /\ T("csr_slow") = 3 * M("slow_csr")
      /\ S("raw_jalr") = M("jalr") + M("jalr_load") /\ T("raw_jalr") = M("jalr")
      /\ s.misalign = t.misalign
      /\ T("div_multicycle") = S("div_multicycle")
      /\ T("branch_flush") = S("branch_flush") /\ T("jump_flush") = S("jump_flush")
      /\ T("raw_load_use") = S("raw_load_use") /\ T("none") = S("none")
  BY DEF Agree, Shared
<1>5. /\ S("div_multicycle") \in Nat /\ S("branch_flush") \in Nat
      /\ S("jump_flush") \in Nat /\ S("raw_load_use") \in Nat /\ S("none") \in Nat
      /\ M("mulh") \in Nat /\ M("fence") \in Nat /\ M("slow_csr") \in Nat
      /\ M("jalr") \in Nat /\ M("jalr_load") \in Nat
  BY <1>1, <1>2 DEF Causes, Rows
<1> HIDE DEF S, T, M
<1>6. t.cycles + 3 * M("fence") + M("jalr_load")
        = s.cycles + M("mulh") + 3 * M("slow_csr")
  BY <1>2, <1>3, <1>4, <1>5
<1>7. QED
  BY <1>6 DEF M

-----------------------------------------------------------------------------
(* The state machine.                                                       *)

(* Replaying a commit line keeps the register file within its values.       *)
LEMMA CommitType ==
  ASSUME NEW file \in [Regs -> Values], NEW i \in Insns, NEW v \in Values
  PROVE  Commit(file, i, v) \in [Regs -> Values]
<1>1. i.writes \in Regs \cup {"zero"}
  BY InsnsAssumption DEF InsnType
<1>2. QED
  BY <1>1 DEF Commit

(* What is read as a divisor is a register's value, or nothing.             *)
LEMMA DivisorType ==
  ASSUME NEW file \in [Regs -> Values], NEW i \in Insns
  PROVE  Divisor(file, i) \in Values \cup {None}
  BY DivOperandsAssumption, ValuesAssumption DEF Divisor

TalliesOK ==
  /\ n \in Nat /\ whole \in Nat /\ x40 \in Tally /\ p40 \in Tally
  /\ met \in [Rows -> Nat]

(* The three invariants hold when the trace is opened.                      *)
LEMMA InitOK == Init => TypeOK /\ Decomposition /\ CoresDifferAsDocumented
<1> SUFFICES ASSUME Init PROVE TypeOK /\ Decomposition /\ CoresDifferAsDocumented
  OBVIOUS
<1>1. NoTally \in Tally
  BY DEF NoTally, Tally
<1>2. ins \in Parsed
  BY DEF Init, Parsed
<1>3. TypeOK
  BY <1>1, <1>2, ValuesAssumption DEF Init, TypeOK
<1>4. Decomposition
  BY DEF Init, Decomposition, StallTotal, NoTally, Causes
<1>5. CoresDifferAsDocumented
  <2>1. /\ x40 = NoTally /\ p40 = NoTally
        /\ \A c \in Causes : NoTally.stalls[c] = 0
        /\ NoTally.cycles = 0 /\ NoTally.misalign = 0
        /\ \A r \in Rows : met[r] = 0
    BY DEF Init, NoTally
  <2>2. QED
    BY <2>1 DEF CoresDifferAsDocumented, Causes, Rows
<1>6. QED
  BY <1>3, <1>4, <1>5

(* Parsing the next instruction keeps the types, with and without commit lines. *)
LEMMA ParseTypeOK ==
  ASSUME TypeOK, ParseEnd \/ \E i \in Insns : Parse(i)
  PROVE  /\ x' \in [Regs -> Values] /\ regs' \in [Regs -> Values]
         /\ ins' \in Parsed \cup {None}
<1>1. CASE ParseEnd
  BY <1>1 DEF ParseEnd, TypeOK
<1>2. CASE \E i \in Insns : Parse(i)
  <2>1. PICK i \in Insns : Parse(i)
    BY <1>2
  <2>2. Recovered(i) \in Values \cup {None} /\ Divisor(x, i) \in Values \cup {None}
    BY DivisorType DEF TypeOK, Recovered
  <2>3. ins' \in Parsed
    BY <2>1, <2>2 DEF Parse, Parsed
  <2>4. PICK v \in Values : /\ x' = Commit(x, i, v)
                            /\ regs' = IF LogCommits THEN Commit(regs, i, v) ELSE regs
    BY <2>1 DEF Parse
  <2>5. QED
    BY <2>3, <2>4, CommitType DEF TypeOK
<1>3. QED
  BY <1>1, <1>2

(* One instruction charged on both sides.                                   *)
LEMMA ChargeOK ==
  ASSUME TypeOK, Decomposition, CoresDifferAsDocumented, Charge
  PROVE  TalliesOK' /\ Decomposition' /\ CoresDifferAsDocumented'
<1> DEFINE prev == InRegion(before)
           nxt  == InRegion(ins')
           xi == XInsnCycles(ins, nxt)
           pi == PInsnCycles(ins, nxt)
           xh == XHazardPenalty(prev, ins)
           ph == PHazardPenalty(prev, ins)
<1>1. /\ x40' = Book(Book(x40, xi), xh)
      /\ p40' = Book(Book(p40, pi), ph)
      /\ n' = n + 1
  BY DEF Charge
<1>2. /\ IsCost(xi) /\ xi.cycles = 1 + xi.stall + xi.misalign
      /\ IsCost(pi) /\ pi.cycles = 1 + pi.stall + pi.misalign
      /\ IsCost(xh) /\ xh.cycles = xh.stall + xh.misalign
      /\ IsCost(ph) /\ ph.cycles = ph.stall + ph.misalign
  BY XInsnBooked, PInsnBooked, XHazardBooked, PHazardBooked
<1>3. met' = [r \in Rows |-> met[r] + One(prev, ins, r)]
  BY DEF Charge, One
<1>4. whole' \in Nat
  BY XInsnBooked, XHazardBooked DEF Charge, TypeOK, IsCost
<1> HIDE DEF xi, pi, xh, ph
<1>5. Book(x40, xi) \in Tally /\ Book(p40, pi) \in Tally
  BY <1>2, BookType DEF TypeOK
<1>6. x40' \in Tally /\ p40' \in Tally
  BY <1>1, <1>2, <1>5, BookType
<1>7. /\ StallTotal(x40') = StallTotal(x40) + xi.stall + xi.misalign + xh.stall + xh.misalign
      /\ StallTotal(p40') = StallTotal(p40) + pi.stall + pi.misalign + ph.stall + ph.misalign
  BY <1>1, <1>2, <1>5, BookTotal DEF TypeOK
<1>8. /\ x40'.cycles = x40.cycles + xi.cycles + xh.cycles
      /\ p40'.cycles = p40.cycles + pi.cycles + ph.cycles
  BY <1>1 DEF Book
<1>9. Decomposition'
  <2>1. /\ x40.cycles \in Nat /\ p40.cycles \in Nat /\ n \in Nat
        /\ StallTotal(x40) \in Nat /\ StallTotal(p40) \in Nat
    BY DEF TypeOK, Tally, StallTotal, Causes
  <2>2. x40'.cycles = n' + StallTotal(x40')
    BY <1>1, <1>2, <1>7, <1>8, <2>1 DEF Decomposition, IsCost
  <2>3. p40'.cycles = n' + StallTotal(p40')
    BY <1>1, <1>2, <1>7, <1>8, <2>1 DEF Decomposition, IsCost
  <2>4. (StallTotal(x40))' = StallTotal(x40') /\ (StallTotal(p40))' = StallTotal(p40')
    BY DEF StallTotal
  <2>5. QED
    BY <2>2, <2>3, <2>4 DEF Decomposition
<1>10. CoresDifferAsDocumented'
  <2>1. Agree(x40, p40, met)
    BY DEF CoresDifferAsDocumented, Agree, Shared
  <2>2. met' \in [Rows -> Nat]
    BY <1>3 DEF TypeOK, One
  <2>3. Agree(x40', p40', met')
    BY <1>1, <1>2, <1>3, <2>1, AgreeStep DEF TypeOK, xi, pi, xh, ph
  <2>4. /\ x40'.cycles = n' + StallTotal(x40') /\ p40'.cycles = n' + StallTotal(p40')
        /\ n' \in Nat
    <3>1. (StallTotal(x40))' = StallTotal(x40') /\ (StallTotal(p40))' = StallTotal(p40')
      BY DEF StallTotal
    <3>2. QED
      BY <1>1, <1>9, <3>1 DEF Decomposition, TypeOK
  <2>5. p40'.cycles + 3 * met'["fence"] + met'["jalr_load"]
          = x40'.cycles + met'["mulh"] + 3 * met'["slow_csr"]
    BY <1>6, <2>2, <2>3, <2>4, TotalsDiffer
  <2>6. QED
    BY <2>3, <2>5 DEF CoresDifferAsDocumented, Agree, Shared
<1>11. QED
  <2>1. met' \in [Rows -> Nat]
    BY <1>3 DEF TypeOK, One
  <2>2. QED
    BY <1>1, <1>4, <1>6, <1>9, <1>10, <2>1 DEF TalliesOK, TypeOK

Inv == TypeOK /\ Decomposition /\ CoresDifferAsDocumented

(* Every step keeps the conjunction: only RunInsn touches the tallies.      *)
LEMMA StepInv == Inv /\ [Next]_vars => Inv'
<1> SUFFICES ASSUME Inv, [Next]_vars PROVE Inv'
  OBVIOUS
<1>1. CASE Next
  <2>1. /\ x' \in [Regs -> Values] /\ regs' \in [Regs -> Values]
        /\ ins' \in Parsed \cup {None}
    BY <1>1, ParseTypeOK DEF Next, Inv
  <2>2. before' \in Parsed \cup {None}
    BY <1>1 DEF Next, Inv, TypeOK
  <2>3. phase' \in {"measured", "done"}
    BY <1>1 DEF Next, Inv, TypeOK, OpenRegion, RunInsn, CloseRegion, Charge
  <2>4. TalliesOK' /\ Decomposition' /\ CoresDifferAsDocumented'
    <3>1. CASE OpenRegion \/ CloseRegion
      <4>1. UNCHANGED <<n, x40, p40, whole, met>>
        BY <3>1 DEF OpenRegion, CloseRegion
      <4>2. QED
        BY <4>1 DEF Inv, TypeOK, TalliesOK, Decomposition, StallTotal,
                    CoresDifferAsDocumented
    <3>2. CASE RunInsn
      BY <3>2, ChargeOK DEF RunInsn, Inv
    <3>3. QED
      BY <1>1, <3>1, <3>2 DEF Next
  <2>5. QED
    BY <2>1, <2>2, <2>3, <2>4 DEF Inv, TypeOK, TalliesOK
<1>2. CASE UNCHANGED vars
  BY <1>2 DEF vars, Inv, TypeOK, Decomposition, StallTotal, CoresDifferAsDocumented
<1>3. QED
  BY <1>1, <1>2 DEF Next

(* The conjunction is inductive as it stands once the tallies are typed.    *)
THEOREM Invariance == Spec => []Inv
<1>1. Init => Inv
  BY InitOK DEF Inv
<1>2. QED
  BY <1>1, StepInv, PTL DEF Spec

(* Registers, entries and tallies stay within their types: no stall or      *)
(* total is ever negative.                                                  *)
THEOREM TypeCorrect == Spec => []TypeOK
<1>1. Inv => TypeOK
  BY DEF Inv
<1>2. QED
  BY <1>1, Invariance, PTL

(* For every trace the cycles are the instructions plus the booked stalls.  *)
THEOREM CyclesDecompose == Spec => []Decomposition
<1>1. Inv => Decomposition
  BY DEF Inv
<1>2. QED
  BY <1>1, Invariance, PTL

(* For every trace the two cores differ as the table says and nowhere else. *)
THEOREM CoresDiffer == Spec => []CoresDifferAsDocumented
<1>1. Inv => CoresDifferAsDocumented
  BY DEF Inv
<1>2. QED
  BY <1>1, Invariance, PTL

-----------------------------------------------------------------------------
(* What cutting the region out of the trace loses, and where.               *)

Gap == whole - x40.cycles

(* Nothing is lost at the opening marker and right behind it, the hazard of *)
(* one instruction inside the region, and the rest only in front of a       *)
(* marker that closes it.                                                   *)
GapInv ==
  /\ Gap \in 0 .. 4
  /\ before = None => IsMarker(ins) /\ Gap = 0
  /\ phase = "measured" /\ before # None /\ IsMarker(before) => Gap = 0
  /\ \/ Gap \in 0 .. 1
     \/ phase = "done"
     \/ before # None /\ ins # None /\ IsMarker(ins)

(* The cost of an instruction grows by three cycles at most when its        *)
(* successor is known, and only a marker is hidden from the region.         *)
LEMMA SuccessorHidden ==
  ASSUME NEW i, NEW nxt
  PROVE  /\ XInsnCycles(i, nxt).cycles - XInsnCycles(i, InRegion(nxt)).cycles \in 0 .. 3
         /\ nxt = None \/ ~IsMarker(nxt) =>
              XInsnCycles(i, nxt).cycles = XInsnCycles(i, InRegion(nxt)).cycles
<1>1. XInsnCycles(i, nxt).cycles \in Nat
  BY XInsnBooked DEF IsCost
<1>2. CASE InRegion(nxt) = nxt
  BY <1>1, <1>2
<1>3. CASE InRegion(nxt) # nxt
  <2>1. InRegion(nxt) = None /\ nxt # None /\ IsMarker(nxt)
    BY <1>3 DEF InRegion
  <2>2. TargetPenalty(None) = 0 /\ ~Taken(i, None)
    BY DEF TargetPenalty, Taken
  <2>3. XInsnCycles(i, nxt).cycles - XInsnCycles(i, None).cycles \in 0 .. 3
    BY <2>2, PenaltyType, DivCostType
       DEF XInsnCycles, Cost, FENCES, CSR_INSNS, DIV_REM, MUL_HIGH, BRANCHES, JUMPS
  <2>4. QED
    BY <2>1, <2>3
<1>4. QED
  BY <1>2, <1>3 DEF InRegion

(* The hazard behind a hidden instruction is one of a jalr behind the       *)
(* opening marker, and costs one cycle.                                     *)
LEMMA PredecessorHidden ==
  ASSUME NEW prev, NEW i
  PROVE  /\ XHazardPenalty(prev, i).cycles - XHazardPenalty(InRegion(prev), i).cycles
              \in 0 .. 1
         /\ prev = None \/ ~IsMarker(prev) =>
              XHazardPenalty(prev, i).cycles = XHazardPenalty(InRegion(prev), i).cycles
<1>1. XHazardPenalty(prev, i).cycles \in Nat
  BY XHazardBooked DEF IsCost
<1>2. CASE InRegion(prev) = prev
  BY <1>1, <1>2
<1>3. CASE InRegion(prev) # prev
  <2>1. InRegion(prev) = None /\ prev # None /\ IsMarker(prev)
    BY <1>3 DEF InRegion
  <2>2. XHazardPenalty(None, i).cycles = 0
    BY DEF XHazardPenalty, Raw, Free, Cost
  <2>3. XHazardPenalty(prev, i).cycles \in 0 .. 1
    BY <2>1 DEF IsMarker, XHazardPenalty, Free, Cost, CSR_INSNS, LOADS
  <2>4. QED
    BY <2>1, <2>2, <2>3
<1>4. QED
  BY <1>2, <1>3 DEF InRegion

(* A charged instruction adds what both ends hide from the region.          *)
LEMMA ChargeGap ==
  ASSUME TypeOK, Charge
  PROVE  Gap' = Gap
           + (XInsnCycles(ins, ins').cycles - XInsnCycles(ins, InRegion(ins')).cycles)
           + (XHazardPenalty(before, ins).cycles
                - XHazardPenalty(InRegion(before), ins).cycles)
<1> DEFINE a == XInsnCycles(ins, ins').cycles
           b == XInsnCycles(ins, InRegion(ins')).cycles
           c == XHazardPenalty(before, ins).cycles
           d == XHazardPenalty(InRegion(before), ins).cycles
<1>1. a \in Nat /\ b \in Nat /\ c \in Nat /\ d \in Nat
  BY XInsnBooked, XHazardBooked DEF IsCost
<1>2. whole \in Nat /\ x40.cycles \in Nat
  BY DEF TypeOK, Tally
<1>3. whole' = whole + a + c
  BY DEF Charge
<1>4. x40'.cycles = x40.cycles + b + d
  BY DEF Charge, Book
<1> HIDE DEF a, b, c, d
<1>5. Gap' = Gap + (a - b) + (c - d)
  BY <1>1, <1>2, <1>3, <1>4 DEF Gap
<1>6. QED
  BY <1>5 DEF a, b, c, d

(* A step keeps the gap within what the markers passed so far may hide.     *)
LEMMA StepGap ==
  ASSUME TypeOK, GapInv, [Next]_vars
  PROVE  GapInv'
<1>1. Gap \in Int
  BY DEF GapInv
<1>2. CASE Next /\ OpenRegion
  <2>1. Gap' = 0
    BY <1>2 DEF OpenRegion, GapInv, Gap
  <2>2. before' # None /\ phase' = "measured"
    BY <1>2 DEF Next, OpenRegion
  <2>3. QED
    BY <2>1, <2>2 DEF GapInv
<1>3. CASE Next /\ CloseRegion
  <2>1. Gap' = Gap
    BY <1>3 DEF CloseRegion, Gap
  <2>2. before' # None /\ phase' = "done"
    BY <1>3 DEF Next, CloseRegion
  <2>3. QED
    BY <2>1, <2>2 DEF GapInv
<1>4. CASE Next /\ RunInsn
  <2> DEFINE more == XInsnCycles(ins, ins').cycles
                       - XInsnCycles(ins, InRegion(ins')).cycles
             hazard == XHazardPenalty(before, ins).cycles
                         - XHazardPenalty(InRegion(before), ins).cycles
  <2>1. Gap' = Gap + more + hazard
    BY <1>4, ChargeGap DEF RunInsn
  <2>2. /\ more \in 0 .. 3
        /\ ins' = None \/ ~IsMarker(ins') => more = 0
    <3>1. XInsnCycles(ins, ins').cycles \in Nat
          /\ XInsnCycles(ins, InRegion(ins')).cycles \in Nat
      BY XInsnBooked DEF IsCost
    <3>2. QED
      BY <3>1, SuccessorHidden
  <2>3. /\ hazard \in 0 .. 1
        /\ before = None \/ ~IsMarker(before) => hazard = 0
    <3>1. XHazardPenalty(before, ins).cycles \in Nat
          /\ XHazardPenalty(InRegion(before), ins).cycles \in Nat
      BY XHazardBooked DEF IsCost
    <3>2. QED
      BY <3>1, PredecessorHidden
  <2> HIDE DEF more, hazard
  <2>4. /\ before' = ins /\ ins # None /\ ~IsMarker(ins)
        /\ phase = "measured" /\ phase' = "measured"
    BY <1>4 DEF Next, RunInsn, Charge
  <2>5. before # None /\ Gap \in 0 .. 1 /\ (IsMarker(before) => Gap = 0)
    BY <2>4 DEF GapInv
  <2>6. Gap + hazard \in 0 .. 1
    BY <2>3, <2>5
  <2>7. Gap' \in 0 .. 4 /\ (ins' = None \/ ~IsMarker(ins') => Gap' \in 0 .. 1)
    BY <1>1, <2>1, <2>2, <2>3, <2>6
  <2>8. before' # None /\ ~IsMarker(before')
    BY <2>4
  <2>9. (IsMarker(before))' = IsMarker(before') /\ (IsMarker(ins))' = IsMarker(ins')
    BY DEF IsMarker
  <2>10. QED
    BY <2>4, <2>7, <2>8, <2>9 DEF GapInv
<1>5. CASE UNCHANGED vars
  BY <1>5 DEF vars, GapInv, Gap, IsMarker
<1>6. QED
  BY <1>2, <1>3, <1>4, <1>5 DEF Next

(* For every trace the region is charged at most what its instructions cost *)
(* within the whole trace (CV32E40XModel), and at most four cycles less.    *)
THEOREM RegionLosesAtMostFour == Spec => []RegionWithinBoundary
<1>1. Init => GapInv
  <2> SUFFICES ASSUME Init PROVE GapInv
    OBVIOUS
  <2>1. Gap = 0
    BY DEF Init, Gap, NoTally
  <2>2. PICK i \in Insns : IsMarker(i) /\ ins = Entry(i, None, None)
    BY DEF Init
  <2>3. IsMarker(ins)
    BY <2>2 DEF IsMarker, Entry
  <2>4. before = None
    BY DEF Init
  <2>5. QED
    BY <2>1, <2>3, <2>4 DEF GapInv
<1>2. TypeOK /\ GapInv /\ [Next]_vars => GapInv'
  BY StepGap
<1>3. TypeOK /\ GapInv => RegionWithinBoundary
  BY DEF TypeOK, Tally, GapInv, Gap, RegionWithinBoundary
<1>4. QED
  BY <1>1, <1>2, <1>3, TypeCorrect, PTL DEF Spec

-----------------------------------------------------------------------------
(* The recovered divisor. *)

(* The replayed register file is the program's: the commit lines leave      *)
(* nothing out, in the order in which the instructions ran.                 *)
Replayed == regs = x /\ DivisorExact

(* A trace made with --log-commits recovers (parse_trace) the divisor of    *)
(* every division it reports one for, whatever the program does to it next. *)
THEOREM DivisorsRecovered ==
  ASSUME LogCommits
  PROVE  Spec => []DivisorExact
<1>1. Init => Replayed
  BY DEF Init, Replayed, DivisorExact, Entry
<1>2. Replayed /\ [Next]_vars => Replayed'
  <2> SUFFICES ASSUME Replayed, [Next]_vars PROVE Replayed'
    OBVIOUS
  <2>1. CASE ParseEnd
    BY <2>1 DEF ParseEnd, Replayed, DivisorExact
  <2>2. ASSUME NEW i \in Insns, Parse(i)
        PROVE  Replayed'
    <3>1. regs' = x'
      BY <2>2 DEF Parse, Replayed
    <3>2. ins'.divisor = ins'.trueDivisor
      BY <2>2 DEF Parse, Replayed, Recovered, Entry
    <3>3. QED
      BY <3>1, <3>2 DEF Replayed, DivisorExact
  <2>3. CASE UNCHANGED vars
    BY <2>3 DEF vars, Replayed, DivisorExact
  <2>4. QED
    BY <2>1, <2>2, <2>3 DEF Next
<1>3. Replayed => DivisorExact
  BY DEF Replayed
<1>4. QED
  BY <1>1, <1>2, <1>3, PTL DEF Spec
=============================================================================
