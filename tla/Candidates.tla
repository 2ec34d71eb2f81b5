----------------------------- MODULE Candidates -----------------------------
(***************************************************************************)
(* The candidate finder model/find_candidates.py: a scan over the windows  *)
(* of a measured region for straight-line sequences that could become one  *)
(* custom instruction, scored with the cycle model.                        *)
(*                                                                         *)
(* One step is one iteration of the inner loop; i and len are its loop     *)
(* variables (the code counts from 0, this module from 1).  A window may   *)
(* be counted, skipped, or end the windows that start at i.                *)
(***************************************************************************)
EXTENDS Timing, FiniteSetsExt, SequencesExt

CONSTANTS
  Regions,        \* The measured regions: sequences of parsed instructions.
  InsnCycles(_, _), HazardPenalty(_, _), \* --core: the timing table.
  MaxLen,         \* --max-len.
  NumRs,          \* --num-rs.
  AllowMem,       \* --allow-mem.
  OffloadLatency, \* --offload-latency.
  Lookahead       \* The horizon of analyse (32 in the code).

(* An instruction of a region, as CycleModel parses it. *)
ParsedInsn ==
  [base : Mnemonics, rvc : BOOLEAN, pc : Nat, size : {2, 4},
   ops : Seq(Regs \cup {"zero"}), csr : {"cycle", "slow", "fast"},
   writes : Regs \cup {"zero"}, reads : SUBSET Regs, divisor : {None} \cup Nat]

ASSUME LimitsAssumption ==
  {MaxLen, NumRs, OffloadLatency, Lookahead} \subseteq Nat
ASSUME RegionsAssumption == Regions \subseteq Seq(ParsedInsn)
ASSUME RegsAssumption == "zero" \notin Regs /\ None \notin Regs \cup {"zero"}

VARIABLES
  region, \* The instructions between the two markers.
  i, len, \* The window: region[i] .. region[i + len - 1].
  cands   \* The counters by signature: a function on the signatures met.

vars == <<region, i, len, cands>>

-----------------------------------------------------------------------------
(* The cost of each instruction where it stands. *)

At(k) == IF k \in DOMAIN region THEN region[k] ELSE None

CostOf(k) ==
  InsnCycles(region[k], At(k + 1)).cycles + HazardPenalty(At(k - 1), region[k]).cycles

WindowCycles(s, e) == MapThenSumSet(CostOf, s .. e)

IsControl(x) == x.base \in BRANCHES \cup JUMPS
IsMem(x) == x.base \in LOADS \cup STORES

-----------------------------------------------------------------------------
(* analyse: what a window reads from the register file, and what it leaves  *)
(* there for a later instruction.                                           *)

External(s, e) ==
  {r \in (UNION {Srcs(region[k]) : k \in s .. e}) \ {"zero"} :
     \E k \in s .. e : /\ r \in Srcs(region[k])
                       /\ \A j \in s .. k - 1 : Dest(region[j]) # r}

Produced(s, e) == {Dest(region[k]) : k \in s .. e} \ {None}

Horizon(e) == e + 1 .. Min({e + Lookahead, Len(region)})

(* The first instruction that mentions r overwrites it without reading it.  *)
Dead(r, e) ==
  \E k \in Horizon(e) : /\ Dest(region[k]) = r
                        /\ \A j \in e + 1 .. k : r \notin Srcs(region[j])

LiveOut(s, e) == {r \in Produced(s, e) : ~Dead(r, e)}

(* The shape of a window: mnemonics, and registers renamed in the order in  *)
(* which they are mentioned.                                                *)
Mentioned(x) == IF Dest(x) = None THEN SrcList(x) ELSE Append(SrcList(x), Dest(x))

Signature(s, e) ==
  LET mentioned == FlattenSeq([k \in 1 .. e - s + 1 |-> Mentioned(region[s + k - 1])])
      First(r)  == Min({p \in DOMAIN mentioned : mentioned[p] = r})
      Slot(r)   == Cardinality({mentioned[p] : p \in 1 .. First(r)})
  IN  [k \in 1 .. e - s + 1 |->
         LET x == region[s + k - 1]
         IN  <<x.base, [p \in DOMAIN SrcList(x) |-> Slot(SrcList(x)[p])],
               IF Dest(x) = None THEN 0 ELSE Slot(Dest(x))>>]

(* The load that feeds the window from at most four instructions in front   *)
(* of it in the same basic block: how many instructions lie between, or     *)
(* none.                                                                    *)
Slack(s, ext) ==
  LET loads == {k \in Max({1, s - 4}) .. s - 1 :
                  /\ region[k].base \in LOADS /\ Dest(region[k]) \in ext
                  /\ \A j \in k .. s - 1 : ~IsControl(region[j])}
  IN  {s - 1 - k : k \in IF loads = {} THEN {} ELSE {Max(loads)}}

-----------------------------------------------------------------------------
(* The scan. *)

NoCandidate == [count |-> 0, cycles |-> 0, expected |-> 0, worst |-> 0]

End == i + len - 1

(* No longer window that starts at i can qualify. *)
Ends ==
  \/ len > MaxLen
  \/ End > Len(region)
  \/ \E k \in (i .. End) \cap DOMAIN region :
       IsControl(region[k]) \/ (IsMem(region[k]) /\ ~AllowMem)

(* Mutant: three operands are taken for the limit, whatever --num-rs says.  *)
QualifiesThree == Cardinality(External(i, End)) <= 3 /\ Cardinality(LiveOut(i, End)) <= 1

Qualifies ==
  /\ Cardinality(External(i, End)) <= NumRs
  /\ Cardinality(LiveOut(i, End)) <= 1

(* The next window of the inner loop, or of the next i. *)
NextStart == i' = i + 1 /\ len' = 2

(* Mutant: a window that is skipped ends the windows that start at i.       *)
AdvanceStops == IF Qualifies THEN i' = i /\ len' = len + 1 ELSE NextStart

Advance == i' = i /\ len' = len + 1

Stop ==
  /\ Ends
  /\ NextStart
  /\ UNCHANGED <<region, cands>>

Skip ==
  /\ ~Ends /\ ~Qualifies
  /\ Advance
  /\ UNCHANGED <<region, cands>>

(* Mutant: a load right in front of the window is taken for one that stalls *)
(* the window already.                                                      *)
ExposedFar(slack) == \E d \in slack : d = 1

Exposed(slack) == \E d \in slack : d <= 1

Count ==
  /\ ~Ends /\ Qualifies
  /\ LET sig == Signature(i, End)
         slack == Slack(i, External(i, End))
         old == IF sig \in DOMAIN cands THEN cands[sig] ELSE NoCandidate
         new == [count    |-> old.count + 1,
                 cycles   |-> old.cycles + WindowCycles(i, End),
                 expected |-> old.expected + (IF Exposed(slack) THEN 1 ELSE 0),
                 worst    |-> old.worst + (IF slack # {} THEN 1 ELSE 0)]
     IN  cands' = [c \in DOMAIN cands \cup {sig} |-> IF c = sig THEN new ELSE cands[c]]
  /\ Advance
  /\ UNCHANGED region

Init ==
  /\ region \in Regions
  /\ i = 1 /\ len = 2
  /\ cands = << >>

Next == i <= Len(region) /\ (Stop \/ Skip \/ Count)

Spec == Init /\ [][Next]_vars

-----------------------------------------------------------------------------
(* The report: what replacing every occurrence by one instruction of        *)
(* OffloadLatency cycles saves, at best, with the stalls expected, and with *)
(* a stall behind every load.                                               *)

OptSaved(sig) == cands[sig].cycles - cands[sig].count * OffloadLatency
ExpSaved(sig) == OptSaved(sig) - cands[sig].expected
WorstSaved(sig) == OptSaved(sig) - cands[sig].worst

-----------------------------------------------------------------------------
(* Properties. *)

Done == i > Len(region)

Windows == {w \in (1 .. Len(region)) \X (1 .. Len(region)) :
              w[2] - w[1] + 1 \in 2 .. MaxLen}

(* A straight line that one instruction of the interface can stand for.     *)
Fusable(w) ==
  /\ \A k \in w[1] .. w[2] : ~IsControl(region[k]) /\ (IsMem(region[k]) => AllowMem)
  /\ Cardinality(External(w[1], w[2])) <= NumRs
  /\ Cardinality(LiveOut(w[1], w[2])) <= 1

Occurrences(sig) == {w \in Windows : Fusable(w) /\ Signature(w[1], w[2]) = sig}

(* The instruction whose result instruction k reads in r: the last one in   *)
(* front of it that really writes r; 0 when it comes from before the region.*)
Producer(k, r) == Max({0} \cup {j \in 1 .. k - 1 : region[j].writes = r})

(* A window that is counted can be one instruction with NumRs operands and  *)
(* one result: that many registers are really read from outside it, and at  *)
(* most one value made in it is really read behind it, however far behind.  *)
FusableAsOne ==
  ~Done /\ ~Ends /\ Qualifies =>
    /\ Cardinality({r \in Regs : \E k \in i .. End :
                      r \in region[k].reads /\ Producer(k, r) < i}) <= NumRs
    /\ Cardinality({r \in Regs : \E k \in End + 1 .. Len(region) :
                      r \in region[k].reads /\ Producer(k, r) \in i .. End}) <= 1

(* The scan, with its early exits, counts every occurrence of every fusable *)
(* window and nothing else.                                                 *)
ScanComplete ==
  Done => /\ DOMAIN cands = {Signature(w[1], w[2]) : w \in {v \in Windows : Fusable(v)}}
          /\ \A sig \in DOMAIN cands : cands[sig].count = Cardinality(Occurrences(sig))

(* The custom instruction in the place of window w, as hazard_penalty sees  *)
(* it: its operands are what the window reads from outside.                 *)
Fused(w) == [base |-> "mul", rvc |-> FALSE,
             ops |-> <<"zero">> \o SetToSeq(External(w[1], w[2]))]
FusedStall(w) == HazardPenalty(At(w[1] - 1), Fused(w)).cycles

(* The stalls that the cycle model charges in front of the fused            *)
(* instructions are within those expected, and these within the worst case. *)
StallsWithinExpected ==
  Done => \A sig \in DOMAIN cands :
            /\ MapThenSumSet(FusedStall, Occurrences(sig)) <= cands[sig].expected
            /\ cands[sig].expected <= cands[sig].worst

=============================================================================
