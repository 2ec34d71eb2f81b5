------------------------------- MODULE Xpulp -------------------------------
(***************************************************************************)
(* The predictor model/predict_xpulp.py: which instructions of a measured  *)
(* region the Xpulp extension makes superfluous, and what the CV32E40P     *)
(* model charges for those that survive.  The shifted additions of         *)
(* addresses (sh1add and so on) are in the class of "add".                 *)
(***************************************************************************)
EXTENDS Timing, FiniteSetsExt, SequencesExt

is_ptr_bump(i) == i.base = "addi" /\ Dest(i) # None /\ Dest(i) \in Srcs(i)
is_mem(i) == i.base \in LOADS \cup STORES

(* The register in the brackets, which is printed last.                     *)
mem_base_reg(i) == Last(i.ops)

-----------------------------------------------------------------------------
(* analyse_loop_body: the positions in a body that are removable.           *)

(* The increments of what the closing branch reads: the first is taken for  *)
(* that of the loop counter.                                                *)
Counters(body) ==
  {k \in DOMAIN body : is_ptr_bump(body[k]) /\ Dest(body[k]) \in Srcs(Last(body))}
Counter(body) == IF Counters(body) = {} THEN {} ELSE {Min(Counters(body))}
Induction(body) == {Dest(body[k]) : k \in Counter(body)}

LoopControl(body, use_hwloop) ==
  IF use_hwloop THEN Counter(body) \cup {Len(body)} ELSE {}

(* The address arithmetic in front of position idx that still stands and    *)
(* that its base register comes from.                                       *)
Folding == {"add", "addi", "mv", "slli"}

Producers(body, idx, removed, regs) ==
  {d \in 1 .. idx - 1 : /\ d \notin removed /\ Dest(body[d]) \in regs
                        /\ body[d].base \in Folding}

Chain(body, idx, removed) ==
  LET reach[n \in 0 .. idx] ==
        IF n = 0 THEN Producers(body, idx, removed, {mem_base_reg(body[idx])})
        ELSE reach[n - 1] \cup
               Producers(body, idx, removed, UNION {Srcs(body[d]) : d \in reach[n - 1]})
  IN  reach[idx]

(* The accesses one after the other: the chain of one is folded when some   *)
(* of it reads the loop counter, and is gone for those behind it.           *)
Folded(body, idx, removed) ==
  LET chain == IF is_mem(body[idx]) THEN Chain(body, idx, removed) ELSE {}
  IN  IF \E d \in chain : Srcs(body[d]) \cap Induction(body) # {} THEN chain ELSE {}

PostIncrementAddr(body, removed) ==
  FoldLeftDomain(LAMBDA gone, idx : gone \cup Folded(body, idx, gone), removed, body)

PostIncrementPtr(body) ==
  {k \in DOMAIN body :
     /\ is_ptr_bump(body[k])
     /\ \E m \in DOMAIN body : is_mem(body[m]) /\ mem_base_reg(body[m]) = Dest(body[k])}

(* The first addition of the product within three instructions, if the      *)
(* product is not read behind it.                                           *)
Sum(body, idx) ==
  LET adds == {j \in idx + 1 .. Min({idx + 3, Len(body)}) :
                 body[j].base = "add" /\ Dest(body[idx]) \in Srcs(body[j])}
  IN  IF adds = {} THEN {} ELSE {Min(adds)}

(* Mutant: a product is fused with an addition although it is needed later. *)
MacFusionLive(body) ==
  UNION {Sum(body, idx) : idx \in {k \in DOMAIN body : body[k].base = "mul"}}

MacFusion(body) ==
  {j \in DOMAIN body :
     \E idx \in DOMAIN body :
        /\ body[idx].base = "mul" /\ j \in Sum(body, idx)
        /\ \A k \in j + 1 .. Len(body) : Dest(body[idx]) \notin Srcs(body[k])}

analyse_loop_body(body, use_hwloop) ==
  PostIncrementAddr(body, LoopControl(body, use_hwloop))
    \cup PostIncrementPtr(body) \cup MacFusion(body)

-----------------------------------------------------------------------------
(* transform: the loops of a region, and what is left of it.                *)

At(region, k) == IF k \in DOMAIN region THEN region[k] ELSE None

ClosesAt(region, k) ==
  /\ region[k].base \in BRANCHES
  /\ At(region, k + 1) # None /\ region[k + 1].pc < region[k].pc

(* Closing branch and target, as the branch is first taken backwards.       *)
Loops(region) ==
  LET closing == {k \in DOMAIN region : ClosesAt(region, k)}
  IN  {<<region[k].pc, region[k + 1].pc>> :
         k \in {c \in closing : \A e \in closing : region[e].pc = region[c].pc => c <= e}}

encloses(a, b) == a[2] <= b[2] /\ a[1] >= b[1] /\ a # b

selected(region, allow_nested) ==
  {a \in Loops(region) : allow_nested \/ ~ \E b \in Loops(region) : encloses(a, b)}

(* One instance of each instruction between target and branch, by address.  *)
Body(region, loop) ==
  LET pcs == {region[k].pc : k \in DOMAIN region} \cap (loop[2] .. loop[1])
      First(pc) == region[Min({k \in DOMAIN region : region[k].pc = pc})]
      Ranked(n) == CHOOSE pc \in pcs : Cardinality({q \in pcs : q <= pc}) = n
  IN  [n \in 1 .. Cardinality(pcs) |-> First(Ranked(n))]

removable(region, allow_nested, use_hwloop) ==
  UNION {LET body == Body(region, loop)
         IN  {body[k].pc : k \in analyse_loop_body(body, use_hwloop)} :
         loop \in selected(region, allow_nested)}

survivors(region, allow_nested, use_hwloop) ==
  LET gone == removable(region, allow_nested, use_hwloop)
  IN  SelectSeq(region, LAMBDA i : i.pc \notin gone)

Total(region) ==
  MapThenSumSet(LAMBDA k : PInsnCycles(region[k], At(region, k + 1)).cycles
                             + PHazardPenalty(At(region, k - 1), region[k]).cycles,
                DOMAIN region)

transform(region, allow_nested, use_hwloop) ==
  Total(survivors(region, allow_nested, use_hwloop))

-----------------------------------------------------------------------------
(* What the extension really replaces in a body: found from where each      *)
(* value is used, in this iteration or in the next.                         *)

(* The positions from k to j, around the end of the body, without the two.  *)
Between(body, k, j) ==
  IF k < j THEN k + 1 .. j - 1 ELSE (k + 1 .. Len(body)) \cup (1 .. j - 1)

Uses(body, k) ==
  {j \in DOMAIN body :
     /\ body[k].writes \in body[j].reads
     /\ \A d \in Between(body, k, j) : body[d].writes # body[k].writes}

(* The loop counter, and the registers that addresses are made of.         *)
AddressRegs(body) ==
  LET Sources(R) == UNION {body[k].reads : k \in {d \in DOMAIN body :
                             body[d].writes \in R /\ body[d].base \in Folding}}
      regs[n \in 0 .. Len(body)] ==
        IF n = 0 THEN {mem_base_reg(body[k]) : k \in {m \in DOMAIN body : is_mem(body[m])}}
                        \cup Induction(body)
        ELSE regs[n - 1] \cup Sources(regs[n - 1])
  IN  regs[Len(body)]

(* Values that only make addresses and end the loop.                        *)
UsesAsAddress(body, k, j) ==
  is_mem(body[j]) /\ ~(body[j].base \in STORES /\ body[j].ops[1] = body[k].writes)
AddressOnly(body) ==
  LET Kept(S) == {k \in S : \A j \in Uses(body, k) :
                              j \in S \/ j = Len(body) \/ UsesAsAddress(body, k, j)}
      rest[n \in 0 .. Len(body)] ==
        IF n = 0 THEN {k \in DOMAIN body : /\ body[k].base \in Folding
                                              /\ body[k].writes \in AddressRegs(body)}
        ELSE Kept(rest[n - 1])
  IN  rest[Len(body)]

(* p.mac rd, rs1, rs2 adds a product to rd itself.                          *)
Accumulations(body) ==
  {j \in DOMAIN body :
     /\ body[j].base = "add"
     /\ \E k \in DOMAIN body :
          /\ body[k].base = "mul" /\ Uses(body, k) = {j}
          /\ body[j].reads = {body[j].writes, body[k].writes}}

(* Shapes that the predictor does not look for: the counter or a register   *)
(* of addresses is an operand too; the product is read in front of its      *)
(* addition, made anew in between or added to another register.             *)
DataRegs(body) ==
  UNION {CASE body[k].base \in STORES -> {body[k].ops[1]}
           [] body[k].base = "mul" -> body[k].reads
           [] body[k].base \in Folding /\ body[k].writes \notin AddressRegs(body) -> body[k].reads
           [] OTHER -> {} : k \in DOMAIN body}
Unchecked(body) ==
  \/ AddressRegs(body) \cap DataRegs(body) # {}
  \/ \E k \in DOMAIN body : \E j \in Sum(body, k) :
       /\ body[k].base = "mul"
       /\ \/ body[j].reads # {body[j].writes, body[k].writes}
          \/ \E d \in k + 1 .. j - 1 : body[d].writes = body[k].writes
          \/ \E d \in (1 .. j - 1) \ {k} : body[k].writes \in body[d].reads

(* Of other loops, the predictor removes only what a hardware loop, an      *)
(* access with post-increment or p.mac does instead (analyse_loop_body).    *)
RemovesOnlyReplaced(body, use_hwloop) ==
  ~Unchecked(body) =>
    analyse_loop_body(body, use_hwloop) \ {Len(body)}
      \subseteq AddressOnly(body) \cup Accumulations(body)

(* The prediction for a region is at most what the model charges for the    *)
(* region itself, hazards that a removal exposes included (transform).      *)
NeverSlower(region, allow_nested, use_hwloop) ==
  transform(region, allow_nested, use_hwloop) <= Total(region)
=============================================================================
