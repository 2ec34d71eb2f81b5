-------------------------- MODULE Candidates_proofs --------------------------
(***************************************************************************)
(* Proofs about the candidate finder, for every region, timing table and   *)
(* option of the command line.                                             *)
(***************************************************************************)
EXTENDS Candidates, FiniteSetTheorems, SequenceTheorems, WellFoundedInduction, TLAPS

-----------------------------------------------------------------------------
(* Facts about numbers and finite sets.                                     *)

(* A set of naturals that is not empty has a least element.                 *)
LEMMA LeastNatural ==
  ASSUME NEW T \in SUBSET Nat, T # {}
  PROVE  \E x \in T : \A y \in T : x <= y
<1> DEFINE R == OpToRel(<, Nat)
<1>1. R = {ss \in Nat \X Nat : ss[1] < ss[2]}
  BY DEF OpToRel
<1>2. IsWellFoundedOn(R, Nat)
  BY NatLessThanWellFounded
<1> HIDE DEF R
<1>3. PICK x \in T : \A y \in T : ~(<<y, x>> \in R)
  BY <1>2, WFMin
<1>4. ASSUME NEW y \in T
      PROVE  x <= y
  <2>1. y \in Nat /\ x \in Nat
    OBVIOUS
  <2>2. ~(y < x)
    <3>1. SUFFICES ASSUME y < x PROVE FALSE
      OBVIOUS
    <3>2. <<y, x>> \in Nat \X Nat /\ <<y, x>>[1] < <<y, x>>[2]
      BY <2>1, <3>1
    <3>3. <<y, x>> \in R
      BY <1>1, <3>2
    <3>4. QED
      BY <1>3, <3>3
  <2>3. QED
    BY <2>1, <2>2
<1>5. QED
  BY <1>4

(* Max returns the greatest element of a set of naturals with a bound.      *)
LEMMA MaxOfBounded ==
  ASSUME NEW S \in SUBSET Nat, S # {}, NEW b \in Nat, \A y \in S : y <= b
  PROVE  Max(S) \in S /\ \A y \in S : Max(S) >= y
<1> DEFINE T == {b - y : y \in S}
<1>1. ASSUME NEW y \in S
      PROVE  b - y \in Nat
  OBVIOUS
<1>2. T \in SUBSET Nat
  BY <1>1
<1>3. T # {}
  <2>1. PICK y \in S : TRUE
    OBVIOUS
  <2>2. b - y \in T
    BY <2>1
  <2>3. QED
    BY <2>2
<1> HIDE DEF T
<1>4. PICK t \in T : \A u \in T : t <= u
  BY <1>2, <1>3, LeastNatural
<1>5. PICK x \in S : t = b - x
  BY DEF T
<1>6. ASSUME NEW y \in S
      PROVE  x >= y
  <2>1. b - y \in T
    BY DEF T
  <2>2. b - x <= b - y
    BY <1>4, <1>5, <2>1
  <2>3. x \in Nat /\ y \in Nat
    OBVIOUS
  <2>4. QED
    BY <2>2, <2>3
<1>7. \E m \in S : \A y \in S : m >= y
  BY <1>6
<1>8. QED
  BY <1>7 DEF Max

(* Max returns the greater of two integers.                                 *)
LEMMA MaxOfTwo ==
  ASSUME NEW a \in Int, NEW b \in Int
  PROVE  Max({a, b}) \in {a, b} /\ Max({a, b}) >= a /\ Max({a, b}) >= b
<1>1. \E m \in {a, b} : \A y \in {a, b} : m >= y
  BY a >= b \/ b >= a
<1>2. QED
  BY <1>1 DEF Max

(* A set of naturals with 0 and every successor has them all.               *)
LEMMA AllNaturals ==
  ASSUME NEW T \in SUBSET Nat, 0 \in T, \A m \in T : m + 1 \in T
  PROVE  T = Nat
<1> SUFFICES ASSUME Nat \ T # {} PROVE FALSE
  OBVIOUS
<1>1. PICK x \in Nat \ T : \A y \in Nat \ T : x <= y
  BY LeastNatural
<1>2. x # 0 /\ x \in Nat
  OBVIOUS
<1>3. x - 1 \in Nat /\ ~(x <= x - 1)
  BY <1>2
<1>4. x - 1 \in T
  BY <1>1, <1>3
<1>5. (x - 1) + 1 = x
  BY <1>2
<1>6. QED
  BY <1>4, <1>5

(* A function with finitely many arguments has finitely many values.        *)
LEMMA ImageFinite ==
  ASSUME NEW D, IsFiniteSet(D), NEW f, DOMAIN f = D, f = [d \in D |-> f[d]]
  PROVE  IsFiniteSet({f[d] : d \in D})
<1> DEFINE T == {f[d] : d \in D}
<1>1. f \in Surjection(D, T)
  BY DEF Surjection
<1>2. QED
  BY <1>1, FS_Surjection

-----------------------------------------------------------------------------
(* The loop variables, and the instructions of a window.                    *)

TypeOK ==
  /\ region \in Regions
  /\ i \in Nat \ {0}
  /\ len \in Nat /\ len >= 2

(* A region is a sequence of parsed instructions.                           *)
LEMMA RegionType ==
  ASSUME region \in Regions
  PROVE  /\ region \in Seq(ParsedInsn)
         /\ Len(region) \in Nat /\ DOMAIN region = 1 .. Len(region)
         /\ \A k \in 1 .. Len(region) : region[k] \in ParsedInsn
  BY RegionsAssumption

(* The sources of an instruction are a sequence of registers.               *)
LEMMA SrcListType ==
  ASSUME NEW x \in ParsedInsn
  PROVE  SrcList(x) \in Seq(Regs \cup {"zero"})
<1>1. x.ops \in Seq(Regs \cup {"zero"})
  BY DEF ParsedInsn
<1>2. CASE x.ops = << >>
  BY <1>1, <1>2 DEF SrcList
<1>3. CASE x.ops # << >>
  <2>1. Tail(x.ops) \in Seq(Regs \cup {"zero"})
    BY <1>1, <1>3, HeadTailProperties
  <2>2. QED
    BY <1>1, <1>3, <2>1 DEF SrcList
<1>4. QED
  BY <1>2, <1>3

(* An instruction of a region prints finitely many sources.                 *)
LEMMA SrcsFinite ==
  ASSUME NEW x \in ParsedInsn
  PROVE  IsFiniteSet(Srcs(x))
<1> DEFINE list == SrcList(x)
<1>1. list \in Seq(Regs \cup {"zero"})
  BY SrcListType
<1> HIDE DEF list
<1>2. Len(list) \in Nat
  BY <1>1
<1>3. DOMAIN list = 1 .. Len(list) /\ list = [k \in 1 .. Len(list) |-> list[k]]
  BY <1>1
<1>4. IsFiniteSet(1 .. Len(list))
  BY <1>2, FS_Interval
<1>5. IsFiniteSet({list[k] : k \in 1 .. Len(list)})
  BY <1>3, <1>4, ImageFinite
<1>6. QED
  BY <1>5 DEF Srcs, list

(* What a window reads and what it produces are finite sets.                *)
LEMMA ExternalFinite ==
  ASSUME region \in Regions, NEW s \in Nat \ {0}, NEW e \in Nat, e <= Len(region)
  PROVE  IsFiniteSet(External(s, e))
<1> DEFINE f == [k \in s .. e |-> Srcs(region[k])]
<1>1. IsFiniteSet(s .. e)
  BY FS_Interval
<1>2. IsFiniteSet({f[k] : k \in s .. e})
  BY <1>1, ImageFinite
<1>3. {f[k] : k \in s .. e} = {Srcs(region[k]) : k \in s .. e}
  OBVIOUS
<1>4. \A k \in s .. e : region[k] \in ParsedInsn
  BY RegionType
<1>5. \A T \in {Srcs(region[k]) : k \in s .. e} : IsFiniteSet(T)
  BY <1>4, SrcsFinite
<1>6. IsFiniteSet(UNION {Srcs(region[k]) : k \in s .. e})
  BY <1>2, <1>3, <1>5, FS_UNION
<1>7. External(s, e) \in SUBSET UNION {Srcs(region[k]) : k \in s .. e}
  BY DEF External
<1>8. QED
  BY <1>6, <1>7, FS_Subset

(* A window makes finitely many values.                                     *)
LEMMA LiveOutFinite ==
  ASSUME NEW s \in Nat, NEW e \in Nat
  PROVE  IsFiniteSet(LiveOut(s, e))
<1> DEFINE f == [k \in s .. e |-> Dest(region[k])]
<1>1. IsFiniteSet(s .. e)
  BY FS_Interval
<1>2. IsFiniteSet({f[k] : k \in s .. e})
  BY <1>1, ImageFinite
<1>3. {f[k] : k \in s .. e} = {Dest(region[k]) : k \in s .. e}
  OBVIOUS
<1>4. LiveOut(s, e) \in SUBSET {Dest(region[k]) : k \in s .. e}
  BY DEF LiveOut, Produced
<1>5. QED
  BY <1>2, <1>3, <1>4, FS_Subset

-----------------------------------------------------------------------------
(* A fusable window really has NumRs operands and one result at most, when  *)
(* the disassembly prints what its instructions read and write.             *)

Printed(x) ==
  /\ x.reads \subseteq Srcs(x)
  /\ x.writes = IF Dest(x) \in Regs THEN Dest(x) ELSE "zero"

AllPrinted == \A code \in Regions : \A k \in DOMAIN code : Printed(code[k])

(* The producer of what k reads in r is behind every other writer of r.     *)
LEMMA ProducerLast ==
  ASSUME NEW k \in Nat, NEW r
  PROVE  /\ Producer(k, r) \in Nat
         /\ Producer(k, r) # 0 =>
              Producer(k, r) \in 1 .. k - 1 /\ region[Producer(k, r)].writes = r
         /\ \A j \in 1 .. k - 1 : region[j].writes = r => Producer(k, r) >= j
<1> DEFINE S == {0} \cup {j \in 1 .. k - 1 : region[j].writes = r}
<1>1. S \in SUBSET Nat /\ S # {} /\ \A y \in S : y <= k
  OBVIOUS
<1>2. Producer(k, r) = Max(S)
  BY DEF Producer
<1>3. Max(S) \in S /\ \A y \in S : Max(S) >= y
  BY <1>1, MaxOfBounded
<1> HIDE DEF S
<1>4. Producer(k, r) \in S /\ \A y \in S : Producer(k, r) >= y
  BY <1>2, <1>3
<1>5. QED
  BY <1>4 DEF S

(* Every register that is really read from outside is an operand.           *)
LEMMA OperandsExternal ==
  ASSUME AllPrinted, region \in Regions,
         NEW s \in Nat \ {0}, NEW e \in Nat, e <= Len(region),
         NEW r \in Regs, NEW k \in s .. e, r \in region[k].reads, Producer(k, r) < s
  PROVE  r \in External(s, e)
<1>1. \A j \in 1 .. Len(region) : Printed(region[j])
  BY RegionType DEF AllPrinted
<1>2. k \in Nat /\ k \in 1 .. Len(region)
  BY RegionType
<1>3. r \in Srcs(region[k])
  BY <1>1, <1>2 DEF Printed
<1>4. ASSUME NEW j \in s .. k - 1
      PROVE  Dest(region[j]) # r
  <2>1. j \in 1 .. k - 1 /\ j \in 1 .. Len(region)
    BY <1>2, RegionType
  <2>2. region[j].writes # r
    BY <1>2, <2>1, ProducerLast
  <2>3. QED
    BY <1>1, <2>1, <2>2 DEF Printed
<1>5. r # "zero"
  BY RegsAssumption
<1>6. r \in (UNION {Srcs(region[l]) : l \in s .. e}) \ {"zero"}
  BY <1>3, <1>5
<1>7. \E l \in s .. e : /\ r \in Srcs(region[l])
                       /\ \A j \in s .. l - 1 : Dest(region[j]) # r
  BY <1>3, <1>4
<1>8. QED
  BY <1>6, <1>7, Zenon DEF External

(* Every value made in the window and really read behind it is live.        *)
LEMMA ResultsLive ==
  ASSUME AllPrinted, region \in Regions,
         NEW s \in Nat \ {0}, NEW e \in Nat, e <= Len(region),
         NEW r \in Regs, NEW k \in e + 1 .. Len(region), r \in region[k].reads,
         Producer(k, r) \in s .. e
  PROVE  r \in LiveOut(s, e)
<1>1. \A j \in 1 .. Len(region) : Printed(region[j])
  BY RegionType DEF AllPrinted
<1>2. k \in Nat /\ k \in 1 .. Len(region) /\ Len(region) \in Nat
  BY RegionType
<1> DEFINE p == Producer(k, r)
<1>3. p \in s .. e /\ p \in 1 .. k - 1 /\ p \in 1 .. Len(region) /\ region[p].writes = r
  BY <1>2, ProducerLast
<1>4. Dest(region[p]) = r
  BY <1>1, <1>3, RegsAssumption DEF Printed
<1>5. r \in Produced(s, e)
  BY <1>3, <1>4, RegsAssumption DEF Produced
<1>6. ~Dead(r, e)
  <2>1. SUFFICES ASSUME NEW j \in Horizon(e), Dest(region[j]) = r,
                        \A l \in e + 1 .. j : r \notin Srcs(region[l])
                 PROVE  FALSE
    BY DEF Dead
  <2>2. j \in Int /\ j >= e + 1
    BY DEF Horizon
  <2>3. ~(j >= k)
    <3>1. r \in Srcs(region[k])
      BY <1>1, <1>2 DEF Printed
    <3>2. QED
      BY <1>2, <2>1, <2>2, <3>1
  <2>4. j \in 1 .. k - 1 /\ j \in 1 .. Len(region)
    BY <1>2, <2>2, <2>3
  <2>5. region[j].writes = r
    BY <1>1, <2>1, <2>4 DEF Printed
  <2>6. p >= j
    BY <1>2, <2>4, <2>5, ProducerLast
  <2>7. QED
    BY <1>3, <2>2, <2>6
<1>7. QED
  BY <1>5, <1>6 DEF LiveOut

(* The window under the cursor lies inside the region unless the scan ends  *)
(* there.                                                                   *)
LEMMA WindowInside ==
  ASSUME TypeOK, ~Ends
  PROVE  /\ End \in Nat /\ End >= i + 1 /\ End <= Len(region) /\ len <= MaxLen
         /\ Len(region) \in Nat
  BY RegionType, LimitsAssumption DEF TypeOK, Ends, End

(* A window that is counted can be one instruction, for all that reads and  *)
(* writes what it prints.                                                   *)
LEMMA WindowFusable ==
  ASSUME AllPrinted, TypeOK
  PROVE  FusableAsOne
<1> SUFFICES ASSUME ~Done, ~Ends, Qualifies
             PROVE  FusableAsOne
  BY DEF FusableAsOne
<1> DEFINE operands == {r \in Regs : \E k \in i .. End :
                          r \in region[k].reads /\ Producer(k, r) < i}
           results  == {r \in Regs : \E k \in End + 1 .. Len(region) :
                          r \in region[k].reads /\ Producer(k, r) \in i .. End}
<1>1. /\ region \in Regions /\ i \in Nat \ {0} /\ End \in Nat /\ End <= Len(region)
  BY WindowInside DEF TypeOK
<1>2. operands \in SUBSET External(i, End)
  BY <1>1, OperandsExternal
<1>3. results \in SUBSET LiveOut(i, End)
  BY <1>1, ResultsLive
<1>4. IsFiniteSet(External(i, End)) /\ IsFiniteSet(LiveOut(i, End))
  BY <1>1, ExternalFinite, LiveOutFinite
<1> HIDE DEF operands, results
<1>5. /\ Cardinality(operands) <= Cardinality(External(i, End))
      /\ Cardinality(results) <= Cardinality(LiveOut(i, End))
      /\ IsFiniteSet(operands) /\ IsFiniteSet(results)
  BY <1>2, <1>3, <1>4, FS_Subset
<1>6. /\ Cardinality(External(i, End)) \in Nat /\ Cardinality(LiveOut(i, End)) \in Nat
      /\ Cardinality(operands) \in Nat /\ Cardinality(results) \in Nat
  BY <1>4, <1>5, FS_CardinalityType
<1>7. Cardinality(operands) <= NumRs /\ Cardinality(results) <= 1
  BY <1>5, <1>6, LimitsAssumption DEF Qualifies
<1>8. QED
  BY <1>7 DEF FusableAsOne, operands, results

-----------------------------------------------------------------------------
(* The scan counts every fusable window that it has passed.                 *)

Passed ==
  {w \in Windows : Fusable(w) /\ (w[1] < i \/ (w[1] = i /\ w[2] - w[1] + 1 < len))}
SignatureOf(w) == Signature(w[1], w[2])
CountedAs(sig) == {w \in Passed : SignatureOf(w) = sig}

ScanInv ==
  /\ DOMAIN cands = {SignatureOf(w) : w \in Passed}
  /\ \A sig \in DOMAIN cands : cands[sig].count = Cardinality(CountedAs(sig))

(* A window is two positions of the region.                                 *)
LEMMA WindowType ==
  ASSUME TypeOK, NEW w \in Windows
  PROVE  /\ w = <<w[1], w[2]>> /\ w[1] \in Nat \ {0} /\ w[2] \in Nat
         /\ w[2] <= Len(region) /\ w[2] >= w[1] + 1 /\ w[2] - w[1] + 1 <= MaxLen
  BY RegionType, LimitsAssumption DEF Windows, TypeOK

(* Finitely many windows are behind the scan.                               *)
LEMMA PassedFinite ==
  ASSUME TypeOK
  PROVE  IsFiniteSet(Passed) /\ \A sig : IsFiniteSet(CountedAs(sig))
<1>1. Len(region) \in Nat
  BY RegionType DEF TypeOK
<1>2. IsFiniteSet(1 .. Len(region))
  BY <1>1, FS_Interval
<1>3. IsFiniteSet((1 .. Len(region)) \X (1 .. Len(region)))
  BY <1>2, FS_Product
<1>4. Passed \in SUBSET ((1 .. Len(region)) \X (1 .. Len(region)))
  BY DEF Passed, Windows
<1>5. IsFiniteSet(Passed)
  BY <1>3, <1>4, FS_Subset
<1>6. ASSUME NEW sig
      PROVE  IsFiniteSet(CountedAs(sig))
  <2>1. CountedAs(sig) \in SUBSET Passed
    BY DEF CountedAs
  <2>2. QED
    BY <1>5, <2>1, FS_Subset
<1>7. QED
  BY <1>5, <1>6

(* No step changes the region, and with it what its windows are.            *)
LEMMA FrameWindows ==
  ASSUME region' = region
  PROVE  /\ Windows' = Windows
         /\ \A w : (Fusable(w))' <=> Fusable(w)
         /\ \A w : (SignatureOf(w))' = SignatureOf(w)
<1>1. Windows' = Windows
  BY DEF Windows
<1>2. ASSUME NEW s, NEW e
      PROVE  /\ External(s, e)' = External(s, e)
             /\ LiveOut(s, e)' = LiveOut(s, e)
             /\ Signature(s, e)' = Signature(s, e)
  BY DEF External, LiveOut, Produced, Dead, Horizon, Signature
<1>3. ASSUME NEW w
      PROVE  (Fusable(w))' <=> Fusable(w)
  BY <1>2 DEF Fusable
<1>4. ASSUME NEW w
      PROVE  (SignatureOf(w))' = SignatureOf(w)
  BY <1>2 DEF SignatureOf
<1>5. QED
  BY <1>1, <1>3, <1>4

(* A step does not change the region, so what is behind the scan differs    *)
(* by the cursor only.                                                      *)
LEMMA PassedNext ==
  ASSUME region' = region
  PROVE  /\ Passed' = {w \in Windows : Fusable(w) /\
                          (w[1] < i' \/ (w[1] = i' /\ w[2] - w[1] + 1 < len'))}
         /\ \A sig : CountedAs(sig)' = {w \in Passed' : SignatureOf(w) = sig}
  BY FrameWindows DEF Passed, CountedAs

(* When the scan leaves the windows at i early it leaves no fusable one out:*)
(* a longer window is cut off, or contains what ended the scan.             *)
LEMMA StopPassesAll ==
  ASSUME TypeOK, Ends, NextStart, region' = region
  PROVE  Passed' = Passed
<1>1. ASSUME NEW w \in Windows, Fusable(w), w[1] = i
      PROVE  w[2] - w[1] + 1 < len
  <2>1. /\ w[1] \in Nat /\ w[2] \in Nat /\ w[2] <= Len(region)
        /\ w[2] - w[1] + 1 <= MaxLen /\ Len(region) \in Nat /\ MaxLen \in Nat
    BY WindowType, RegionType, LimitsAssumption DEF TypeOK
  <2>2. SUFFICES ASSUME w[2] - w[1] + 1 >= len
                 PROVE  FALSE
    BY <2>1 DEF TypeOK
  <2>3. End <= w[2] /\ End \in Nat
    BY <1>1, <2>1, <2>2 DEF End, TypeOK
  <2>4. PICK k \in i .. End : IsControl(region[k]) \/ (IsMem(region[k]) /\ ~AllowMem)
    BY <2>1, <2>2, <2>3 DEF Ends, TypeOK
  <2>5. k \in w[1] .. w[2]
    BY <1>1, <2>1, <2>3, <2>4
  <2>6. QED
    BY <1>1, <2>4, <2>5 DEF Fusable
<1>2. ASSUME NEW w \in Windows, Fusable(w)
      PROVE  (w[1] < i' \/ (w[1] = i' /\ w[2] - w[1] + 1 < len'))
               <=> (w[1] < i \/ (w[1] = i /\ w[2] - w[1] + 1 < len))
  <2>1. w[1] \in Nat /\ w[2] \in Nat /\ w[2] >= w[1] + 1 /\ i \in Nat
    BY WindowType DEF TypeOK
  <2>2. i' = i + 1 /\ len' = 2
    BY DEF NextStart
  <2>3. QED
    BY <1>1, <1>2, <2>1, <2>2
<1>3. Passed' = {w \in Windows : Fusable(w) /\
                   (w[1] < i' \/ (w[1] = i' /\ w[2] - w[1] + 1 < len'))}
  BY PassedNext
<1>4. QED
  BY <1>2, <1>3 DEF Passed

(* One iteration passes one window, which is fusable exactly when it        *)
(* qualifies.                                                               *)
LEMMA AdvancePassesOne ==
  ASSUME TypeOK, ~Ends, Advance, region' = region
  PROVE  /\ <<i, End>> \notin Passed
         /\ Passed' = Passed \cup {w \in {<<i, End>>} : Qualifies}
<1>1. /\ End \in Nat /\ End >= i + 1 /\ End <= Len(region) /\ len <= MaxLen
      /\ Len(region) \in Nat /\ i \in Nat \ {0} /\ len \in Nat /\ len >= 2
      /\ MaxLen \in Nat /\ End = i + len - 1
  BY WindowInside, LimitsAssumption DEF TypeOK, End
<1>2. <<i, End>> \in Windows
  <2>1. i \in 1 .. Len(region) /\ End \in 1 .. Len(region) /\ End - i + 1 \in 2 .. MaxLen
    BY <1>1
  <2>2. QED
    BY <2>1 DEF Windows
<1>3. Fusable(<<i, End>>) <=> Qualifies
  <2>1. \A k \in i .. End : ~IsControl(region[k]) /\ (IsMem(region[k]) => AllowMem)
    BY <1>1, RegionType DEF Ends, TypeOK
  <2>2. QED
    BY <2>1 DEF Fusable, Qualifies
<1>4. ASSUME NEW w \in Windows
      PROVE  (w[1] < i' \/ (w[1] = i' /\ w[2] - w[1] + 1 < len'))
               <=> (w[1] < i \/ (w[1] = i /\ w[2] - w[1] + 1 < len)) \/ w = <<i, End>>
  <2>1. w[1] \in Nat /\ w[2] \in Nat /\ w = <<w[1], w[2]>>
    BY WindowType
  <2>2. i' = i /\ len' = len + 1
    BY DEF Advance
  <2>3. w = <<i, End>> <=> w[1] = i /\ w[2] = End
    BY <2>1
  <2>4. QED
    BY <1>1, <2>1, <2>2, <2>3
<1>5. Passed' = {w \in Windows : Fusable(w) /\
                   (w[1] < i' \/ (w[1] = i' /\ w[2] - w[1] + 1 < len'))}
  BY PassedNext
<1>6. <<i, End>> \notin Passed
  <2>1. ~(i < i) /\ ~(End - i + 1 < len)
    BY <1>1
  <2>2. QED
    BY <2>1 DEF Passed
<1>7. ASSUME NEW w
      PROVE  w \in Passed' <=> w \in Passed \cup {v \in {<<i, End>>} : Qualifies}
  BY <1>2, <1>3, <1>4, <1>5 DEF Passed
<1>8. QED
  BY <1>6, <1>7

(* A step that passes no fusable window keeps the counts.                   *)
LEMMA SameCounts ==
  ASSUME ScanInv, Passed' = Passed, UNCHANGED <<region, cands>>
  PROVE  ScanInv'
<1>1. \A sig : CountedAs(sig)' = CountedAs(sig)
  BY PassedNext DEF CountedAs
<1>2. \A w : (SignatureOf(w))' = SignatureOf(w)
  BY FrameWindows
<1>3. QED
  BY <1>1, <1>2 DEF ScanInv

(* A counted window raises the count of its signature by one, and no other. *)
LEMMA CountsOne ==
  ASSUME TypeOK, ScanInv, Count
  PROVE  ScanInv'
<1>0. PICK sig : sig = Signature(i, End)
  OBVIOUS
<1> DEFINE w == <<i, End>>
           old == IF sig \in DOMAIN cands THEN cands[sig] ELSE NoCandidate
<1>1. region' = region /\ Advance /\ ~Ends /\ Qualifies
  BY DEF Count
<1>2. w \notin Passed /\ Passed' = Passed \cup {w}
  <2>1. {v \in {w} : Qualifies} = {w}
    BY <1>1
  <2>2. QED
    BY <1>1, <2>1, AdvancePassesOne
<1>3. SignatureOf(w) = sig
  BY <1>0 DEF SignatureOf
<1>4. DOMAIN cands' = DOMAIN cands \cup {sig}
  BY <1>0 DEF Count
<1>5. cands'[sig].count = old.count + 1
  BY <1>0 DEF Count
<1>6. \A c \in DOMAIN cands : c # sig => cands'[c] = cands[c]
  BY <1>0 DEF Count
<1>7. \A c : CountedAs(c)' = {v \in Passed' : SignatureOf(v) = c}
  BY <1>1, PassedNext
<1>8. \A v : (SignatureOf(v))' = SignatureOf(v)
  BY <1>1, FrameWindows
<1>9. old.count = Cardinality(CountedAs(sig))
  <2>1. CASE sig \in DOMAIN cands
    BY <2>1 DEF ScanInv
  <2>2. CASE sig \notin DOMAIN cands
    <3>1. CountedAs(sig) = {}
      BY <2>2 DEF ScanInv, CountedAs
    <3>2. QED
      BY <2>2, <3>1, FS_EmptySet DEF NoCandidate
  <2>3. QED
    BY <2>1, <2>2
<1> HIDE DEF w, old
<1>10. CountedAs(sig)' = CountedAs(sig) \cup {w} /\ w \notin CountedAs(sig)
  BY <1>2, <1>3, <1>7 DEF CountedAs
<1>11. Cardinality(CountedAs(sig)') = Cardinality(CountedAs(sig)) + 1
  BY <1>10, PassedFinite, FS_AddElement
<1>12. ASSUME NEW c, c # sig
       PROVE  CountedAs(c)' = CountedAs(c)
  BY <1>2, <1>3, <1>7, <1>12 DEF CountedAs
<1>13. DOMAIN cands' = {(SignatureOf(v))' : v \in Passed'}
  BY <1>2, <1>3, <1>4, <1>8 DEF ScanInv
<1>14. ASSUME NEW c \in DOMAIN cands'
       PROVE  cands'[c].count = Cardinality(CountedAs(c)')
  <2>1. CASE c = sig
    BY <1>5, <1>9, <1>11, <2>1
  <2>2. CASE c # sig
    BY <1>4, <1>6, <1>12, <2>2 DEF ScanInv
  <2>3. QED
    BY <2>1, <2>2
<1>15. QED
  BY <1>13, <1>14 DEF ScanInv

-----------------------------------------------------------------------------
(* Sums of stalls over sets of windows.                                     *)

Pick(s) == CHOOSE w \in s : TRUE
StallOf(s) == FusedStall(Pick(s))

(* g is the sum of the stalls over the windows in each set of domain D, in  *)
(* the recursion of the fold.                                               *)
IsStallSum(g, D) ==
  g = [s \in D |-> IF s = {} THEN 0 ELSE StallOf(s) + g[s \ {Pick(s)}]]

(* The subsets of S with n elements at most. *)
Small(S, n) == {s \in SUBSET S : Cardinality(s) <= n}

(* Taking a window out of a set leaves a smaller one.                       *)
LEMMA PickSmaller ==
  ASSUME NEW S, IsFiniteSet(S), NEW s \in SUBSET S, s # {}
  PROVE  /\ Pick(s) \in s /\ s \ {Pick(s)} \in SUBSET S
         /\ IsFiniteSet(s) /\ IsFiniteSet(s \ {Pick(s)})
         /\ Cardinality(s) \in Nat
         /\ Cardinality(s \ {Pick(s)}) = Cardinality(s) - 1
<1>1. Pick(s) \in s
  BY DEF Pick
<1>2. IsFiniteSet(s)
  BY FS_Subset
<1>3. QED
  BY <1>1, <1>2, FS_RemoveElement, FS_CardinalityType

(* The sum exists for the sets of every size.                               *)
LEMMA StallSumExists ==
  ASSUME NEW S, IsFiniteSet(S)
  PROVE  \E g : IsStallSum(g, SUBSET S)
<1> DEFINE T == {m \in Nat : \E g : IsStallSum(g, Small(S, m))}
<1>1. 0 \in T
  <2> DEFINE g == [s \in Small(S, 0) |-> 0]
  <2>1. ASSUME NEW s \in Small(S, 0) PROVE s = {}
    BY FS_Subset, FS_CardinalityType, FS_EmptySet DEF Small
  <2>2. IsStallSum(g, Small(S, 0))
    BY <2>1 DEF IsStallSum
  <2>3. QED
    BY <2>2
<1>2. ASSUME NEW m \in T
      PROVE  m + 1 \in T
  <2>1. PICK g : IsStallSum(g, Small(S, m))
    OBVIOUS
  <2> DEFINE h == [s \in Small(S, m + 1) |->
                     IF s = {} THEN 0 ELSE StallOf(s) + g[s \ {Pick(s)}]]
  <2>2. ASSUME NEW s \in Small(S, m)
        PROVE  /\ g[s] = IF s = {} THEN 0 ELSE StallOf(s) + g[s \ {Pick(s)}]
               /\ s \in Small(S, m + 1)
    <3>1. m \in Nat /\ s \in SUBSET S /\ Cardinality(s) <= m
      BY DEF Small
    <3>2. Cardinality(s) \in Nat
      BY <3>1, FS_Subset, FS_CardinalityType
    <3>3. g[s] = IF s = {} THEN 0 ELSE StallOf(s) + g[s \ {Pick(s)}]
      BY <2>1 DEF IsStallSum
    <3>4. s \in Small(S, m + 1)
      BY <3>1, <3>2 DEF Small
    <3>5. QED
      BY <3>3, <3>4
  <2>3. ASSUME NEW s \in Small(S, m + 1), s # {}
        PROVE  s \ {Pick(s)} \in Small(S, m)
    <3>1. m \in Nat /\ s \in SUBSET S /\ Cardinality(s) <= m + 1
      BY DEF Small
    <3>2. QED
      BY <2>3, <3>1, PickSmaller DEF Small
  <2>4. ASSUME NEW s \in Small(S, m) PROVE h[s] = g[s]
    BY <2>2
  <2>5. ASSUME NEW s \in Small(S, m + 1)
        PROVE  h[s] = IF s = {} THEN 0 ELSE StallOf(s) + h[s \ {Pick(s)}]
    BY <2>3, <2>4
  <2>6. h = [s \in Small(S, m + 1) |-> IF s = {} THEN 0 ELSE StallOf(s) + h[s \ {Pick(s)}]]
    BY <2>5
  <2>7. IsStallSum(h, Small(S, m + 1))
    BY <2>6 DEF IsStallSum
  <2>8. QED
    BY <2>7
<1>3. T = Nat
  <2> HIDE DEF T
  <2>1. T \in SUBSET Nat
    BY DEF T
  <2>2. QED
    BY <1>1, <1>2, <2>1, AllNaturals
<1>4. Cardinality(S) \in T
  BY <1>3, FS_CardinalityType
<1>5. Small(S, Cardinality(S)) = SUBSET S
  BY FS_Subset DEF Small
<1>6. QED
  BY <1>4, <1>5

(* A fold that adds at most one for the windows in E, and nothing for       *)
(* others, does not exceed their number.                                    *)
LEMMA SumWithin ==
  ASSUME NEW S, IsFiniteSet(S), NEW E \in SUBSET S,
         \A w \in S : FusedStall(w) \in Nat /\ FusedStall(w) <= IF w \in E THEN 1 ELSE 0
  PROVE  MapThenSumSet(FusedStall, S) <= Cardinality(E)
<1> DEFINE g == CHOOSE f : IsStallSum(f, SUBSET S)
<1>1. IsStallSum(g, SUBSET S)
  BY StallSumExists
<1>2. MapThenSumSet(FusedStall, S) = g[S]
  BY DEF MapThenSumSet, MapThenFoldSet, IsStallSum, StallOf, Pick
<1> HIDE DEF g
<1>3. ASSUME NEW s \in SUBSET S
      PROVE  g[s] = IF s = {} THEN 0 ELSE StallOf(s) + g[s \ {Pick(s)}]
  BY <1>1 DEF IsStallSum
<1> DEFINE T == {m \in Nat : \A s \in Small(S, m) : g[s] \in Nat /\ g[s] <= Cardinality(s \cap E)}
<1>4. 0 \in T
  <2>1. ASSUME NEW s \in Small(S, 0) PROVE s = {}
    BY FS_Subset, FS_CardinalityType, FS_EmptySet DEF Small
  <2>2. {} \cap E = {} /\ Cardinality({}) = 0
    BY FS_EmptySet
  <2>3. g[{}] = 0
    BY <1>3
  <2>4. QED
    BY <2>1, <2>2, <2>3
<1>5. ASSUME NEW m \in T
      PROVE  m + 1 \in T
  <2> SUFFICES ASSUME NEW s \in Small(S, m + 1)
               PROVE  g[s] \in Nat /\ g[s] <= Cardinality(s \cap E)
    OBVIOUS
  <2>1. m \in Nat /\ s \in SUBSET S /\ Cardinality(s) <= m + 1
    BY DEF Small
  <2>2. CASE s = {}
    <3>1. {} \cap E = {} /\ Cardinality({}) = 0
      BY FS_EmptySet
    <3>2. QED
      BY <1>3, <2>2, <3>1
  <2>3. CASE s # {}
    <3> DEFINE x == Pick(s)
               r == s \ {x}
    <3>1. /\ x \in s /\ r \in SUBSET S /\ IsFiniteSet(s) /\ IsFiniteSet(r)
          /\ Cardinality(r) = Cardinality(s) - 1 /\ Cardinality(s) \in Nat
      BY <2>1, <2>3, PickSmaller
    <3>2. r \in Small(S, m)
      BY <2>1, <3>1 DEF Small
    <3>3. g[s] = FusedStall(x) + g[r]
      BY <1>3, <2>1, <2>3 DEF StallOf
    <3>4. g[r] \in Nat /\ g[r] <= Cardinality(r \cap E)
      BY <3>2
    <3> HIDE DEF x
    <3>5. FusedStall(x) \in Nat /\ FusedStall(x) <= IF x \in E THEN 1 ELSE 0
      BY <2>1, <3>1
    <3>6. IsFiniteSet(s \cap E) /\ IsFiniteSet(r \cap E)
      BY <3>1, FS_Subset
    <3>7. Cardinality(s \cap E) \in Nat /\ Cardinality(r \cap E) \in Nat
      BY <3>6, FS_CardinalityType
    <3>8. CASE x \in E
      <4>1. s \cap E = (r \cap E) \cup {x} /\ x \notin r \cap E
        BY <3>1, <3>8
      <4>2. Cardinality(s \cap E) = Cardinality(r \cap E) + 1
        BY <3>6, <4>1, FS_AddElement
      <4>3. QED
        BY <3>3, <3>4, <3>5, <3>7, <3>8, <4>2
    <3>9. CASE x \notin E
      <4>1. s \cap E = r \cap E
        BY <3>9
      <4>2. FusedStall(x) = 0
        BY <3>5, <3>9
      <4>3. g[s] = g[r]
        BY <3>3, <3>4, <4>2
      <4>4. QED
        BY <3>4, <4>1, <4>3
    <3>10. QED
      BY <3>8, <3>9
  <2>4. QED
    BY <2>2, <2>3
<1>6. T = Nat
  <2> HIDE DEF T
  <2>1. T \in SUBSET Nat
    BY DEF T
  <2>2. QED
    BY <1>4, <1>5, <2>1, AllNaturals
<1>7. Cardinality(S) \in T
  <2> HIDE DEF T
  <2>1. Cardinality(S) \in Nat
    BY FS_CardinalityType
  <2>2. QED
    BY <1>6, <2>1
<1>8. S \in Small(S, Cardinality(S)) /\ S \cap E = E
  BY FS_CardinalityType DEF Small
<1>9. QED
  BY <1>2, <1>7, <1>8

-----------------------------------------------------------------------------
(* The stall in front of the fused instruction. *)

(* --core: one of the two timing tables.                                    *)
TableOfACore ==
  \A prev, x : HazardPenalty(prev, x) \in {XHazardPenalty(prev, x), PHazardPenalty(prev, x)}

(* Whether a load in front of the window feeds it so closely that the fused *)
(* instruction is expected to stall.                                        *)
SlackOf(w) == Slack(w[1], External(w[1], w[2]))
Exposes(w) == Exposed(SlackOf(w))

(* The fused instruction reads what its window reads from outside.          *)
LEMMA FusedReads ==
  ASSUME NEW w, IsFiniteSet(External(w[1], w[2]))
  PROVE  /\ Fused(w).base = "mul"
         /\ Srcs(Fused(w)) \subseteq External(w[1], w[2])
<1> DEFINE ext == External(w[1], w[2])
           q == SetToSeq(ext)
           n == Cardinality(ext)
<1>1. n \in Nat
  BY FS_CardinalityType
<1>2. q \in [1 .. n -> ext]
  <2>1. PICK m \in Nat : ExistsBijection(1 .. m, ext)
    BY FS_NatBijection
  <2>2. m = n
    BY <2>1, FS_CountingElements
  <2>3. PICK f \in Bijection(1 .. n, ext) : TRUE
    BY <2>1, <2>2 DEF ExistsBijection
  <2>4. f \in [1 .. n -> ext] /\ IsInjective(f)
    BY <2>3 DEF Bijection, Injection, IsInjective
  <2>5. QED
    BY <2>4 DEF SetToSeq
<1> HIDE DEF q, n, ext
<1>3. q \in Seq(ext) /\ Len(q) = n
  BY <1>1, <1>2
<1>4. Fused(w).base = "mul" /\ Fused(w).rvc = FALSE /\ Fused(w).ops = <<"zero">> \o q
  BY DEF Fused, q, ext
<1> DEFINE ops == <<"zero">> \o q
<1>5. ops \in Seq({"zero"} \cup ext) /\ Len(ops) = n + 1 /\ \A k \in 1 .. n : ops[k + 1] = q[k]
  BY <1>1, <1>2, <1>3
<1>6. ops # << >>
  BY <1>1, <1>5
<1>7. SrcList(Fused(w)) = Tail(ops)
  <2>1. "mul" \notin NO_DEST /\ "mul" \notin RVC_READ_MODIFY_WRITE
    BY DEF NO_DEST, BRANCHES, STORES, RVC_READ_MODIFY_WRITE
  <2>2. QED
    BY <1>4, <1>6, <2>1 DEF SrcList
<1> HIDE DEF ops
<1>8. Len(Tail(ops)) = n /\ \A k \in 1 .. n : Tail(ops)[k] = q[k]
  BY <1>1, <1>5, <1>6, HeadTailProperties
<1>9. Srcs(Fused(w)) = {Tail(ops)[k] : k \in 1 .. n}
  BY <1>7, <1>8 DEF Srcs
<1>10. \A k \in 1 .. n : Tail(ops)[k] \in ext
  BY <1>2, <1>8
<1>11. QED
  BY <1>4, <1>9, <1>10 DEF ext

(* A load in front of the window that feeds it is found by the look back.   *)
LEMMA LoadInFront ==
  ASSUME TypeOK, NEW w \in Windows, w[1] # 1,
         region[w[1] - 1].base \in LOADS, Dest(region[w[1] - 1]) \in External(w[1], w[2])
  PROVE  Exposes(w)
<1> DEFINE s == w[1]
           ext == External(w[1], w[2])
           loads == {k \in Max({1, s - 4}) .. s - 1 :
                       /\ region[k].base \in LOADS /\ Dest(region[k]) \in ext
                       /\ \A j \in k .. s - 1 : ~IsControl(region[j])}
<1>1. s \in Nat \ {0} /\ s # 1
  BY WindowType
<1>2. ~IsControl(region[s - 1])
  BY DEF IsControl, LOADS, BRANCHES, JUMPS
<1> HIDE DEF s, ext
<1>3. Max({1, s - 4}) \in Nat \ {0} /\ Max({1, s - 4}) <= s - 1
  <2>1. s - 4 \in Int /\ 1 \in Int /\ s - 4 <= s - 1 /\ 1 <= s - 1
    BY <1>1
  <2>2. Max({1, s - 4}) \in {1, s - 4} /\ Max({1, s - 4}) >= 1
    BY <2>1, MaxOfTwo
  <2>3. QED
    BY <2>1, <2>2
<1>4. s - 1 \in loads
  <2>1. s - 1 \in Max({1, s - 4}) .. s - 1
    BY <1>1, <1>3
  <2>2. \A j \in s - 1 .. s - 1 : j = s - 1
    BY <1>1
  <2>3. QED
    BY <1>2, <2>1, <2>2 DEF s, ext
<1>5. Max(loads) = s - 1
  <2>1. loads \in SUBSET Nat /\ \A y \in loads : y <= s - 1
    BY <1>1, <1>3
  <2> HIDE DEF loads
  <2>2. Max(loads) \in loads /\ Max(loads) >= s - 1
    BY <1>1, <1>4, <2>1, MaxOfBounded
  <2>3. Max(loads) \in Nat /\ Max(loads) <= s - 1
    BY <2>1, <2>2
  <2>4. QED
    BY <1>1, <2>2, <2>3
<1>6. SlackOf(w) = {s - 1 - k : k \in {s - 1}}
  <2>1. SlackOf(w) = {s - 1 - k : k \in IF loads = {} THEN {} ELSE {Max(loads)}}
    BY DEF SlackOf, Slack, s, ext
  <2>2. QED
    BY <1>4, <1>5, <2>1
<1>7. 0 \in SlackOf(w)
  BY <1>1, <1>6
<1>8. QED
  BY <1>7 DEF Exposes, Exposed

(* In front of the fused instruction at most one cycle is charged, and none *)
(* when no load was found to be exposed.                                    *)
LEMMA StallExposed ==
  ASSUME TableOfACore, TypeOK, NEW w \in Windows
  PROVE  FusedStall(w) \in Nat /\ FusedStall(w) <= IF Exposes(w) THEN 1 ELSE 0
<1>1. /\ w[1] \in Nat \ {0} /\ w[2] \in Nat /\ w[2] <= Len(region) /\ w[2] >= w[1] + 1
      /\ region \in Regions /\ DOMAIN region = 1 .. Len(region)
  BY WindowType, RegionType DEF TypeOK
<1>2. PICK prev : prev = At(w[1] - 1)
  OBVIOUS
<1>3. PICK x : x = Fused(w)
  OBVIOUS
<1>4. x.base = "mul" /\ Srcs(x) \subseteq External(w[1], w[2])
  BY <1>1, <1>3, ExternalFinite, FusedReads
<1>5. HazardPenalty(prev, x).cycles
        = IF Raw(prev, x) /\ prev.base \in LOADS THEN 1 ELSE 0
  <2>1. x.base \notin JALR_LIKE
    BY <1>4 DEF JALR_LIKE
  <2>2. XHazardPenalty(prev, x).cycles = IF Raw(prev, x) /\ prev.base \in LOADS THEN 1 ELSE 0
    BY <2>1 DEF XHazardPenalty, Cost, Free
  <2>3. PHazardPenalty(prev, x).cycles = IF Raw(prev, x) /\ prev.base \in LOADS THEN 1 ELSE 0
    BY <2>1 DEF PHazardPenalty, Cost, Free
  <2>4. QED
    BY <2>2, <2>3 DEF TableOfACore
<1>6. ASSUME Raw(prev, x), prev.base \in LOADS
      PROVE  Exposes(w)
  <2>1. prev # None /\ Dest(prev) \in External(w[1], w[2])
    BY <1>4, <1>6 DEF Raw
  <2>2. w[1] - 1 \in DOMAIN region /\ prev = region[w[1] - 1]
    BY <1>2, <2>1 DEF At
  <2>3. w[1] # 1
    BY <1>1, <2>2
  <2>4. QED
    BY <1>6, <2>1, <2>2, <2>3, LoadInFront
<1>7. FusedStall(w) = HazardPenalty(prev, x).cycles
  BY <1>2, <1>3 DEF FusedStall
<1>8. QED
  BY <1>5, <1>6, <1>7

-----------------------------------------------------------------------------
(* The stalls that are expected. *)

Feeds(w) == SlackOf(w) # {}

(* The two counters of a candidate (expected, worst) are the numbers of its *)
(* windows behind the scan that a load exposes, and that a load feeds.      *)
StallInv ==
  \A sig \in DOMAIN cands :
    /\ cands[sig].expected = Cardinality({w \in CountedAs(sig) : Exposes(w)})
    /\ cands[sig].worst = Cardinality({w \in CountedAs(sig) : Feeds(w)})

(* Whether a load feeds a window depends on the region only.                *)
LEMMA FrameSlack ==
  ASSUME region' = region
  PROVE  \A w : (Exposes(w)' <=> Exposes(w)) /\ (Feeds(w)' <=> Feeds(w))
<1>1. ASSUME NEW w
      PROVE  SlackOf(w)' = SlackOf(w)
  BY DEF SlackOf, Slack, External, IsControl
<1>2. QED
  BY <1>1 DEF Exposes, Feeds, Exposed

(* A step that counts nothing expects no other stalls.                      *)
LEMMA SameStalls ==
  ASSUME StallInv, Passed' = Passed, UNCHANGED <<region, cands>>
  PROVE  StallInv'
<1>1. \A sig : CountedAs(sig)' = CountedAs(sig)
  BY PassedNext DEF CountedAs
<1>2. \A w : (Exposes(w)' <=> Exposes(w)) /\ (Feeds(w)' <=> Feeds(w))
  BY FrameSlack
<1>3. ASSUME NEW sig
      PROVE  /\ {w \in CountedAs(sig) : Exposes(w)}' = {w \in CountedAs(sig) : Exposes(w)}
             /\ {w \in CountedAs(sig) : Feeds(w)}' = {w \in CountedAs(sig) : Feeds(w)}
  BY <1>1, <1>2
<1>4. QED
  BY <1>3 DEF StallInv

(* An element more, or none.                                                *)
LEMMA AddOneIf ==
  ASSUME NEW A, IsFiniteSet(A), NEW w, w \notin A, NEW c \in BOOLEAN
  PROVE  Cardinality(A \cup {v \in {w} : c}) = Cardinality(A) + IF c THEN 1 ELSE 0
<1>1. Cardinality(A) \in Nat
  BY FS_CardinalityType
<1>2. CASE c
  <2>1. A \cup {v \in {w} : c} = A \cup {w}
    BY <1>2
  <2>2. QED
    BY <1>1, <1>2, <2>1, FS_AddElement
<1>3. CASE ~c
  <2>1. A \cup {v \in {w} : c} = A
    BY <1>3
  <2>2. QED
    BY <1>1, <1>3, <2>1
<1>4. QED
  BY <1>2, <1>3

(* A counted window is expected to stall exactly when it is exposed.        *)
LEMMA CountsStalls ==
  ASSUME TypeOK, ScanInv, StallInv, Count
  PROVE  StallInv'
<1>0. PICK sig : sig = Signature(i, End)
  OBVIOUS
<1> DEFINE w == <<i, End>>
           old == IF sig \in DOMAIN cands THEN cands[sig] ELSE NoCandidate
           E(c) == {v \in CountedAs(c) : Exposes(v)}
           F(c) == {v \in CountedAs(c) : Feeds(v)}
<1>1. region' = region /\ Advance /\ ~Ends /\ Qualifies
  BY DEF Count
<1>2. w \notin Passed /\ Passed' = Passed \cup {w}
  <2>1. {v \in {w} : Qualifies} = {w}
    BY <1>1
  <2>2. QED
    BY <1>1, <2>1, AdvancePassesOne
<1>3. SignatureOf(w) = sig
  BY <1>0 DEF SignatureOf
<1>4. DOMAIN cands' = DOMAIN cands \cup {sig}
  BY <1>0 DEF Count
<1>5. /\ cands'[sig].expected = old.expected + IF Exposes(w) THEN 1 ELSE 0
      /\ cands'[sig].worst = old.worst + IF Feeds(w) THEN 1 ELSE 0
  <2>1. SlackOf(w) = Slack(i, External(i, End))
    BY DEF SlackOf
  <2>2. QED
    BY <1>0, <2>1 DEF Count, Exposes, Feeds
<1>6. \A c \in DOMAIN cands : c # sig => cands'[c] = cands[c]
  BY <1>0 DEF Count
<1>7. \A c : CountedAs(c)' = {v \in Passed' : SignatureOf(v) = c}
  BY <1>1, PassedNext
<1>8. \A v : (Exposes(v)' <=> Exposes(v)) /\ (Feeds(v)' <=> Feeds(v))
  BY <1>1, FrameSlack
<1>9. old.expected = Cardinality(E(sig)) /\ old.worst = Cardinality(F(sig))
  <2>1. CASE sig \in DOMAIN cands
    BY <2>1 DEF StallInv
  <2>2. CASE sig \notin DOMAIN cands
    <3>1. CountedAs(sig) = {}
      BY <2>2 DEF ScanInv, CountedAs
    <3>2. E(sig) = {} /\ F(sig) = {}
      BY <3>1
    <3>3. QED
      BY <2>2, <3>2, FS_EmptySet DEF NoCandidate
  <2>3. QED
    BY <2>1, <2>2
<1> HIDE DEF w, old
<1>10. CountedAs(sig)' = CountedAs(sig) \cup {w} /\ w \notin CountedAs(sig)
  BY <1>2, <1>3, <1>7 DEF CountedAs
<1>11. /\ {v \in CountedAs(sig)' : Exposes(v)} = E(sig) \cup {v \in {w} : Exposes(w)}
       /\ {v \in CountedAs(sig)' : Feeds(v)} = F(sig) \cup {v \in {w} : Feeds(w)}
       /\ w \notin E(sig) /\ w \notin F(sig)
  BY <1>10
<1>12. IsFiniteSet(E(sig)) /\ IsFiniteSet(F(sig))
  <2>1. IsFiniteSet(CountedAs(sig)) /\ E(sig) \in SUBSET CountedAs(sig) /\ F(sig) \in SUBSET CountedAs(sig)
    BY PassedFinite
  <2>2. QED
    BY <2>1, FS_Subset
<1>13. /\ Cardinality({v \in CountedAs(sig)' : Exposes(v)}) = Cardinality(E(sig)) + IF Exposes(w) THEN 1 ELSE 0
       /\ Cardinality({v \in CountedAs(sig)' : Feeds(v)}) = Cardinality(F(sig)) + IF Feeds(w) THEN 1 ELSE 0
  <2>1. Exposes(w) \in BOOLEAN /\ Feeds(w) \in BOOLEAN
    BY DEF Exposes, Exposed, Feeds
  <2> HIDE DEF E, F
  <2>2. Cardinality(E(sig) \cup {v \in {w} : Exposes(w)}) = Cardinality(E(sig)) + IF Exposes(w) THEN 1 ELSE 0
    BY <1>11, <1>12, <2>1, AddOneIf
  <2>3. Cardinality(F(sig) \cup {v \in {w} : Feeds(w)}) = Cardinality(F(sig)) + IF Feeds(w) THEN 1 ELSE 0
    BY <1>11, <1>12, <2>1, AddOneIf
  <2>4. QED
    BY <1>11, <2>2, <2>3
<1>14. ASSUME NEW c, c # sig
       PROVE  CountedAs(c)' = CountedAs(c)
  BY <1>2, <1>3, <1>7, <1>14 DEF CountedAs
<1>15. ASSUME NEW c \in DOMAIN cands'
       PROVE  /\ cands'[c].expected = Cardinality({v \in CountedAs(c)' : Exposes(v)})
              /\ cands'[c].worst = Cardinality({v \in CountedAs(c)' : Feeds(v)})
  <2>1. CASE c = sig
    BY <1>5, <1>9, <1>13, <2>1
  <2>2. CASE c # sig
    BY <1>4, <1>6, <1>14, <2>2 DEF StallInv
  <2>3. QED
    BY <2>1, <2>2
<1>16. ASSUME NEW c
       PROVE  /\ {v \in CountedAs(c) : Exposes(v)}' = {v \in CountedAs(c)' : Exposes(v)}
              /\ {v \in CountedAs(c) : Feeds(v)}' = {v \in CountedAs(c)' : Feeds(v)}
  BY <1>8
<1>17. QED
  BY <1>15, <1>16 DEF StallInv

-----------------------------------------------------------------------------
(* The theorems. *)

Inv == TypeOK /\ ScanInv /\ StallInv

(* Nothing is behind the scan in the beginning.                             *)
LEMMA InitInv == Init => Inv
<1> SUFFICES ASSUME Init PROVE Inv
  OBVIOUS
<1>1. TypeOK
  BY DEF Init, TypeOK
<1>2. Passed = {}
  <2>1. ASSUME NEW w \in Windows
        PROVE  ~(w[1] < i \/ (w[1] = i /\ w[2] - w[1] + 1 < len))
    BY <1>1, WindowType DEF Init
  <2>2. QED
    BY <2>1 DEF Passed
<1>3. DOMAIN cands = {}
  BY DEF Init
<1>4. QED
  BY <1>1, <1>2, <1>3 DEF Inv, ScanInv, StallInv

(* Every step of the scan keeps the invariant.                              *)
LEMMA StepInv == Inv /\ [Next]_vars => Inv'
<1> SUFFICES ASSUME Inv, [Next]_vars PROVE Inv'
  OBVIOUS
<1>1. TypeOK /\ ScanInv /\ StallInv
  BY DEF Inv
<1>2. CASE Stop
  <2>1. TypeOK'
    BY <1>1, <1>2 DEF Stop, NextStart, TypeOK
  <2>2. ScanInv' /\ StallInv'
    BY <1>1, <1>2, StopPassesAll, SameCounts, SameStalls DEF Stop
  <2>3. QED
    BY <2>1, <2>2 DEF Inv
<1>3. CASE Skip
  <2>1. TypeOK'
    BY <1>1, <1>3 DEF Skip, Advance, TypeOK
  <2>2. Passed' = Passed
    <3>1. {w \in {<<i, End>>} : Qualifies} = {}
      BY <1>3 DEF Skip
    <3>2. QED
      BY <1>1, <1>3, <3>1, AdvancePassesOne DEF Skip
  <2>3. ScanInv' /\ StallInv'
    BY <1>1, <1>3, <2>2, SameCounts, SameStalls DEF Skip
  <2>4. QED
    BY <2>1, <2>3 DEF Inv
<1>4. CASE Count
  <2>1. TypeOK'
    BY <1>1, <1>4 DEF Count, Advance, TypeOK
  <2>2. ScanInv' /\ StallInv'
    BY <1>1, <1>4, CountsOne, CountsStalls
  <2>3. QED
    BY <2>1, <2>2 DEF Inv
<1>5. CASE UNCHANGED vars
  <2>1. TypeOK'
    BY <1>1, <1>5 DEF vars, TypeOK
  <2>2. Passed' = Passed
    BY <1>5, PassedNext DEF vars, Passed
  <2>3. ScanInv' /\ StallInv'
    BY <1>1, <1>5, <2>2, SameCounts, SameStalls DEF vars
  <2>4. QED
    BY <2>1, <2>3 DEF Inv
<1>6. QED
  BY <1>2, <1>3, <1>4, <1>5 DEF Next

(* When the scan is over, every fusable window is behind it.                *)
LEMMA DonePassesAll ==
  ASSUME Inv, Done
  PROVE  /\ Passed = {w \in Windows : Fusable(w)}
         /\ \A sig : CountedAs(sig) = Occurrences(sig)
<1>1. TypeOK
  BY DEF Inv
<1>2. ASSUME NEW w \in Windows
      PROVE  w[1] < i
  <2>1. w[1] \in Nat /\ w[2] \in Nat /\ w[2] <= Len(region) /\ w[2] >= w[1] + 1
    BY <1>1, WindowType
  <2>2. i \in Nat /\ Len(region) \in Nat /\ i > Len(region)
    BY <1>1, RegionType DEF TypeOK, Done
  <2>3. QED
    BY <2>1, <2>2
<1>3. Passed = {w \in Windows : Fusable(w)}
  BY <1>2 DEF Passed
<1>4. QED
  BY <1>3 DEF CountedAs, Occurrences, SignatureOf

(* The cursor stays on a window of its region, and the counters are those   *)
(* of the fusable windows passed so far.                                    *)
THEOREM Invariance == Spec => []Inv
  BY InitInv, StepInv, PTL DEF Spec

(* The scan of main, with its early exits, counts every occurrence of every *)
(* fusable window and nothing else, for every region and every limit.       *)
THEOREM CountsAll == Spec => []ScanComplete
<1>1. Inv => ScanComplete
  <2> SUFFICES ASSUME Inv, Done PROVE ScanComplete
    BY DEF ScanComplete
  <2>1. TypeOK /\ ScanInv
    BY DEF Inv
  <2>2. /\ Passed = {w \in Windows : Fusable(w)}
        /\ \A sig : CountedAs(sig) = Occurrences(sig)
    BY DonePassesAll
  <2>3. DOMAIN cands = {Signature(w[1], w[2]) : w \in {v \in Windows : Fusable(v)}}
    BY <2>1, <2>2 DEF ScanInv, SignatureOf
  <2>4. QED
    BY <2>1, <2>2, <2>3 DEF ScanInv, ScanComplete
<1>2. QED
  BY <1>1, Invariance, PTL

(* A counted window (analyse) has at most NumRs operands and one result in  *)
(* what its instructions really do, also behind the lookahead, when they    *)
(* do what the disassembly prints.                                          *)
THEOREM CountedAreFusable ==
  ASSUME AllPrinted
  PROVE  Spec => []FusableAsOne
<1>1. Inv => FusableAsOne
  BY WindowFusable DEF Inv
<1>2. QED
  BY <1>1, Invariance, PTL

(* The band of the report (hazard slack): the stalls that the cycle model   *)
(* charges in front of the fused instructions are at most those expected,   *)
(* and these at most those of the worst case, for every region, with the    *)
(* table of either core.                                                    *)
THEOREM StallsExpected ==
  ASSUME TableOfACore
  PROVE  Spec => []StallsWithinExpected
<1>1. Inv => StallsWithinExpected
  <2> SUFFICES ASSUME Inv, Done, NEW sig \in DOMAIN cands
               PROVE  /\ MapThenSumSet(FusedStall, Occurrences(sig)) <= cands[sig].expected
                      /\ cands[sig].expected <= cands[sig].worst
    BY DEF StallsWithinExpected
  <2>1. Inv /\ TypeOK /\ StallInv
    BY DEF Inv
  <2> DEFINE S == Occurrences(sig)
             E == {w \in S : Exposes(w)}
             F == {w \in S : Feeds(w)}
  <2>2. S = CountedAs(sig)
    BY <2>1, DonePassesAll
  <2>3. IsFiniteSet(S) /\ S \subseteq Windows
    BY <2>1, <2>2, PassedFinite DEF CountedAs, Passed
  <2>4. cands[sig].expected = Cardinality(E) /\ cands[sig].worst = Cardinality(F)
    BY <2>1, <2>2 DEF StallInv
  <2>5. \A w \in S : FusedStall(w) \in Nat /\ FusedStall(w) <= IF w \in E THEN 1 ELSE 0
    BY <2>1, <2>3, StallExposed
  <2>6. E \in SUBSET S /\ F \in SUBSET S /\ E \in SUBSET F
    BY DEF Exposes, Feeds, Exposed
  <2> HIDE DEF S, E, F
  <2>7. MapThenSumSet(FusedStall, S) <= Cardinality(E)
    BY <2>3, <2>5, <2>6, SumWithin
  <2>8. Cardinality(E) <= Cardinality(F)
    BY <2>3, <2>6, FS_Subset
  <2>9. QED
    BY <2>4, <2>7, <2>8 DEF S
<1>2. QED
  BY <1>1, Invariance, PTL
=============================================================================
